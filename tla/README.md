# wg-quick-op in TLA+

`wg-quick-op` brings WireGuard interfaces up and down like `wg-quick`, starts
them on boot, and keeps the endpoints of their peers up to date with dynamic
DNS. This directory holds TLA+ models of it, TLC runs over small instances, and
theorems checked by TLAPS. Paths below are relative to the repository; line
numbers of every definition are in `PROJECT.json` under `map`.

## 1. The system

| Component | State it keeps | Operations | Interacts with |
|---|---|---|---|
| DDNS daemon, `daemon/daemon.go`, `ddns.go`, `watcher.go` | `runIfaces`, `pendingIfaces`, `lock`; per interface `cfg`, `unresolvedEndpoints` | `Run` (load, then pass after pass), `updateLoop`, `UpdateCallback`, `RemoveCallback`, `newDDNS` | files in `/etc/wireguard` (read, and watched through fsnotify), the kernel device, the resolver |
| Interface lifecycle, `quick/wg.go` | none of its own; the kernel's link, addresses, routes, peers and resolvconf's record | `Up`, `Down`, `Sync` = `SyncLink`, `SyncWireguardDevice`, `SyncAddress`, `SyncRoutes` | kernel (netlink, wgctrl), shell |
| Start on boot, `daemon/service.go` | attempts left in `GoRetryCtx` | `startOnBoot` | `Up`; runs beside the daemon |
| Command line, `cmd/` | none | `up`, `down`, `sync`, `bounce` | `quick`; separate processes, unknown to the daemon |
| Direct resolver, `lib/dns` | `publicDNS`, the rate limiter | `Init`, `directDNS`, `unfoldCNAME`, `nsAddrIter`, `queryAAndAAAAAddrIter` | public servers and name servers; called by the parser and the passes |
| Configuration parser, `quick/config.go` | none | `UnmarshalText` (daemon, up, sync), `UnmarshalTextNoPeer` (down), `GetUnresolvedEndpoints` (daemon), `MarshalText` | called by all of the above; three readers of the same files |
| Program configuration, `conf/` | the globals `conf.DDNS`, `conf.StartOnBoot`, ... | `Init`, `update` on a change of the file | read everywhere, without a lock |
| Self update, `cmd/update.go` | the binary and its `.old` copy | rename, stream, check, sync the service script, restart, roll back | mirror, GitHub, init system; runs the `install` command of the new binary |
| Installation, `daemon/binary.go`, `daemon/service.go`, `cmd/install.go`, `uninstall.go`, `service.go` | the installed binary, the service script | `Install`, `AddService`, `RmService`, `Uninstall` | init system |
| Entry points, logging, version | none | wiring | |

What is hard, and the properties that answer to it (the list with lines is in
`PROJECT.json` under `hazards`):

* **Three goroutines and a lock.** `newDDNS` reads a file twice; the loader
  removes what it loaded from a list that callbacks append to; files vanish
  while they are loaded. No edit may be lost, no removed file may live on, no
  collection may change under a loop, no one may starve.
* **Stale snapshots.** A pass compares DNS with a snapshot of the device and
  then pushes a configuration that may be older than both, while peers roam and
  other commands reconfigure the device.
* **Partial failure and retries.** Every kernel call and every hook can fail.
  A command may report success only when the work is done, whatever earlier
  attempts left behind and whoever else works on the interface.
* **A binary that replaces itself.** Every file operation may fail, the machine
  may stop between any two, and the release may move while it is downloaded. A
  binary that runs must stay on disk, and a reported outcome must be the real one.
* **Three readers of one file.** What one of them accepts another may reject; what
  the daemon finds must belong to the peers that the parser finds.
* **Restarts.** The daemon keeps nothing on disk but the files it reads: after a
  restart it has to take over from them.
* **Races between answers.** The first of two DNS answers wins, CNAMEs may loop,
  zone cuts must not be stepped over, and all of it happens with the daemon's
  lock held.

## 2. Modules

| Module | Models | Main properties |
|---|---|---|
| `DdnsDaemon` | `Run`, the callbacks and `updateLoop` around the lock; the files; the event queue; restarts | `NoLostUpdate`, `NoGhost`, `LoopsUndisturbed`, `LockComesFree`, `OnlyListed`, `EditFollowed`, `RemovalFollowed`, `ImplementsCache` |
| `ConfigCache` | abstract: a cache of files whose entries are exact unless marked dirty | `Coherent`; `DdnsDaemon` implements it |
| `Reresolve` | one interface under the re-resolve passes | `SecondPassApplies`, `HealthyUndisturbed`, `RoamersKept`, `PassComesToEnd`, `OfflineRefreshed` |
| `WgInterface` | one interface under `up`, `down`, `sync`, `bounce` and boot | `SuccessMeansDone`, `HooksInOrder`, `ResyncHarmless`, `NearerEnd` |
| `ConfigParse` | the three readers of a configuration file, line by line | `DownReadsWhatUpRead`, `NamesFound`, `PairsFromOneSection` |
| `SelfUpdate` | `update`, `install`, `uninstall` and the service script | `Recoverable`, `FailureRestores`, `DoneIsAnnounced`, `FallbackServes`, `NearerEnd`, `CommandEnds` |
| `DirectDns` | `dns.Init` and one resolution of the direct resolver | `NoIPv6`, `AnswerIsRight`, `AsksAuthority`, `Resolves`, `ImplementsResolver`, `NearerEnd`, `Terminates` |
| `Resolver` | abstract: a resolution in one step, as its callers see it | `DirectDns` implements it |
| `<Module>Proofs` | theorems about the module, for every one of these | section 5 |
| `MC_*` | instances for TLC: symmetry sets, configurations, DNS worlds | |

How the parts fit: `DdnsDaemon` treats the body of a pass over one interface as
a single step, because that body touches neither collection; `Reresolve` is that
body, with a reload of the daemon as one of its actions. In `Reresolve` the
commands of other processes are the actions `BringUp`, `Sync` and `TakeDown`;
`WgInterface` takes those apart. Where `Reresolve` and the loader resolve a
name in one step, that step is `Resolver`'s; `DirectDns` shows how it is made, is
proved to implement it, and shows that it ends. What
`DdnsDaemon` calls a valid or a scannable content is what the readers of
`ConfigParse` accept. The restart by which `SelfUpdate` ends is the `Restart` of
`DdnsDaemon`.

### DdnsDaemon

`run` is `runIfaces` with the content each entry was loaded from: `cfg` from the
first read of `newDDNS`, `eps` from the second (`Nil` when that read fails, which
the code only logs). `pending` is `pendingIfaces`. A goroutine that holds
`d.lock` for more than one step is named in `lock`; the callbacks take and
release it in one. `todo` is what is left of a `range` loop, `reading` the
`newDDNS` call between its reads, `loaded` the loader's `deleteList`. `watch`
is `"deaf"` when `watcher.Add` has failed, an error the code drops.
A file is abstracted to a content: `Valid` contents are accepted by
`UnmarshalText`, `Scannable` ones by `GetUnresolvedEndpoints`; they are
different functions and neither set contains the other.

`Restart` ends the process anywhere and starts another (procd respawns it,
systemd restarts it, an update or an administrator asks for it): everything but
the files is back to its first value. `lists` holds the only and the skip list,
which a process reads when it starts; the next one may find others. `FindIface`
and the callbacks read them differently (`Followed`): an interface on both lists
is loaded at the start, as `config-sample.toml:10` says, but its later edits are not
followed. `OnlyListed` is about what may be loaded, `NoLostUpdate` and `EditFollowed`
are about interfaces that the callbacks follow.

Reads may fail for reasons that are not the file's. If the first read of `newDDNS`
fails (`ReadConfigFails`) the interface stays pending and is read again. If the second
one fails the code logs it and keeps a nil endpoint map, with nothing to try it
again: `Yields` has this result beside the right one, so that no property of the
daemon promises more than the code does. If the directory cannot be listed at the
start (`RunFindFails`) nothing is loaded and nothing is owed.

`missed` is a history variable: the interfaces whose latest edit left no event,
because the directory was not watched yet or the queue was full, and, after a
start at which the directory could not be listed, all interfaces. The code has no
way to notice such an edit, so the properties promise nothing for it. All other
edits are covered, also those made during the first load before the watch
exists, as far as the load came later.

`ConfigCache` is the promise in its simplest form: a cache entry is dirty from
the edit of its file until it has been brought up to date, a clean entry is
exact, and only dirty entries are ever touched. The refinement maps an interface
to dirty when it is not followed, its last edit was missed, one of its events
waits, or a load is owed to it. A restart is the cache's `Lose`: every entry is dirty.

### Reresolve

`cfgEp` holds the endpoints in `iface.cfg.Peers`, `devEp` those of the kernel,
`snap` what `PeerStatus` returned. `Push` configures the device with all of
`cfgEp`; a peer without a configured endpoint keeps the one it has, and a
`ListenPort` of 0 picks a port anew. `Sync` is the command `sync` in another
process, which configures the device from the file. `got` and `tries` are history: the address
the last pass resolved for a peer, and for how many passes in a row it has been
the same with nothing else happening to that peer.

### WgInterface

A kernel call or a list of hooks is a step of its own, except where the code makes
one call per address, route or DNS entry: `AddrAdd`, `AddrDel`, `RouteAdd` and
`UpDns` are one step for all of them, which may also fail after some. (`RouteAdd`
has the listing before it, too.) `Fail` may end a command at any step. `handle` is the link index a command works
with: a link deleted and created again has another one, and calls by index fail.
`Abort` decides what an error does: a boot goroutine tries again, a bounce goes
on to `Up`, all others end.

`disturbed` is history: a command is disturbed once another with a different aim
(another content, or a `down`) has taken a step since it started. The properties
speak of undisturbed commands; commands with the same aim may cross each other
at will. `resolv` is what was last handed to resolvconf: a command that brings the
interface up leaves an entry of its own configuration there, and `Down` leaves it
as it is (section 3).

### ConfigParse

A file is a sequence of lines; a line has a head (a header, a directive, blank or
other text), a value and perhaps a comment. The three readers read it in
lockstep, each with its own state, until `UnmarshalText` rejects a line; every
prefix of a file is a file, so an invariant speaks of all files. Values are kept
as far as the readers differ on them: a key of 32 bytes, base64 of another length
(which `ParseKey` pads or cuts and the scanner's `wgtypes.ParseKey` rejects), text
that is neither, and nothing, which `ParseKey` takes for a key and the scanner for a
missing one. (An `Endpoint` without a value is left out: the scanner takes it for a
missing one, and it names nothing.) `UnmarshalText` and `UnmarshalTextNoPeer` cut comments, the
scanner does not, so a directive with a comment has the value `Commented` for it
and a header with one is no header. `section`, `named`, `orderly`, `comments` and
`hidden` are history: what the file says, to compare the readers with.

### SelfUpdate

`bin` holds the binary that runs the command, its `.old` copy and the installed
`/usr/sbin/wg-quick-op`; the first and the last are the same file when `inPlace`.
A content is a version, `None` or `Part`, a file written in part: the new binary
is streamed to its final place before its hash is known. `FetchRelease` to
`Cleanup` are the steps of `update`; unless `--no-sync-service` is given it runs
`install`, whose steps (`InstallOpen` to `ScriptWrite`) the administrator can run, too.
`Exit` is the end of that child. Each file operation may fail, `Crash` kills the
command anywhere, `Respawn` is the init system starting what is installed,
`Publish` and `Mirror` move the releases while an update is under way. The result
tells what the user is told: "failed" and "fellback" are the two kinds of
rollback, "stuck" one that failed, "down" an old service that did not start.

`StartOld` is procd's `start`: an instance that runs already with the same command
line is left alone, so that after a restart that failed but did start the new binary
the service is the new one. `FallbackServes` is what remains true of a fallback: the
old file is back, and some service runs. That the running one is the old one is
`FallbackRestores`, which a finding refutes.

The init.d script and `LookPath` search `$PATH` for the command, while the systemd
unit names `/usr/sbin/wg-quick-op`; the model takes `$PATH` to lead to that file. A
script that cannot be removed is opened without being truncated, and what is
written over it may leave a tail of the old one (`ScriptOverwrite`).

### DirectDns

`world` is what DNS says: CNAMEs, zone apexes, and the address families of every
name. `PublicServers` is `dns.Init`: the usable servers of `roa_finder`, or those
of `resolv.conf`, or the built-in ones. The two lookups of a race are tracked by
the server each one asks; the first answer ends the race, the other lookup is
cancelled. The lookups' channel has room for both answers, so the loser never
blocks, and it is dropped here. Three attempts at one server are one step
(`ServerFails`); an answer with an error code is not retried and counts as an
empty answer (`error`). `trouble` is history: some server failed or answered with
an error.

The end of a CNAME chain and the names above a name are stated without recursion:
`Reached(f, n)` is the least set that has `n` and is closed under `f`, `Target` the
member of it that has no CNAME, `Apex` the nearest zone among the `Suffixes`. A
suffix may be a CNAME itself: the answer about it is one about its target, whose name
servers or SOA the code then follows (`SoaNames`), and the search may end in another
zone. `AsksAuthority` and `Resolves` are therefore about names below no CNAME
(`Straight`). The length of a name decides which SOA is followed (`Length`); the root
zone is left out. So
theorems can be proved of them for chains of any length. `Remaining` is the measure
of a resolution, five numbers ordered like a dictionary: the phase, then what the
phase counts down (CNAMEs allowed, suffixes, name servers), then where the search
is with one name server, its addresses, and the servers that its lookups may
still ask.

`Resolver` is what callers rely on. Until it is done a resolution has no answer; it
ends once, with one of the addresses of the name in an allowed family, or with none,
and the latter only when something has failed (`Hitch`) or the records leave
something to chance. `sure` is mapped to `~trouble /\ Findable`.

## 3. Runs

| Run | Instance | States | What it shows |
|---|---|---|---|
| `daemon` | 2 interfaces, 3 contents (valid and scannable, valid only, broken), no lists or one interface on both, reads that fail, queue of 2, restarts | 441 000 | safety of the daemon, nothing outside the lists loaded, the inductive parts of the proof, the refinement |
| `daemon_live` | 2 interfaces, one in the only list, 2 valid contents, reads that fail, restarts | 40 000 | edits and removals are followed |
| `reresolve` | a tracked and a roaming peer, 2 addresses, 2 ports, random listen port | 175 000 | two passes suffice; healthy devices and roaming peers are left alone; silent peers are refreshed |
| `wginterface` | boot with 2 attempts and one command line process, 2 contents, 2 links | 1.0 million | success means done (the record of resolvconf included), hooks in order, repeated syncs do no harm, commands do not go round in circles |
| `config_parse` | 2 keys, 2 names, 2 peers, 1 interface directive; lines and sections in any order, repeated, commented, empty or wrong | 1.3 million | the three readers agree where they have to |
| `self_update` | releases 0, 1, 2, of which 2 does not run; all flags, both init systems, both places | 1.2 million | always recoverable, outcomes as reported, every command comes nearer to its end and ends |
| `direct_dns` | 5 names, all CNAME graphs on three of them, one of which is a name server, 2 lists of each kind of public servers, depth 2 | 303 000 | right, authoritative, found, one step for its callers, terminating |

and five runs that show a disagreement between the code and what the repository
says of it; each stops at its counterexample:

| Run | Property | Disagreement |
|---|---|---|
| `boot_exist` | `BootUpMeansConfigured` | a link left by a failed attempt makes the next attempt a success |
| `stale_routes` | `StaleRoutesDeleted` | routes are installed as protocol boot and looked for as protocol 0, so none is deleted |
| `ipv4_host` | `ResolvesIPv4` | an empty AAAA answer that comes first hides the A record |
| `update_lost` | `DoneMeansRunnable` | in place, `install` removes the binary it copies from and reports success when the copy fails; `update` then deletes the backup and says that it is done |
| `fallback_new` | `FallbackRestores` | `start` leaves a running instance alone: a restart that fails after starting the new binary ends with "Restart old service success" and the new one running |

Also seen while modelling, without a run of their own:

* Lists: the callbacks apply the skip list although an only list is given, which
  `FindIface` and `conf/config-sample.toml:10` do not (`daemon.go:116`): an interface on
  both lists is loaded at the start, and its edits are not followed.
* DNS: `config.go:30` says that bringing the interface down runs `resolvconf -d
  tun.INTERFACE`. `Down` does so for two or more entries only (`wg.go:68`), and for the
  record `tun.%s`, since `execSh` replaces `%i` only: the record stays.
* Passes: a first pass may push the old address of a peer that it has just found
  outdated (`daemon.go:75` compares with the device, not with what is pushed); the
  second pass puts it right. `random_port` is read nowhere.
* Sync: two syncs of different contents can delete each other's addresses and both
  report success; peers dropped from the file stay on the device (`wg.go:176`).
* Resolver: a chain of exactly `MaxCnameDepth` CNAMEs is rejected.
* Update: versions are compared for equality only, so a mirror that lags behind
  offers a downgrade; outside `/usr/sbin` the fallback restores the file that ran
  the update and not the installed one, so "Restart old service success" may start
  the new one; two updates at once are not excluded; the hash may cover an archive
  that has not been read to its end.
* Parser: the scanner ignores a second `Endpoint` of a section where the parser
  takes the last; `SaveConfig`, which `config_test.go:26` has, is rejected.

**Bounds.** `QueueCap` events wait at most (2): one to be overtaken by another of
the same file or of the other one; a third makes the queue overflow, which is a
case of the model. Two interfaces are enough for a loop over one to be crossed by
an event of the other, and for one of several loads to fail. `MaxTries` caps a
history counter at the value the properties ask for. `Times` is 2 where the code
has 5 (retries differ in number only: each starts from what the last left).
`MaxLinks` is 2: one link and the one created after its deletion, which suffices
for a stale handle. `MaxPeers` is 2: a section and the next one, which may finish
or spoil what the first began; `MaxLines` is 1, since directives of `[Interface]`
only have to agree. `MaxVersion` is 2: an old, a good and a bad release, and a
mirror that is two behind. `MaxCnameDepth` is 2 where the code has 5, so that
chains of length 0 to 2 and loops fall on both sides of it. The theorems have no
such bounds: they hold for all values of the constants.

**Symmetry** is used in `daemon` (interfaces) and `config_parse` (keys, names), in
safety and step properties only, never where liveness is checked. The daemon's
configuration treats all interfaces alike there (no lists).

## 4. Fairness

* `DdnsDaemon`: weak fairness of each goroutine, since loops are endless, sleeps
  end, and DNS queries and netlink calls return or time out. Strong fairness of
  the steps that take `d.lock`: `sync.Mutex` hands itself to a goroutine that has
  waited for more than a millisecond, so nobody who keeps asking is passed over
  for ever. Strong fairness of the loader's read of each interface: a file that can be
  read is not unreadable each time it is tried. No fairness for the second read, for the
  administrator, for `WatcherAdd` succeeding, or for
  `Restart`: the process may be restarted for ever, never, or at the worst moment.
* `Reresolve`: weak fairness of the pass, which recurs every `ddns.interval`, and
  strong fairness of `Push`: a device that is there to be configured time and
  again is not failed by netlink for ever. Nothing is assumed of peers, DNS or
  other commands; the premise of `OfflineRefreshed` is that from some time on nobody
  but the daemon changes the endpoint of the peer. A `sync` just before every pass
  would keep the pass from seeing that `iface.cfg` is out of date.
* `DirectDns`: some step is taken as long as there is one; every query has a time
  limit.
* `SelfUpdate`: weak fairness of `CommandStep`: requests and the self check have
  time limits, file operations and the scripts of the init system end. Nothing is
  assumed of crashes, releases or the administrator.
* `WgInterface` and `ConfigParse` state no liveness: hooks may run for ever, and a
  reader is a function. `NearerEnd` says for `WgInterface` what can be said without
  fairness: a command that goes on comes nearer to its end.

## 5. Proofs

`DdnsDaemonProofs` proves, for any set of interfaces, contents, lists and queue
length, under the assumptions named in `DdnsDaemon` (the special values differ
from the ordinary ones, lists contain interfaces, the queue holds something):

| Theorem | States |
|---|---|
| `TypeCorrect` | `Spec => []TypeOK` |
| `BookkeepingHolds` | `Spec => []Bookkeeping` |
| `EditsNeverLost` | `Spec => []NoLostUpdate` |
| `RemovedIsGone` | `Spec => []NoGhost` |
| `ListsRespected` | `Spec => []OnlyListed` |
| `LoopsAreUndisturbed` | `Spec => LoopsUndisturbed` |
| `LockIsReleased` | `Spec => LockComesFree` |
| `DaemonImplementsCache` | `Spec => ImplementsCache` |

The inductive invariant is `IInv == TypeOK /\ Bookkeeping /\ NoLostUpdate /\
NoGhost`. `NoLostUpdate` alone is not inductive, for three reasons, which are the
three parts of `Bookkeeping`:

1. `Protocol`: the loader must be the only one to shorten `pendingIfaces` while
   it loads, and what it shortens it by must have been pending.
2. `TruthfulEvents`: when the last waiting event of an interface is handled, its
   kind must match the file as it is now; otherwise the removal of an entry could
   be what loses an edit.
3. `FreshRead`: between the reads of `newDDNS` the first read is either still
   what the file says or an event is there to say it is not.

Each part has a step lemma of its own (`ProtocolStep`, `TruthStep`,
`FreshStep`); `FollowsStep` then takes the main invariant through every action,
one interface at a time, with `FollowsFrame` for the actions that leave the
interface alone. A `Restart` establishes all of it anew (`RestartInit`): nothing
is loaded and nothing is pending, so the first load owes everything.

The refinement proof sorts the steps by what they do to `Dirty`:
`ConfirmStep` for those that only make entries clean, `ReplaceStep` for loads and
removals, `EditStep` for edits; a restart is `Lose`. `ListsRespected` has a
small invariant of its own (`FInv`): what is left of a loop is listed, too. It holds for lists that meet as well: what the callbacks let through is
listed, though not all that is listed is let through.

*Why the lock comes free.* Callbacks, loads and passes wait for `d.lock`, which is
held while names are resolved. Three theorems say level by level that it is not held
for ever: `LockIsReleased` (the holder's loop gets shorter by an interface, or a
read begins, at each of its steps, and nobody else adds to it), `PassEnds` in
`ReresolveProofs` (so does the loop over the peers of one interface) and
`EndComesNearer` in `DirectDnsProofs` (so does a resolution, whatever DNS says).
`LockIsReleased` needs `Protocol`: whoever is at work holds the lock. That loops
over finite sets which get smaller come to an end is the last step of the argument;
it is about fairness, and `EditFollowed` has it checked.

`ConfigCacheProofs` adds what the refinement is good for: `CacheCoherent`
(`Spec => []Coherent`), a clean entry of the abstract cache is exact.

`ReresolveProofs` proves, for any peers, addresses and ports:

| Theorem | States |
|---|---|
| `TypeCorrect` | `Spec => []TypeOK` |
| `TwoPassesSuffice` | `Spec => []SecondPassApplies` |
| `WellDevicesLeftAlone` | `Spec => HealthyUndisturbed` |
| `CallersKept` | `Spec => RoamersKept` |
| `PassEnds` | `Spec => PassComesToEnd` |

`SecondPassApplies` is not inductive: it says nothing of the moment the second
pass starts. `Known(p)` adds what a pass leaves to the next one. Once a pass has
found `got[p]`, `iface.cfg` holds that address, or none, or what the device holds
too; in the last case the next snapshot shows the difference and the entry is
corrected. Inside a pass, the snapshot of a peer that nothing has happened to is
current, and a peer that has been resolved has a real address, which is in
`iface.cfg` or was on the device. `HealthyUndisturbed` and `RoamersKept` rest on
`PassInv`: `unlink` is set by a silent tracked peer only, and a peer whose section
has no endpoint never gets one in `iface.cfg`. `PassComesToEnd` holds step by step.

`WgInterfaceProofs` proves, for any number of processes, contents, links and
attempts:

| Theorem | States |
|---|---|
| `TypeCorrect` | `Spec => []TypeOK` |
| `SuccessIsDone` | `Spec => []SuccessMeansDone` |
| `HooksSeeTheirState` | `Spec => []HooksInOrder` |
| `ResyncIsHarmless` | `Spec => ResyncHarmless` |
| `EndComesNearer` | `Spec => NearerEnd` |

The argument is rely and guarantee. `Reliable(p)` is what a process that has not
been disturbed may rely on at each place of its program: that the work of its
command so far is still done. Every step of a process guarantees `Sound`: its own
`Reliable` afterwards, and `Keeps(c)` for the content `c` it works for, which says
that nothing `c` wants is taken away and nothing else is added, even when the step
fails half way. One lemma per action proves that; `OtherReliable` then shows that
a process that is not disturbed by a step shares its content with the one that
took it, so that `Keeps` is enough (`KeepsReliable`). `ResyncHarmless` is `Keeps`
read directly. `EndComesNearer` needs the type only: `Distance` orders the places of
a program so that every step goes down in it (`StepLeft`), and a retry pays for
going back to the top with one of its attempts (`AbortLeft`). The part of `SuccessIsDone` that is about resolvconf has
an invariant of its own (`DnsInv`): from the end of `UpDns` on an undisturbed command
finds an entry of its configuration there, since nobody writes but commands with the
same content (`DnsWritten`, `DnsKept`).

`ConfigParseProofs` proves, for files of any length with any number of peers:

| Theorem | States |
|---|---|
| `TypeCorrect` | `Spec => []TypeOK` |
| `DownAgreesWithUp` | `Spec => []DownReadsWhatUpRead` |
| `NoForeignPair` | `Spec => []PairsFromOneSection` |
| `ScannerComplete` | `Spec => []NamesFound` |

`ParsersAgree` keeps the two parsers in the same state. `ScanSound` says of a
scanner in a `[Peer]` section that the parser is in one too, and that the half of
a pair it holds is from this section. `NamesInv`, for orderly files, says how far
the pair of the open section is (`OpenPair`: not begun, the key first, the
endpoint first, complete) and that a key that is named has a peer, which is what
makes the key of a new section a new one.

`SelfUpdateProofs` proves, for any number of releases of which any may be faulty:

| Theorem | States |
|---|---|
| `TypeCorrect` | `Spec => []TypeOK` |
| `AlwaysRecoverable` | `Spec => []Recoverable` |
| `FailureLeavesOld` | `Spec => []FailureRestores` |
| `DoneWasAnnounced` | `Spec => []DoneIsAnnounced` |
| `FallbackIsOld` | `Spec => []FallbackServes` |
| `DoneRunsElsewhere` | `Spec => [](~inPlace => DoneMeansRunnable)` |
| `EndComesNearer` | `Spec => NearerEnd` |

Each of the four says what holds when an update has ended; `Disk` says what is on
disk at each of its steps (the backup is the old binary from the rename on, the
target the announced one from the self check on), and `Control` which command
takes which steps. `EndComesNearer` needs the types only: the first `Install`
of a child may be followed by another (`FirstInstall`), so the second way through
its steps is paid for in advance (`InstallLeft`).

`DirectDnsProofs` proves, for any names, zones, records and lists of servers, and
any `MaxCnameDepth`:

| Theorem | States |
|---|---|
| `TypeCorrect` | `Spec => []TypeOK` |
| `OnlyIPv4` | `Spec => []NoIPv6` |
| `AnswerRight` | `Spec => []AnswerIsRight` |
| `AuthorityAsked` | `Spec => []AsksAuthority` |
| `SureNamesResolved` | `Spec => []Resolves` |
| `IPv4OnlyResolves` | `Spec => [](ipv4Only /\ NameServers[Apex(Target(Domain))] # {} => ResolvesIPv4)` |
| `ImplementsOneStep` | `Spec => ImplementsResolver` |
| `EndComesNearer` | `Spec => NearerEnd` |

The facts about chains come first. What `f` leads to from `n` is `n` and what it
leads to from `f[n]` (`ReachedSelf`, `ReachedStep`, `ReachedTrans`), so following a
CNAME leaves the target as it is (`TargetStep`) and shortens the walk to it
(`EndsWithinStep`). Of two suffixes of a name one is a suffix of the other
(`SuffixOrder`), so there is an innermost zone (`Innermost`), and cutting a label of
a name that is no apex leaves it as it is (`ApexAbove`). Below no CNAME a SOA record
leads to the innermost zone itself (`StraightTarget`, `TrimKeepsApex`). Induction is not needed:
closures are intersected, and `ParentAssumption` (every set of names has one whose
parent is outside) is used where an induction on labels would be.

On these rest the invariants, one for each question. `RightInv`: the name reached
so far has the target of the domain, and the addresses of a name server are its
own. `AuthorityInv`: while nothing has failed, the innermost zone above `zone` is
that of `name`, and the hosts are its name servers. `FindInv`: while nothing has
failed and the records suffice, the CNAMEs that are left fit into `depth`, some
name server that will do is still to come or is being asked, and its lookups
cannot come back empty. `PendInv` adds for the refinement that there is no result
before the end; `SeenStep` maps each step to `Find`, `GiveUp`, `Hitch` or a stutter.
`EndInv` says that the sets counted by `Remaining` are finite (`FiniteAssumption`:
a name has finitely many labels, an answer finitely many records), and
`NearerStep` names for each action the number that goes down.

Two of the theorems confine a finding of section 3: `DoneRunsElsewhere` the loss of
the binary to updates in place, `IPv4OnlyResolves` the names that are not found to
resolvers that also ask for AAAA.

Only model-checked is liveness (`EditFollowed`, `RemovalFollowed`, `OfflineRefreshed`,
`Terminates`, `CommandEnds`), which the proof system does not reach. Of the last
two the part that concerns the code is proved: `NearerEnd` excludes that a
resolution or a command goes on for ever. What is left to TLC is that a step can be
taken until the end is reached. The findings are TLC's, too: each is a
counterexample.

## 6. Not modelled

* **Reload of the program configuration** (`conf/config.go`). `update` runs in
  viper's goroutine and assigns the globals that the daemon reads, without a lock.
  What a reader then sees is not defined by the language (a slice is three words;
  `FindIface` and the callbacks read a list twice), so the honest outcome of a
  model is "anything", and no property survives that. The repository applies a new
  configuration by a restart (`README.md:31`), which is modelled; the lists are
  read anew by each process, the other settings are constants of the modules. `Init` writes a sample file if there is
  none and exits on an error: one branch, no state.
* **Text**: the values of addresses, ports and hooks, `MarshalText` and the templates,
  the regular expression of `MatchConfig`, and message formats.
* **Composition of two updates** running at once; nothing in the code excludes it
  and nothing describes what it should do.
* The rate limiter, which only delays; the system resolver used when the direct one
  is disabled.
* **Entry points, logging, version**: no state.
* **IPv6 addresses and routes.** `SyncAddress` and `SyncRoutes` add those of the
  configuration, too, but list, and therefore delete, IPv4 only.

## 7. What could come next

1. A defined reload: should the code come to take `d.lock` in `update`, the lists
   may change without a `Restart` of `DdnsDaemon`, with a property about interfaces that a reload
   includes or excludes.
2. Several interfaces in `WgInterface`, should hooks or `resolvconf` come to share
   state between them.
