----------------------------- MODULE DirectDns -----------------------------
(* The direct resolver of lib/dns, which finds the address of a peer by     *)
(* asking the name servers of the peer's own zone: CNAMEs are unfolded and  *)
(* the NS records found through the public servers, then each name server   *)
(* is asked for A and AAAA at once, and the first answer of the two counts. *)
EXTENDS Naturals, Sequences, FiniteSets

CONSTANTS
  Names,          \* domain names, absolute
  Parent,         \* Parent[n]: n without its first label, None for the empty name
  Length,         \* Length[n]: how long n is
  NameServers,    \* NameServers[z]: the hosts in the NS records of z
  Domain,         \* the name to resolve
  Finders,        \* what roa_finder may list: addresses of a family, and bad ones
  Resolvs,        \* what /etc/resolv.conf may list, <<>> if it cannot be read
  MaxCnameDepth,
  Worlds,         \* what DNS may say: [alias, zones, fams]
  None

Fams == {"A", "AAAA"}

ASSUME WorldAssumption ==
  \A w \in Worlds : /\ w.alias \in [Names -> Names \cup {None}]
                    /\ w.zones \subseteq DOMAIN NameServers
                    /\ w.fams \in [Names -> SUBSET Fams]
ASSUME NameAssumption == /\ None \notin Names \cup [host : Names, fam : Fams]
                         /\ Domain \in Names
                         /\ Parent \in [Names -> Names \cup {None}]
                         /\ DOMAIN NameServers \subseteq Names
                         /\ \A z \in DOMAIN NameServers : NameServers[z] \subseteq Names
\* A name gets shorter with every label that is cut off, and has a last one.
ASSUME LengthAssumption == /\ Length \in [Names -> Nat]
                           /\ \A n \in Names : Parent[n] # None => Length[Parent[n]] < Length[n]
ASSUME ParentAssumption == \A S \in (SUBSET Names) \ {{}} : \E n \in S : Parent[n] \notin S
ASSUME ListAssumption == Finders \cup Resolvs \subseteq Seq(Fams \cup {"bad"})
ASSUME LimitAssumption == MaxCnameDepth \in Nat \ {0}

VARIABLES
  world,    \* the records of DNS: CNAMEs, zone apexes, address families
  ipv4Only, \* conf.EnhancedDNS.DirectResolver.IPv4Only
  publicDNS,\* the public servers, by their families, at their places in the list
  pc,       \* "alias", "zone", "hosts", "hostRace", "addrs", "addrRace", "done"
  name,     \* the domain as unfolded so far
  depth,    \* what unfoldCNAME still allows
  zone,     \* the name whose NS records nsAddrIter asks for
  host,     \* the name server nsAddrIter has come to
  hosts,    \* name servers nsAddrIter has not come to
  addrs,    \* addresses of the current name server not yet asked
  lookup,   \* lookup[f]: the place in its list of the server asked, 0 at the end
  result,   \* the address found, or None
  trouble   \* history: a server did not answer, or answered with an error

search == <<name, depth, zone, host, hosts, addrs>>
config == <<ipv4Only, publicDNS>>
vars == <<world, config, pc, search, lookup, result, trouble>>

\* The address of host n in family f.
Address == [host : Names, fam : Fams]
AddressesOf(n, fs) == {[host |-> n, fam |-> f] : f \in world.fams[n] \cap fs}

\* Fault: AAAA is looked up in any case.
Lookups_Both == Fams

\* The lookups of one queryAAndAAAAAddrIter; no AAAA lookup with ipv4_only.
Lookups == IF ipv4Only THEN {"A"} ELSE Fams
NoLookup == [f \in Fams |-> 0]
StartRace == lookup' = [f \in Fams |-> IF f \in Lookups THEN 1 ELSE 0]

\* n and the names that f leads to from n, one after the other: f leads out of
\* every set that has n and lacks such a name.
Reached(f, n) ==
  {m \in Names : \A S \in SUBSET (Names \ {m}) : n \in S => \E s \in S : f[s] \notin S \cup {None}}

\* The name that the CNAMEs of n end at, None if they never do.
Target(n) == LET ends == {m \in Reached(world.alias, n) : world.alias[m] = None}
             IN IF ends = {} THEN None ELSE CHOOSE m \in ends : TRUE

\* n and what is left of it as its labels are cut off.
Suffixes == [n \in Names |-> Reached(Parent, n)]

\* An answer has finitely many NS records.
ASSUME FiniteAssumption == \A z \in DOMAIN NameServers : IsFiniteSet(NameServers[z])

\* The zone n belongs to: n or the nearest name above it with NS records.
Apex(n) == LET above == Suffixes[n] \cap world.zones
           IN IF above = {} THEN None ELSE CHOOSE z \in above : above \subseteq Suffixes[z]

\* The owner of the SOA record that comes with an answer without NS records: the
\* answer about a CNAME is one about its target.  The root zone is left out, as
\* none of its servers knows the address of a peer.
SoaNames(n) == IF Target(n) = None THEN {} ELSE {Apex(Target(n))} \ {None}

\* No name above n is a CNAME, nor n itself.
Straight(n) == \A s \in Suffixes[n] : world.alias[s] = None

\* The places of a list where there is a server that can be used.
Usable(list, only) == {k \in DOMAIN list : list[k] = "A" \/ (list[k] = "AAAA" /\ ~only)}

\* dns.Init: the servers of roa_finder that can be used, or those of
\* /etc/resolv.conf, or two that are built in.
PublicServers(finder, resolv, only) ==
  LET Kept(list) == [k \in Usable(list, only) |-> list[k]] IN
  CASE Usable(finder, only) # {} -> Kept(finder)
    [] Usable(finder, only) = {} /\ Usable(resolv, only) # {} -> Kept(resolv)
    [] OTHER -> <<"A", "A">>

Init ==
  /\ world \in Worlds
  /\ ipv4Only \in BOOLEAN
  /\ publicDNS \in {PublicServers(l, r, ipv4Only) : l \in Finders, r \in Resolvs}
  /\ pc = "alias"
  /\ name = Domain /\ depth = MaxCnameDepth
  /\ zone = None /\ host = None
  /\ hosts = {} /\ addrs = {}
  /\ lookup = NoLookup
  /\ result = None
  /\ trouble = FALSE

Return(r) == /\ pc' = "done"
             /\ result' = r
             /\ lookup' = NoLookup
             /\ UNCHANGED search
----------------------------------------------------------------------------

\* queryWithRetryWithList has tried every public server there is three times; the
\* error ends unfoldCNAME and nsAddrIter, and with them the resolution.
QueryFails ==
  /\ pc \in {"alias", "zone"}
  /\ trouble' = (trouble \/ DOMAIN publicDNS # {})
  /\ Return(None)
  /\ UNCHANGED <<world, config>>

\* Fault: CNAMEs are followed without an end.
UnfoldCNAME_Endless ==
  /\ pc = "alias"
  /\ world.alias[name] # None
  /\ name' = world.alias[name]
  /\ UNCHANGED <<world, config, pc, depth, zone, host, hosts, addrs, lookup, result, trouble>>

\* Fault: depth is counted down and never looked at.
UnfoldCNAME_NoLimit ==
  /\ pc = "alias"
  /\ world.alias[name] # None
  /\ name' = world.alias[name]
  /\ depth' = depth - 1
  /\ UNCHANGED <<world, config, pc, zone, host, hosts, addrs, lookup, result, trouble>>

\* unfoldCNAME: the answer names another domain, which is asked for in turn
\* until depth is used up.
UnfoldCNAME ==
  /\ pc = "alias"
  /\ world.alias[name] # None
  /\ name' = world.alias[name]
  /\ depth' = depth - 1
  /\ IF depth' = 0 THEN pc' = "done" ELSE pc' = "alias"
  /\ UNCHANGED <<world, config, zone, host, hosts, addrs, lookup, result, trouble>>

\* unfoldCNAME: the answer has no CNAME, or it is an error: the rcode is logged
\* and the answer is taken for an empty one.
Unfolded(error) ==
  /\ pc = "alias"
  /\ world.alias[name] = None \/ error
  /\ trouble' = (trouble \/ error)
  /\ pc' = "zone"
  /\ zone' = name
  /\ UNCHANGED <<world, config, name, depth, host, hosts, addrs, lookup, result>>

\* nsAddrIter: the answer has NS records, those of the target if the name is a
\* CNAME; Shuffle puts them in any order.
NsFound ==
  /\ pc = "zone"
  /\ Target(zone) \in world.zones
  /\ hosts' = NameServers[Target(zone)]
  /\ pc' = "hosts"
  /\ UNCHANGED <<world, config, name, depth, zone, host, addrs, lookup, result, trouble>>

\* Fault: a label is cut off whatever the answer says.
NsTrim_Always(error) ==
  /\ pc = "zone"
  /\ trouble' = (trouble \/ error)
  /\ \/ Parent[zone] # None
        /\ zone' = Parent[zone]
        /\ UNCHANGED <<pc, name, depth, host, hosts, addrs, lookup, result>>
     \/ Parent[zone] = None /\ Return(None)
  /\ UNCHANGED <<world, config>>

\* Fault: a SOA record is followed wherever it leads.
NsTrim_AnySoa(error) ==
  /\ pc = "zone"
  /\ Target(zone) \notin world.zones \/ error
  /\ trouble' = (trouble \/ error)
  /\ \/ /\ \/ zone' \in SoaNames(zone)
           \/ Parent[zone] # None /\ zone' = Parent[zone]
        /\ UNCHANGED <<pc, name, depth, host, hosts, addrs, lookup, result>>
     \/ Parent[zone] = None /\ Return(None)
  /\ UNCHANGED <<world, config>>

\* nsAddrIter: no NS records.  A SOA record in the authority section leads to the
\* apex, if that is a shorter name; otherwise the first label is cut off, until
\* nothing is left.
NsTrim(error) ==
  /\ pc = "zone"
  /\ Target(zone) \notin world.zones \/ error
  /\ trouble' = (trouble \/ error)
  /\ \/ /\ \/ zone' \in {s \in SoaNames(zone) : Length[s] < Length[zone]}
           \/ Parent[zone] # None /\ zone' = Parent[zone]
        /\ UNCHANGED <<pc, name, depth, host, hosts, addrs, lookup, result>>
     \/ Parent[zone] = None /\ Return(None)
  /\ UNCHANGED <<world, config>>

\* nsAddrIter: the next name server.  The addresses the NS answer brings along
\* are used, without AAAA under ipv4_only; if there is none they are looked up.
NextHost(h) ==
  /\ pc = "hosts" /\ addrs = {}
  /\ h \in hosts
  /\ hosts' = hosts \ {h}
  /\ \/ /\ addrs' \in (SUBSET AddressesOf(h, Lookups)) \ {{}}
        /\ pc' = "addrs"
        /\ UNCHANGED lookup
     \/ /\ pc' = "hostRace"
        /\ StartRace
        /\ UNCHANGED addrs
  /\ host' = h
  /\ UNCHANGED <<world, config, name, depth, zone, result, trouble>>

\* nsAddrIter is at its end: "no address found".
NoHostLeft ==
  /\ pc = "hosts" /\ hosts = {}
  /\ Return(None)
  /\ UNCHANGED <<world, config, trouble>>

\* Fault: a name server without an address ends the search.
NextAddr_GiveUp ==
  /\ pc = "addrs"
  /\ \/ addrs = {} /\ Return(None)
     \/ \E a \in addrs : /\ addrs' = addrs \ {a}
                         /\ pc' = "addrRace"
                         /\ StartRace
                         /\ UNCHANGED <<name, depth, zone, host, hosts, result>>
  /\ UNCHANGED <<world, config, trouble>>

\* directDNS: the next address of the name server is asked for the domain, or
\* the name server has no address left.
NextAddr ==
  /\ pc = "addrs"
  /\ \/ /\ addrs = {}
        /\ pc' = "hosts"
        /\ UNCHANGED <<addrs, lookup>>
     \/ \E a \in addrs : /\ addrs' = addrs \ {a}
                         /\ pc' = "addrRace"
                         /\ StartRace
  /\ UNCHANGED <<world, config, name, depth, zone, host, hosts, result, trouble>>
----------------------------------------------------------------------------

Racing == pc \in {"hostRace", "addrRace"}

\* Fault: the name server is asked for itself.
Asked_Host == host

\* The name that is looked up.
Asked == IF pc = "hostRace" THEN host ELSE name

\* How many public servers there are, and how many servers a lookup tries in turn.
ServerTotal == Cardinality(DOMAIN publicDNS)
ServerCount == IF pc = "hostRace" THEN ServerTotal ELSE 1

\* The addresses an answer for family f may list.  A public server follows
\* CNAMEs; a name server knows its zone only, and of a CNAME that slipped
\* through unfoldCNAME it may give the target as well.
Answers(f) ==
  LET target == Target(Asked)
      full == IF target = None THEN {} ELSE AddressesOf(target, {f}) IN
  IF pc = "hostRace" THEN {full}
  ELSE IF Apex(name) = None \/ host \notin NameServers[Apex(name)] THEN {{}}
  ELSE IF target = name THEN {full} ELSE {{}, full}

\* The consumer takes the first message of the channel and cancels the context:
\* whatever the other lookup comes by is dropped.
Deliver(found) ==
  \/ /\ pc = "hostRace"
     /\ addrs' = found
     /\ pc' = "addrs"
     /\ lookup' = NoLookup
     /\ UNCHANGED <<name, depth, zone, host, hosts, result>>
  \/ /\ pc = "addrRace"
     /\ IF found = {} THEN /\ pc' = "addrs"
                           /\ lookup' = NoLookup
                           /\ UNCHANGED <<search, result>>
                      ELSE \E a \in found : Return(a)

\* A lookup is the first to get an answer, which lists the addresses of its
\* family; the answer may be empty or be an error.
Answer(f, error) ==
  /\ Racing
  /\ lookup[f] # 0
  /\ trouble' = (trouble \/ error)
  /\ \E found \in IF error THEN {{}} ELSE Answers(f) : Deliver(found)
  /\ UNCHANGED <<world, config>>

\* A server has not answered three times: the lookup goes on to the next one,
\* or ends with nothing sent.
ServerFails(f) ==
  /\ Racing
  /\ lookup[f] # 0
  /\ lookup' = [lookup EXCEPT ![f] = IF @ < ServerCount THEN @ + 1 ELSE 0]
  /\ trouble' = TRUE
  /\ UNCHANGED <<world, config, pc, search, result>>

\* Both lookups have ended: the channel is closed and nothing is yielded.
RaceClosed ==
  /\ Racing
  /\ lookup = NoLookup
  /\ Deliver({})
  /\ UNCHANGED <<world, config, trouble>>
----------------------------------------------------------------------------

Next == \/ QueryFails \/ UnfoldCNAME \/ NsFound \/ NoHostLeft \/ NextAddr \/ RaceClosed
        \/ \E error \in BOOLEAN : \/ Unfolded(error) \/ NsTrim(error)
                                \/ \E f \in Fams : Answer(f, error)
        \/ \E h \in Names : NextHost(h)
        \/ \E f \in Fams : ServerFails(f)

\* Every query ends, by an answer or by its time limit.
Spec == Init /\ [][Next]_vars
FairSpec == Spec /\ WF_vars(Next)
----------------------------------------------------------------------------

\* Type invariant of a resolution.
TypeOK ==
  /\ world \in Worlds /\ ipv4Only \in BOOLEAN /\ (\A k \in DOMAIN publicDNS : publicDNS[k] \in Fams)
  /\ pc \in {"alias", "zone", "hosts", "hostRace", "addrs", "addrRace", "done"}
  /\ name \in Names /\ depth \in 0..MaxCnameDepth
  /\ zone \in Names \cup {None} /\ host \in Names \cup {None}
  /\ hosts \subseteq Names
  /\ addrs \subseteq Address
  /\ lookup \in [Fams -> 0..ServerTotal]
  /\ result \in Address \cup {None}
  /\ trouble \in BOOLEAN

\* With ipv4_only no IPv6 address is asked or returned, be it brought along by an
\* NS answer or found by one of the two lookups.
NoIPv6 == ipv4Only => \A a \in addrs \cup ({result} \ {None}) : a.fam = "A"

\* What is returned belongs to the name the CNAMEs of the domain end at, whatever
\* went wrong on the way; and with ipv4_only the way there is over IPv4 servers,
\* whatever the lists name.
AnswerIsRight ==
  /\ ipv4Only => \A k \in DOMAIN publicDNS : publicDNS[k] = "A"
  /\ result # None => /\ Target(Domain) # None
                      /\ result \in AddressesOf(Target(Domain), Fams)

\* If every server answers, only name servers of the innermost zone are asked
\* for the address: no cut of the name steps over an apex.  A CNAME above the
\* name may lead into its target's zone, and the search ends with no address.
AsksAuthority ==
  pc = "addrRace" /\ ~trouble /\ Straight(name) => host \in NameServers[Apex(name)]

\* The CNAMEs of n end after k steps at most.
EndsWithin(n, k) ==
  \E j \in 0..k : \E walk \in [0..j -> Names] :
    /\ walk[0] = n
    /\ world.alias[walk[j]] = None
    /\ \A i \in 1..j : walk[i] = world.alias[walk[i - 1]]

\* What unfoldCNAME can follow, which gives up at depth 0 before it asks.
Unfoldable == EndsWithin(Domain, MaxCnameDepth - 1)

\* A name with an address in every family asked for cannot lose the race
\* between the lookups.
Sure(n) == Target(n) # None /\ Lookups \subseteq world.fams[Target(n)]

\* The records leave nothing to chance: the CNAMEs of the domain can be followed
\* to a name below no CNAME, and it has an address and a zone with a name server
\* that has one, too.
Findable ==
  /\ Unfoldable /\ Sure(Domain)
  /\ Straight(Target(Domain)) /\ Apex(Target(Domain)) # None
  /\ \E h \in NameServers[Apex(Target(Domain))] : Sure(h)

\* If every server answers and the records leave nothing to chance, the name is
\* resolved, whichever lookups come first.
Resolves == pc = "done" /\ ~trouble /\ Findable => result # None

\* What callers rely on who resolve a name in one step, as Reresolve does: the
\* resolution ends once, with an address of the domain in an allowed family, or
\* with none if something has failed or the records do not suffice.
Right == IF Target(Domain) = None THEN {} ELSE AddressesOf(Target(Domain), Lookups)
OneStep == INSTANCE Resolver WITH
             Addresses <- Address,
             right <- Right,
             sure <- ~trouble /\ Findable,
             done <- (pc = "done"),
             answer <- result
ImplementsResolver == OneStep!Spec

\* The servers that the lookups at work may still ask.
Unasked == LET Left(f) == IF lookup[f] = 0 THEN 0 ELSE ServerTotal + 1 - lookup[f]
           IN Left("A") + Left("AAAA")

\* What is left of a resolution, the most important number first.
Remaining ==
  CASE pc = "alias"    -> <<3, depth, 0, 0, 0>>
    [] pc = "zone"     -> <<2, Length[zone], 0, 0, 0>>
    [] pc = "hosts"    -> <<1, Cardinality(hosts), 0, 0, 0>>
    [] pc = "hostRace" -> <<1, Cardinality(hosts), 2, 0, Unasked>>
    [] pc = "addrs"    -> <<1, Cardinality(hosts), 1, 2 * Cardinality(addrs), 0>>
    [] pc = "addrRace" -> <<1, Cardinality(hosts), 1, 2 * Cardinality(addrs) + 1, Unasked>>
    [] pc = "done"     -> <<0, 0, 0, 0, 0>>

\* The order of a dictionary, in which nothing can go down for ever.
Before(s, t) == \E i \in 1..5 : s[i] \in 0..(t[i] - 1) /\ \A j \in 1..(i - 1) : s[j] = t[j]

\* Every step of a resolution brings it nearer to its end, those that fail too,
\* so that it cannot go round in CNAMEs, in labels, in name servers or in the
\* servers of a lookup: the reason why it ends, of which Terminates is the result.
NearerEnd == [][Before(Remaining', Remaining)]_vars

\* Every resolution ends: CNAME loops are cut off, the names asked for NS
\* records get shorter, and no lookup is waited for in vain.  updateLoop and
\* the passes of the daemon resolve with their lock held.
Terminates == <>(pc = "done")

\* A name that has an address, in a zone whose name servers have one, resolves
\* when every server answers.  An empty AAAA answer that comes in before the A
\* answer ends the race with no address, at every name server in turn.
ResolvesIPv4 ==
  LET Has(n) == Target(n) # None /\ "A" \in world.fams[Target(n)] IN
  pc = "done" /\ ~trouble /\ Unfoldable /\ Has(Domain)
    /\ Straight(Target(Domain)) /\ Apex(Target(Domain)) # None
    /\ (\A h \in NameServers[Apex(Target(Domain))] : Has(h))
  => result # None
============================================================================
