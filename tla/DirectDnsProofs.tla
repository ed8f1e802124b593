--------------------------- MODULE DirectDnsProofs ---------------------------
(* Theorems about the direct resolver, for any names, zones, records and    *)
(* lists of servers: families, right answers, authority, and success.       *)
EXTENDS DirectDns, FiniteSetTheorems, TLAPS

\* Addresses of the families that may be looked up.
InFamily(as) == \A a \in as : a.fam \in Lookups

\* The inductive invariant: a lookup that has been started is one that may be, so
\* whatever it comes by is of an allowed family.
FamilyInv ==
  /\ lookup \in [Fams -> Nat]
  /\ \A f \in Fams : lookup[f] # 0 => f \in Lookups
  /\ InFamily(addrs)
  /\ result # None => result.fam \in Lookups

\* Return keeps it, if the result is of an allowed family.
LEMMA ReturnFamily ==
  ASSUME FamilyInv, NEW r, Return(r), r # None => r.fam \in Lookups, UNCHANGED config
  PROVE  FamilyInv'
BY DEF FamilyInv, InFamily, Return, NoLookup, Lookups, config, search, Fams

\* A race is started for the allowed families.
LEMMA RaceFamily ==
  ASSUME StartRace, UNCHANGED config
  PROVE  lookup' \in [Fams -> Nat] /\ \A f \in Fams : lookup'[f] # 0 => f \in Lookups'
BY DEF StartRace, Lookups, config, Fams

\* What an answer lists is of the family that was asked for.
LEMMA AnswersFamily ==
  ASSUME NEW f \in Fams, NEW found \in Answers(f)
  PROVE  \A a \in found : a.fam = f
<1>1. ASSUME NEW n, NEW a \in AddressesOf(n, {f}) PROVE a.fam = f
  BY <1>1 DEF AddressesOf
<1> QED BY <1>1 DEF Answers

\* Delivering addresses of an allowed family.
LEMMA DeliverFamily ==
  ASSUME FamilyInv, NEW found, InFamily(found), Deliver(found), UNCHANGED config
  PROVE  FamilyInv'
<1>1. ASSUME lookup' = NoLookup PROVE lookup' \in [Fams -> Nat] /\ \A f \in Fams : lookup'[f] = 0
  BY <1>1 DEF NoLookup
<1>2. Lookups' = Lookups
  BY DEF Lookups, config
<1>3. CASE addrs' = found /\ lookup' = NoLookup /\ result' = result
  BY <1>1, <1>2, <1>3 DEF FamilyInv, InFamily
<1>4. CASE lookup' = NoLookup /\ UNCHANGED <<search, result>>
  BY <1>1, <1>2, <1>4 DEF FamilyInv, InFamily, search
<1>5. ASSUME NEW a \in found, Return(a) PROVE FamilyInv'
  BY <1>5, ReturnFamily DEF InFamily
<1> QED BY <1>3, <1>4, <1>5 DEF Deliver

\* Every step keeps it.
LEMMA FamilyStep ==
  ASSUME FamilyInv, [Next]_vars
  PROVE  FamilyInv'
<1>0. UNCHANGED config
  BY DEF Next, QueryFails, UnfoldCNAME, NsFound, NoHostLeft, NextAddr, RaceClosed, Unfolded,
         NsTrim, Answer, NextHost, ServerFails, vars
<1>1. Lookups' = Lookups
  BY <1>0 DEF Lookups, config
<1>2. ASSUME UNCHANGED <<addrs, lookup, result>> PROVE FamilyInv'
  BY <1>1, <1>2 DEF FamilyInv, InFamily
<1>3. ASSUME Return(None) PROVE FamilyInv'
  BY <1>0, <1>3, ReturnFamily
<1>4. CASE QueryFails \/ UnfoldCNAME \/ NsFound \/ NoHostLeft
  BY <1>2, <1>3, <1>4 DEF QueryFails, UnfoldCNAME, NsFound, NoHostLeft
<1>5. CASE \E error \in BOOLEAN : Unfolded(error) \/ NsTrim(error)
  BY <1>2, <1>3, <1>5 DEF Unfolded, NsTrim
<1>6. ASSUME NEW error \in BOOLEAN, NEW f \in Fams, Answer(f, error) PROVE FamilyInv'
  <2>1. PICK found \in IF error THEN {{}} ELSE Answers(f) : Deliver(found)
    BY <1>6 DEF Answer
  <2>2. f \in Lookups
    BY <1>6 DEF Answer, FamilyInv
  <2>3. InFamily(found)
    BY <2>1, <2>2, AnswersFamily DEF InFamily
  <2> QED BY <1>0, <2>1, <2>3, DeliverFamily
<1>7. ASSUME NEW h \in Names, NextHost(h) PROVE FamilyInv'
  <2>1. CASE addrs' \in (SUBSET AddressesOf(h, Lookups)) \ {{}} /\ UNCHANGED lookup
    <3>1. \A a \in AddressesOf(h, Lookups) : a.fam \in Lookups
      BY DEF AddressesOf
    <3> QED BY <1>1, <1>7, <2>1, <3>1 DEF NextHost, FamilyInv, InFamily
  <2>2. CASE StartRace /\ UNCHANGED addrs
    BY <1>0, <1>1, <1>7, <2>2, RaceFamily DEF NextHost, FamilyInv, InFamily
  <2> QED BY <1>7, <2>1, <2>2 DEF NextHost
<1>8. CASE NextAddr
  <2>1. CASE UNCHANGED <<addrs, lookup>>
    BY <1>2, <1>8, <2>1 DEF NextAddr
  <2>2. ASSUME NEW a \in addrs, addrs' = addrs \ {a}, StartRace PROVE FamilyInv'
    BY <1>0, <1>1, <1>8, <2>2, RaceFamily DEF NextAddr, FamilyInv, InFamily
  <2> QED BY <1>8, <2>1, <2>2 DEF NextAddr
<1>9. ASSUME NEW f \in Fams, ServerFails(f) PROVE FamilyInv'
  <2>1. PICK k \in Nat : lookup' = [lookup EXCEPT ![f] = k]
    <3>1. lookup[f] \in Nat
      BY DEF FamilyInv
    <3> DEFINE next == IF lookup[f] < ServerCount THEN lookup[f] + 1 ELSE 0
    <3>2. next \in Nat
      BY <3>1
    <3>3. lookup' = [lookup EXCEPT ![f] = next]
      BY <1>9 DEF ServerFails
    <3> HIDE DEF next
    <3> QED BY <3>2, <3>3
  <2>2. f \in Lookups
    BY <1>9 DEF ServerFails, FamilyInv
  <2> QED BY <1>1, <1>9, <2>1, <2>2 DEF ServerFails, FamilyInv, InFamily, search
<1>10. CASE RaceClosed
  BY <1>0, <1>10, DeliverFamily DEF RaceClosed, InFamily
<1>11. CASE UNCHANGED vars
  BY <1>2, <1>11 DEF vars, search
<1> QED BY <1>4, <1>5, <1>6, <1>7, <1>8, <1>9, <1>10, <1>11 DEF Next

\* With ipv4_only no IPv6 address is asked or returned, whatever the records and
\* whichever lookups fail or come first.
THEOREM OnlyIPv4 == Spec => []NoIPv6
<1>1. Init => FamilyInv
  BY DEF Init, FamilyInv, InFamily, NoLookup
<1>2. FamilyInv => NoIPv6
  BY DEF FamilyInv, InFamily, NoIPv6, Lookups
<1> QED BY <1>1, <1>2, FamilyStep, PTL DEF Spec
----------------------------------------------------------------------------
(* Chains of names.                                                         *)

NameMap == [Names -> Names \cup {None}]

\* A name is reached from itself.
LEMMA ReachedSelf ==
  ASSUME NEW f, NEW n \in Names
  PROVE  n \in Reached(f, n)
BY DEF Reached

\* Nothing else is reached from a name that f maps to None.
LEMMA ReachedStop ==
  ASSUME NEW f, NEW n \in Names, f[n] = None
  PROVE  Reached(f, n) = {n}
<1>1. ASSUME NEW m \in Reached(f, n), m # n PROVE FALSE
  <2>1. {n} \in SUBSET (Names \ {m})
    BY <1>1
  <2> QED BY <1>1, <2>1 DEF Reached
<1> QED BY <1>1, ReachedSelf

\* One step of f.
LEMMA ReachedStep ==
  ASSUME NEW f, NEW n \in Names, f[n] \in Names, f[n] # None
  PROVE  Reached(f, n) = {n} \cup Reached(f, f[n])
<1>1. ASSUME NEW m \in Reached(f, n), m # n PROVE m \in Reached(f, f[n])
  <2>1. m \in Names
    BY <1>1 DEF Reached
  <2>2. SUFFICES ASSUME NEW S \in SUBSET (Names \ {m}), f[n] \in S
                 PROVE  \E s \in S : f[s] \notin S \cup {None}
    BY <2>1 DEF Reached
  <2>3. S \cup {n} \in SUBSET (Names \ {m})
    BY <1>1, <2>2
  <2>4. PICK s \in S \cup {n} : f[s] \notin S \cup {n} \cup {None}
    BY <1>1, <2>3 DEF Reached
  <2> QED BY <2>2, <2>4
<1>2. ASSUME NEW m \in Reached(f, f[n]) PROVE m \in Reached(f, n)
  <2>1. m \in Names
    BY <1>2 DEF Reached
  <2>2. SUFFICES ASSUME NEW S \in SUBSET (Names \ {m}), n \in S
                 PROVE  \E s \in S : f[s] \notin S \cup {None}
    BY <2>1 DEF Reached
  <2>3. CASE f[n] \in S
    BY <1>2, <2>3 DEF Reached
  <2>4. CASE f[n] \notin S
    BY <2>2, <2>4
  <2> QED BY <2>3, <2>4
<1> QED BY <1>1, <1>2, ReachedSelf

\* What is reached in two stretches is reached.
LEMMA ReachedTrans ==
  ASSUME NEW f, NEW n \in Names, NEW m \in Reached(f, n)
  PROVE  Reached(f, m) \subseteq Reached(f, n)
<1>1. SUFFICES ASSUME NEW k \in Reached(f, m), NEW S \in SUBSET (Names \ {k}), n \in S
               PROVE  \E s \in S : f[s] \notin S \cup {None}
  BY DEF Reached
<1>2. CASE m \in S
  BY <1>1, <1>2 DEF Reached
<1>3. CASE m \notin S
  <2>1. S \in SUBSET (Names \ {m})
    BY <1>1, <1>3
  <2> QED BY <1>1, <2>1 DEF Reached
<1> QED BY <1>2, <1>3

\* The end of a chain.
LEMMA TargetStop ==
  ASSUME NEW n \in Names, world.alias[n] = None
  PROVE  Target(n) = n
BY ReachedStop DEF Target

\* A CNAME has the same end as the name it stands for.
LEMMA TargetStep ==
  ASSUME NEW n \in Names, world.alias[n] \in Names
  PROVE  Target(n) = Target(world.alias[n])
<1>0. world.alias[n] # None
  BY NameAssumption
<1>1. Reached(world.alias, n) = {n} \cup Reached(world.alias, world.alias[n])
  BY <1>0, ReachedStep
<1>2. {m \in Reached(world.alias, n) : world.alias[m] = None}
        = {m \in Reached(world.alias, world.alias[n]) : world.alias[m] = None}
  BY <1>0, <1>1
<1> DEFINE Choice(ends) == IF ends = {} THEN None ELSE CHOOSE m \in ends : TRUE
<1> DEFINE Ends(x) == {m \in Reached(world.alias, x) : world.alias[m] = None}
<1>3. \A x : Target(x) = Choice(Ends(x))
  BY DEF Target
<1> HIDE DEF Choice
<1> QED BY <1>2, <1>3

\* A chain that ends, ends at a name.
LEMMA TargetType ==
  ASSUME NEW n
  PROVE  Target(n) \in Names \cup {None}
BY DEF Target, Reached

\* The chain after one step is shorter by one.
LEMMA EndsWithinStep ==
  ASSUME NEW n \in Names, NEW k \in Nat, EndsWithin(n, k),
         world.alias[n] # None, world.alias[n] \in Names
  PROVE  k # 0 /\ EndsWithin(world.alias[n], k - 1)
<1>0. PICK j \in 0..k : \E walk \in [0..j -> Names] :
        /\ walk[0] = n
        /\ world.alias[walk[j]] = None
        /\ \A i \in 1..j : walk[i] = world.alias[walk[i - 1]]
  BY DEF EndsWithin
<1>1. PICK walk \in [0..j -> Names] :
        /\ walk[0] = n
        /\ world.alias[walk[j]] = None
        /\ \A i \in 1..j : walk[i] = world.alias[walk[i - 1]]
  BY <1>0
<1>2. j # 0
  BY <1>1
<1> DEFINE rest == [i \in 0..(j - 1) |-> walk[i + 1]]
<1>3. rest \in [0..(j - 1) -> Names] /\ j - 1 \in 0..(k - 1)
  BY <1>1, <1>2
<1>4. rest[0] = world.alias[n]
  BY <1>1, <1>2
<1>5. world.alias[rest[j - 1]] = None
  BY <1>1, <1>2
<1>6. \A i \in 1..(j - 1) : rest[i] = world.alias[rest[i - 1]]
  BY <1>1, <1>2
<1> HIDE DEF rest
<1>7. \E w \in [0..(j - 1) -> Names] :
        /\ w[0] = world.alias[n]
        /\ world.alias[w[j - 1]] = None
        /\ \A i \in 1..(j - 1) : w[i] = world.alias[w[i - 1]]
  BY <1>3, <1>4, <1>5, <1>6
<1>8. EndsWithin(world.alias[n], k - 1)
  <2>1. SUFFICES \E l \in 0..(k - 1) : \E w \in [0..l -> Names] :
          /\ w[0] = world.alias[n]
          /\ world.alias[w[l]] = None
          /\ \A i \in 1..l : w[i] = world.alias[w[i - 1]]
    BY DEF EndsWithin
  <2> j - 1 \in 0..(k - 1)
    BY <1>3
  <2> WITNESS j - 1 \in 0..(k - 1)
  <2> QED BY <1>7
<1> QED BY <1>2, <1>8
----------------------------------------------------------------------------
(* Zones.                                                                   *)

\* The lemmas on Reached for Suffixes.
LEMMA SuffixFacts ==
  ASSUME NEW n \in Names
  PROVE  /\ n \in Suffixes[n] /\ Suffixes[n] \subseteq Names
         /\ Parent[n] = None => Suffixes[n] = {n}
         /\ Parent[n] # None => /\ Parent[n] \in Names
                                /\ Suffixes[n] = {n} \cup Suffixes[Parent[n]]
         /\ \A m \in Suffixes[n] : Suffixes[m] \subseteq Suffixes[n]
<1>1. Parent[n] \in Names \cup {None}
  BY NameAssumption
<1>2. \A m \in Reached(Parent, n) : m \in Names
  BY DEF Reached
<1> QED BY <1>1, <1>2, ReachedSelf, ReachedStop, ReachedStep, ReachedTrans DEF Suffixes

\* Of two names only one is a suffix of the other.
LEMMA SuffixOrder ==
  ASSUME NEW n \in Names, NEW z \in Suffixes[n], n \in Suffixes[z]
  PROVE  z = n
<1>1. SUFFICES ASSUME z # n PROVE FALSE
  OBVIOUS
<1> DEFINE C == {c \in Suffixes[n] : n \in Suffixes[c]}
<1>2. C \in (SUBSET Names) \ {{}}
  BY SuffixFacts
<1>3. PICK c \in C : Parent[c] \notin C
  BY <1>2, ParentAssumption
<1>4. c \in Names /\ c \in Suffixes[n] /\ n \in Suffixes[c]
  BY <1>2
<1>5. CASE c = n
  <2>1. Parent[n] # None /\ z \in Suffixes[Parent[n]]
    BY <1>1, SuffixFacts
  <2>2. n \in Suffixes[Parent[n]] /\ Parent[n] \in Suffixes[n]
    BY <2>1, SuffixFacts
  <2> QED BY <1>3, <1>5, <2>2
<1>6. CASE c # n
  <2>1. Parent[c] # None /\ n \in Suffixes[Parent[c]]
    BY <1>4, <1>6, SuffixFacts
  <2>2. Parent[c] \in Suffixes[n]
    BY <1>4, <2>1, SuffixFacts
  <2> QED BY <1>3, <2>1, <2>2
<1> QED BY <1>5, <1>6

\* A name that is below an apex at all has an innermost one.
LEMMA Innermost ==
  ASSUME NEW n \in Names, Suffixes[n] \cap world.zones # {}
  PROVE  \E z \in Suffixes[n] \cap world.zones : Suffixes[n] \cap world.zones \subseteq Suffixes[z]
<1> DEFINE above == Suffixes[n] \cap world.zones
<1> DEFINE C == {c \in Suffixes[n] : above \subseteq Suffixes[c]}
<1>1. C \in (SUBSET Names) \ {{}}
  BY SuffixFacts
<1>2. PICK c \in C : Parent[c] \notin C
  BY <1>1, ParentAssumption
<1>3. c \in Names /\ c \in Suffixes[n] /\ above \subseteq Suffixes[c]
  BY <1>1
<1>4. CASE c \in world.zones
  BY <1>3, <1>4
<1>5. CASE c \notin world.zones
  <2>1. above \subseteq Suffixes[c] \ {c}
    BY <1>3, <1>5
  <2>2. Parent[c] # None
    BY <1>3, <2>1, SuffixFacts
  <2>3. above \subseteq Suffixes[Parent[c]] /\ Parent[c] \in Suffixes[n]
    BY <1>3, <2>1, <2>2, SuffixFacts
  <2> QED BY <1>2, <2>3
<1> QED BY <1>4, <1>5

\* The apex of a name is an apex above it.
LEMMA ApexType ==
  ASSUME NEW n \in Names, Apex(n) # None
  PROVE  Apex(n) \in Suffixes[n] \cap world.zones /\ Apex(n) \in Names
BY Innermost, SuffixFacts DEF Apex

\* An apex is its own.
LEMMA ApexSelf ==
  ASSUME NEW n \in Names, n \in world.zones
  PROVE  Apex(n) = n
<1> DEFINE above == Suffixes[n] \cap world.zones
<1> DEFINE z == CHOOSE x \in above : above \subseteq Suffixes[x]
<1>1. n \in above /\ above \subseteq Suffixes[n]
  BY SuffixFacts
<1>2. z \in above /\ above \subseteq Suffixes[z]
  BY <1>1
<1>3. Apex(n) = z
  BY <1>1 DEF Apex
<1> HIDE DEF z
<1> QED BY <1>1, <1>2, <1>3, SuffixOrder

\* A name that is no apex has the apex of the name above it, if there is one.
LEMMA ApexAbove ==
  ASSUME NEW n \in Names, n \notin world.zones
  PROVE  Apex(n) = IF Parent[n] = None THEN None ELSE Apex(Parent[n])
<1>1. CASE Parent[n] = None
  BY <1>1, SuffixFacts DEF Apex
<1>2. CASE Parent[n] # None
  <2>1. Suffixes[n] \cap world.zones = Suffixes[Parent[n]] \cap world.zones
    BY <1>2, SuffixFacts
  <2> DEFINE Choice(above) == IF above = {} THEN None
                              ELSE CHOOSE z \in above : above \subseteq Suffixes[z]
  <2>2. \A x : Apex(x) = Choice(Suffixes[x] \cap world.zones)
    BY DEF Apex
  <2> HIDE DEF Choice
  <2> QED BY <1>2, <2>1, <2>2
<1> QED BY <1>1, <1>2

\* The owner of a SOA record is a name.
LEMMA SoaType ==
  ASSUME NEW n \in Names, NEW s \in SoaNames(n)
  PROVE  s \in Names
<1>1. Target(n) \in Names /\ s = Apex(Target(n)) /\ Apex(Target(n)) # None
  BY TargetType DEF SoaNames
<1> QED BY <1>1, ApexType
----------------------------------------------------------------------------
(* Types.                                                                   *)

\* The world and the configuration stay as they are.
LEMMA FrameStep ==
  ASSUME [Next]_vars
  PROVE  UNCHANGED <<world, config>>
BY DEF Next, QueryFails, UnfoldCNAME, NsFound, NoHostLeft, NextAddr, RaceClosed, Unfolded,
       NsTrim, Answer, NextHost, ServerFails, vars

\* TypeOK, and what the steps need to keep it: there is a public server, a domain
\* is asked for only while depth is not used up, and NS records only of a name.
TypeInv ==
  /\ TypeOK
  /\ ServerTotal \in Nat \ {0}
  /\ pc = "alias" => depth # 0
  /\ pc = "zone" => zone # None

\* The records of a world.
LEMMA WorldFacts ==
  ASSUME TypeOK
  PROVE  /\ world.alias \in [Names -> Names \cup {None}]
         /\ world.zones \subseteq DOMAIN NameServers
         /\ world.fams \in [Names -> SUBSET Fams]
BY WorldAssumption DEF TypeOK

\* The addresses of a host are addresses.
LEMMA AddressesType ==
  ASSUME TypeOK, NEW n \in Names, NEW fs
  PROVE  AddressesOf(n, fs) \subseteq Address
<1>1. world.fams[n] \subseteq Fams
  BY WorldFacts
<1> QED BY <1>1 DEF AddressesOf, Address

\* So are those that an answer lists.
LEMMA AnswersType ==
  ASSUME TypeOK, NEW f \in Fams, NEW found \in Answers(f)
  PROVE  found \subseteq Address
<1>1. Target(Asked) \in Names \cup {None}
  BY TargetType
<1>2. ASSUME Target(Asked) # None PROVE AddressesOf(Target(Asked), {f}) \subseteq Address
  BY <1>1, <1>2, AddressesType
<1> QED BY <1>2 DEF Answers

\* The list of dns.Init is never empty, and has only servers that can be used.
LEMMA PublicServersType ==
  ASSUME NEW finder \in Finders, NEW resolv \in Resolvs, NEW only \in BOOLEAN
  PROVE  LET list == PublicServers(finder, resolv, only) IN
         /\ Cardinality(DOMAIN list) \in Nat \ {0}
         /\ \A k \in DOMAIN list : list[k] \in IF only THEN {"A"} ELSE Fams
<1>1. ASSUME NEW l \in Seq(Fams \cup {"bad"}), Usable(l, only) # {}
      PROVE  LET kept == [k \in Usable(l, only) |-> l[k]] IN
             /\ Cardinality(DOMAIN kept) \in Nat \ {0}
             /\ \A k \in DOMAIN kept : kept[k] \in IF only THEN {"A"} ELSE Fams
  <2>1. Usable(l, only) \subseteq 1..Len(l) /\ Len(l) \in Nat
    BY DEF Usable
  <2>2. IsFiniteSet(Usable(l, only))
    <3>1. IsFiniteSet(1..Len(l))
      BY <2>1, FS_Interval
    <3> QED BY <2>1, <3>1, FS_Subset
  <2>3. Cardinality(Usable(l, only)) \in Nat \ {0}
    BY <1>1, <2>2, FS_CardinalityType, FS_EmptySet
  <2>4. \A k \in Usable(l, only) : l[k] \in IF only THEN {"A"} ELSE Fams
    BY DEF Usable, Fams
  <2> QED BY <2>3, <2>4
<1>2. /\ Cardinality(DOMAIN <<"A", "A">>) \in Nat \ {0}
      /\ \A k \in DOMAIN <<"A", "A">> : <<"A", "A">>[k] \in IF only THEN {"A"} ELSE Fams
  <2>1. DOMAIN <<"A", "A">> = 1..2
    OBVIOUS
  <2>2. Cardinality(1..2) = 2
    <3>1. 1 \in Int /\ 2 \in Int
      OBVIOUS
    <3>2. Cardinality(1..2) = IF 1 > 2 THEN 0 ELSE 2 - 1 + 1
      BY <3>1, FS_Interval, Zenon
    <3> QED BY <3>2
  <2> QED BY <2>1, <2>2 DEF Fams
<1>3. finder \in Seq(Fams \cup {"bad"}) /\ resolv \in Seq(Fams \cup {"bad"})
  BY ListAssumption
<1>4. CASE Usable(finder, only) # {}
  BY <1>1, <1>3, <1>4 DEF PublicServers
<1>5. CASE Usable(finder, only) = {} /\ Usable(resolv, only) # {}
  BY <1>1, <1>3, <1>5 DEF PublicServers
<1>6. CASE Usable(finder, only) = {} /\ Usable(resolv, only) = {}
  BY <1>2, <1>6 DEF PublicServers
<1> QED BY <1>4, <1>5, <1>6

\* The initial states.
LEMMA TypeInit == Init => TypeInv
<1> SUFFICES ASSUME Init PROVE TypeInv
  OBVIOUS
<1>1. PICK finder \in Finders, resolv \in Resolvs :
        publicDNS = PublicServers(finder, resolv, ipv4Only)
  BY DEF Init
<1>2. /\ ServerTotal \in Nat \ {0}
      /\ \A k \in DOMAIN publicDNS : publicDNS[k] \in IF ipv4Only THEN {"A"} ELSE Fams
  BY <1>1, PublicServersType DEF Init, ServerTotal
<1>3. lookup \in [Fams -> 0..ServerTotal]
  BY <1>2 DEF Init, NoLookup
<1>4. \A k \in DOMAIN publicDNS : publicDNS[k] \in Fams
  BY <1>2 DEF Fams
<1>5. depth \in 0..MaxCnameDepth /\ depth # 0
  BY LimitAssumption DEF Init
<1>6. TypeOK
  <2>1. trouble = FALSE /\ pc = "alias" /\ name = Domain
    BY DEF Init
  <2>2. /\ world \in Worlds /\ ipv4Only \in BOOLEAN
        /\ zone = None /\ host = None /\ hosts = {} /\ addrs = {} /\ result = None
    BY DEF Init
  <2> QED BY <1>3, <1>4, <1>5, <2>1, <2>2, NameAssumption DEF TypeOK, ServerTotal
<1> QED BY <1>2, <1>5, <1>6 DEF Init, TypeInv

\* Return keeps it.
LEMMA ReturnType ==
  ASSUME TypeInv, NEW r \in Address \cup {None}, Return(r), UNCHANGED <<world, config>>,
         trouble' \in BOOLEAN
  PROVE  TypeInv'
<1>1. lookup' \in [Fams -> 0..ServerTotal]
  BY DEF Return, NoLookup, TypeInv
<1> QED BY <1>1 DEF TypeInv, TypeOK, ServerTotal, Return, search, config

\* So does Deliver.
LEMMA DeliverType ==
  ASSUME TypeInv, NEW found \in SUBSET Address, Deliver(found), UNCHANGED <<world, config>>,
         trouble' \in BOOLEAN
  PROVE  TypeInv'
<1>1. ASSUME lookup' = NoLookup PROVE lookup' \in [Fams -> 0..ServerTotal]
  BY <1>1 DEF NoLookup, TypeInv
<1>2. CASE /\ addrs' = found /\ pc' = "addrs" /\ lookup' = NoLookup
           /\ UNCHANGED <<name, depth, zone, host, hosts, result>>
  BY <1>1, <1>2 DEF TypeInv, TypeOK, ServerTotal, config
<1>3. CASE pc' = "addrs" /\ lookup' = NoLookup /\ UNCHANGED <<search, result>>
  BY <1>1, <1>3 DEF TypeInv, TypeOK, ServerTotal, config, search
<1>4. ASSUME NEW a \in found, Return(a) PROVE TypeInv'
  BY <1>4, ReturnType
<1> QED BY <1>2, <1>3, <1>4 DEF Deliver

\* A race starts with the first server of each list.
LEMMA RaceType ==
  ASSUME TypeInv, StartRace
  PROVE  lookup' \in [Fams -> 0..ServerTotal]
BY DEF StartRace, TypeInv

\* Every step keeps it.
LEMMA TypeStep ==
  ASSUME TypeInv, [Next]_vars
  PROVE  TypeInv'
<1>0. UNCHANGED <<world, config>>
  BY FrameStep
<1>1. ServerTotal' = ServerTotal
  BY <1>0 DEF ServerTotal, config
<1>2. ASSUME Return(None), trouble' \in BOOLEAN PROVE TypeInv'
  BY <1>0, <1>2, ReturnType
<1>3. /\ world.alias \in [Names -> Names \cup {None}]
      /\ world.zones \subseteq DOMAIN NameServers
      /\ \A z \in world.zones : NameServers[z] \subseteq Names
  BY WorldFacts, NameAssumption DEF TypeInv
<1>4. CASE QueryFails \/ NoHostLeft
  BY <1>2, <1>4 DEF QueryFails, NoHostLeft, TypeInv, TypeOK
<1>5. CASE UnfoldCNAME
  <2>1. name' \in Names /\ depth' \in 0..MaxCnameDepth
    BY <1>3, <1>5, LimitAssumption DEF UnfoldCNAME, TypeInv, TypeOK
  <2> QED BY <1>0, <1>1, <1>5, <2>1 DEF UnfoldCNAME, TypeInv, TypeOK, ServerTotal, config
<1>6. ASSUME NEW error \in BOOLEAN, Unfolded(error) PROVE TypeInv'
  BY <1>0, <1>1, <1>6, NameAssumption DEF Unfolded, TypeInv, TypeOK, ServerTotal, config
<1>7. ASSUME NEW error \in BOOLEAN, NsTrim(error) PROVE TypeInv'
  <2>1. trouble' \in BOOLEAN
    BY <1>7 DEF NsTrim, TypeInv, TypeOK
  <2>2. CASE /\ zone' \in SoaNames(zone) \/ (Parent[zone] # None /\ zone' = Parent[zone])
             /\ UNCHANGED <<pc, name, depth, host, hosts, addrs, lookup, result>>
    <3>1. zone \in Names
      BY <1>7 DEF NsTrim, TypeInv, TypeOK
    <3>2. Parent[zone] \in Names \cup {None}
      BY <3>1, NameAssumption
    <3>3. \A s \in SoaNames(zone) : s \in Names
      BY <3>1, SoaType
    <3>4. zone' \in Names
      BY <2>2, <3>2, <3>3
    <3>5. zone' # None
      BY <3>4, NameAssumption
    <3> QED BY <1>0, <1>1, <2>1, <2>2, <3>4, <3>5 DEF TypeInv, TypeOK, ServerTotal, config
  <2> QED BY <1>2, <1>7, <2>1, <2>2 DEF NsTrim
<1>8. CASE NsFound
  BY <1>0, <1>1, <1>3, <1>8 DEF NsFound, TypeInv, TypeOK, ServerTotal, config
<1>9. ASSUME NEW h \in Names, NextHost(h) PROVE TypeInv'
  <2>1. AddressesOf(h, Lookups) \subseteq Address
    BY AddressesType DEF TypeInv
  <2>2. addrs' \subseteq Address /\ lookup' \in [Fams -> 0..ServerTotal]
    BY <1>9, <2>1, RaceType DEF NextHost, TypeInv, TypeOK, ServerTotal
  <2>3. pc' \in {"addrs", "hostRace"}
    BY <1>9 DEF NextHost
  <2> QED BY <1>0, <1>1, <1>9, <2>2, <2>3 DEF NextHost, TypeInv, TypeOK, ServerTotal, config
<1>10. CASE NextAddr
  <2>1. addrs' \subseteq Address /\ lookup' \in [Fams -> 0..ServerTotal]
    BY <1>10, RaceType DEF NextAddr, TypeInv, TypeOK, ServerTotal
  <2>2. pc' \in {"hosts", "addrRace"}
    BY <1>10 DEF NextAddr
  <2> QED BY <1>0, <1>1, <1>10, <2>1, <2>2 DEF NextAddr, TypeInv, TypeOK, ServerTotal, config
<1>11. ASSUME NEW error \in BOOLEAN, NEW f \in Fams, Answer(f, error) PROVE TypeInv'
  <2>1. PICK found \in IF error THEN {{}} ELSE Answers(f) : Deliver(found)
    BY <1>11 DEF Answer
  <2>2. found \in SUBSET Address
    BY <2>1, AnswersType DEF TypeInv
  <2>3. trouble' \in BOOLEAN
    BY <1>11 DEF Answer, TypeInv, TypeOK
  <2> QED BY <1>0, <2>1, <2>2, <2>3, DeliverType
<1>12. ASSUME NEW f \in Fams, ServerFails(f) PROVE TypeInv'
  <2> DEFINE next == IF lookup[f] < ServerCount THEN lookup[f] + 1 ELSE 0
  <2>1. next \in 0..ServerTotal
    BY DEF TypeInv, TypeOK, ServerTotal, ServerCount
  <2>2. lookup' = [lookup EXCEPT ![f] = next]
    BY <1>12 DEF ServerFails
  <2> HIDE DEF next
  <2>3. lookup' \in [Fams -> 0..ServerTotal]
    BY <2>1, <2>2 DEF TypeInv, TypeOK, ServerTotal
  <2> QED BY <1>0, <1>1, <1>12, <2>3
          DEF ServerFails, TypeInv, TypeOK, ServerTotal, config, search
<1>13. CASE RaceClosed
  BY <1>0, <1>13, DeliverType DEF RaceClosed, TypeInv, TypeOK
<1>14. CASE UNCHANGED vars
  BY <1>0, <1>1, <1>14 DEF vars, search, TypeInv, TypeOK, ServerTotal, config
<1> QED BY <1>4, <1>5, <1>6, <1>7, <1>8, <1>9, <1>10, <1>11, <1>12, <1>13, <1>14 DEF Next

LEMMA TypeHolds == Spec => []TypeInv
BY TypeInit, TypeStep, PTL DEF Spec

\* The state of a resolution is of its type; depth is never counted below 0.
THEOREM TypeCorrect == Spec => []TypeOK
BY TypeHolds, PTL DEF TypeInv
----------------------------------------------------------------------------
(* The answer.                                                              *)

\* The end of a chain depends on the records only.
LEMMA TargetSame ==
  ASSUME UNCHANGED world, NEW n
  PROVE  Target(n)' = Target(n)
BY DEF Target

\* The inductive invariant: CNAMEs are followed to where they lead, so the name
\* asked for always has the same end as the domain.
RightInv ==
  /\ AnswerIsRight
  /\ Target(name) = Target(Domain)

\* What a name server lists belongs to the end of the name it is asked for.
LEMMA AnswersRight ==
  ASSUME pc = "addrRace", NEW f \in Fams, NEW found \in Answers(f), NEW a \in found
  PROVE  Target(name) # None /\ a \in AddressesOf(Target(name), {f})
BY DEF Answers, Asked

LEMMA RightInit == Init => RightInv
<1> SUFFICES ASSUME Init PROVE RightInv
  OBVIOUS
<1>1. PICK finder \in Finders, resolv \in Resolvs :
        publicDNS = PublicServers(finder, resolv, ipv4Only)
  BY DEF Init
<1>2. \A k \in DOMAIN publicDNS : publicDNS[k] \in IF ipv4Only THEN {"A"} ELSE Fams
  BY <1>1, PublicServersType DEF Init
<1>3. name = Domain /\ result = None
  BY DEF Init
<1> QED BY <1>2, <1>3 DEF RightInv, AnswerIsRight

\* Every step keeps it.
LEMMA RightStep ==
  ASSUME TypeInv, RightInv, [Next]_vars
  PROVE  RightInv'
<1>0. UNCHANGED <<world, config>>
  BY FrameStep
<1>1. ASSUME NEW n PROVE Target(n)' = Target(n)
  BY <1>0, TargetSame
<1>2. ASSUME NEW n, NEW fs PROVE AddressesOf(n, fs)' = AddressesOf(n, fs)
  BY <1>0 DEF AddressesOf
<1>3. Target(Domain)' = Target(Domain)
  BY <1>1
<1>4. ASSUME UNCHANGED name PROVE Target(name)' = Target(name)
  BY <1>0, <1>4 DEF Target
<1>5. ASSUME UNCHANGED result PROVE AnswerIsRight'
  BY <1>0, <1>2, <1>3, <1>5 DEF RightInv, AnswerIsRight, AddressesOf, config
<1>6. ASSUME UNCHANGED name, result' = None PROVE RightInv'
  BY <1>0, <1>3, <1>4, <1>6 DEF RightInv, AnswerIsRight, config
<1>7. CASE UNCHANGED <<name, result>>
  BY <1>3, <1>4, <1>5, <1>7 DEF RightInv
<1>8. CASE QueryFails \/ NoHostLeft
  BY <1>6, <1>8 DEF QueryFails, NoHostLeft, Return, search
<1>9. CASE UnfoldCNAME
  <2>1. name \in Names /\ name' = world.alias[name] /\ world.alias[name] \in Names
    BY <1>9, WorldFacts DEF UnfoldCNAME, TypeInv, TypeOK
  <2>2. Target(name)' = Target(world.alias[name])
    BY <1>0, <2>1 DEF Target
  <2>3. Target(name)' = Target(Domain)'
    BY <1>3, <2>1, <2>2, TargetStep DEF RightInv
  <2> QED BY <1>5, <1>9, <2>3 DEF UnfoldCNAME, RightInv
<1>10. ASSUME NEW error \in BOOLEAN, Unfolded(error) \/ NsTrim(error) PROVE RightInv'
  BY <1>6, <1>7, <1>10 DEF Unfolded, NsTrim, Return, search
<1>11. CASE NsFound \/ NextAddr
  BY <1>7, <1>11 DEF NsFound, NextAddr
<1>12. ASSUME NEW h \in Names, NextHost(h) PROVE RightInv'
  BY <1>7, <1>12 DEF NextHost
<1>13. ASSUME NEW found, Deliver(found),
              pc = "addrRace" =>
                \A a \in found : a \in AddressesOf(Target(name), Fams) /\ Target(name) # None
       PROVE  RightInv'
  <2>1. CASE UNCHANGED <<name, result>>
    BY <1>7, <2>1
  <2>2. ASSUME NEW a \in found, pc = "addrRace", Return(a) PROVE RightInv'
    <3>1. UNCHANGED name /\ result' = a
      BY <2>2 DEF Return, search
    <3>2. Target(Domain) # None /\ a \in AddressesOf(Target(Domain), Fams)
      BY <1>13, <2>2 DEF RightInv
    <3>3. AddressesOf(Target(Domain), Fams)' = AddressesOf(Target(Domain), Fams)
      BY <1>0, <1>3 DEF AddressesOf
    <3> QED BY <1>0, <1>3, <1>4, <3>1, <3>2, <3>3 DEF RightInv, AnswerIsRight, config
  <2> QED BY <1>13, <2>1, <2>2 DEF Deliver, search
<1>14. ASSUME NEW error \in BOOLEAN, NEW f \in Fams, Answer(f, error) PROVE RightInv'
  <2>1. PICK found \in IF error THEN {{}} ELSE Answers(f) : Deliver(found)
    BY <1>14 DEF Answer
  <2>2. ASSUME pc = "addrRace", NEW a \in found
        PROVE  a \in AddressesOf(Target(name), {f}) /\ Target(name) # None
    BY <2>1, <2>2, AnswersRight
  <2>3. AddressesOf(Target(name), {f}) \subseteq AddressesOf(Target(name), Fams)
    BY DEF AddressesOf
  <2> QED BY <1>13, <2>1, <2>2, <2>3
<1>15. ASSUME NEW f \in Fams, ServerFails(f) PROVE RightInv'
  BY <1>7, <1>15 DEF ServerFails, search
<1>16. CASE RaceClosed
  BY <1>13, <1>16 DEF RaceClosed
<1>17. CASE UNCHANGED vars
  BY <1>7, <1>17 DEF vars, search
<1> QED BY <1>8, <1>9, <1>10, <1>11, <1>12, <1>14, <1>15, <1>16, <1>17 DEF Next

\* An address that is returned belongs to the name the CNAMEs of the domain end
\* at, and comes over IPv4 servers with ipv4_only, whatever fails on the way.
THEOREM AnswerRight == Spec => []AnswerIsRight
<1>1. RightInv => AnswerIsRight
  BY DEF RightInv
<1> QED BY <1>1, RightInit, RightStep, TypeHolds, PTL DEF Spec
----------------------------------------------------------------------------
(* The name servers asked.                                                  *)

\* The inductive invariant: as long as every server answers, and there is no CNAME
\* above the name, the labels cut off so far leave the apex of the domain where it
\* is, and the name servers are its.
AuthorityInv ==
  ~trouble /\ Straight(name) =>
    /\ pc = "zone" => zone \in Suffixes[name] /\ Apex(zone) = Apex(name)
    /\ pc \in {"hosts", "hostRace", "addrs", "addrRace"} => hosts \subseteq NameServers[Apex(name)]
    /\ pc \in {"hostRace", "addrs", "addrRace"} => host \in NameServers[Apex(name)]

\* A name below no CNAME stands for itself, and so does what is left of it.
LEMMA StraightTarget ==
  ASSUME NEW n \in Names, Straight(n), NEW z \in Suffixes[n]
  PROVE  z \in Names /\ Target(z) = z
BY SuffixFacts, TargetStop DEF Straight

\* Without trouble, a cut or a jump to the SOA record keeps the apex.
LEMMA TrimKeepsApex ==
  ASSUME TypeInv, NsTrim(FALSE), Straight(name), zone \in Suffixes[name],
         zone' \in SoaNames(zone) \/ (Parent[zone] # None /\ zone' = Parent[zone])
  PROVE  zone' \in Suffixes[name] /\ Apex(zone') = Apex(zone)
<1>1. zone \in Names /\ name \in Names /\ Target(zone) = zone /\ zone \notin world.zones
  BY StraightTarget DEF NsTrim, TypeInv, TypeOK
<1>2. ASSUME Parent[zone] # None
      PROVE  Parent[zone] \in Suffixes[zone] /\ Apex(Parent[zone]) = Apex(zone)
  BY <1>1, <1>2, ApexAbove, SuffixFacts
<1>3. ASSUME Apex(zone) # None PROVE Apex(zone) \in Suffixes[zone] /\ Apex(Apex(zone)) = Apex(zone)
  BY <1>1, <1>3, ApexType, ApexSelf
<1>4. Suffixes[zone] \subseteq Suffixes[name]
  BY <1>1, SuffixFacts
<1>5. CASE Parent[zone] # None /\ zone' = Parent[zone]
  BY <1>2, <1>4, <1>5
<1>6. CASE zone' \in SoaNames(zone)
  <2>1. zone' = Apex(zone) /\ Apex(zone) # None
    BY <1>1, <1>6 DEF SoaNames
  <2> QED BY <1>3, <1>4, <2>1
<1> QED BY <1>5, <1>6

\* Every step keeps it.
LEMMA AuthorityStep ==
  ASSUME TypeInv, AuthorityInv, [Next]_vars
  PROVE  AuthorityInv'
<1>0. UNCHANGED <<world, config>>
  BY FrameStep
<1>1. SUFFICES ASSUME ~trouble' PROVE AuthorityInv'
  BY DEF AuthorityInv
<1>2. ASSUME UNCHANGED name PROVE Apex(name)' = Apex(name) /\ Straight(name)' = Straight(name)
  BY <1>0, <1>2 DEF Apex, Straight
<1>3. ASSUME Return(None) PROVE AuthorityInv'
  BY <1>3 DEF AuthorityInv, Return
<1>4. CASE QueryFails \/ NoHostLeft
  BY <1>3, <1>4 DEF QueryFails, NoHostLeft
<1>5. CASE UnfoldCNAME
  BY <1>5 DEF UnfoldCNAME, AuthorityInv
<1>6. ASSUME NEW error \in BOOLEAN, Unfolded(error) PROVE AuthorityInv'
  <2>1. pc' = "zone" /\ zone' = name /\ name' = name
    BY <1>6 DEF Unfolded
  <2>2. Apex(zone)' = Apex(name)'
    BY <2>1 DEF Apex
  <2>3. zone' \in Suffixes[name']
    BY <2>1, SuffixFacts DEF TypeInv, TypeOK
  <2> QED BY <2>1, <2>2, <2>3 DEF AuthorityInv
<1>7. ASSUME NEW error \in BOOLEAN, NsTrim(error) PROVE AuthorityInv'
  <2>1. pc = "zone" /\ ~trouble /\ ~error
    BY <1>1, <1>7 DEF NsTrim
  <2>2. CASE Return(None)
    BY <1>3, <2>2
  <2>3. CASE /\ zone' \in SoaNames(zone) \/ (Parent[zone] # None /\ zone' = Parent[zone])
             /\ UNCHANGED <<pc, name>>
    <3>1. ASSUME Straight(name) PROVE zone' \in Suffixes[name] /\ Apex(zone') = Apex(name)
      BY <1>7, <2>1, <2>3, <3>1, TrimKeepsApex DEF AuthorityInv
    <3>2. Apex(zone)' = Apex(zone')
      BY <1>0 DEF Apex
    <3> QED BY <1>2, <2>1, <2>3, <3>1, <3>2 DEF AuthorityInv
  <2> QED BY <1>7, <2>2, <2>3 DEF NsTrim
<1>8. CASE NsFound
  <2>1. pc = "zone" /\ Target(zone) \in world.zones /\ name \in Names /\ ~trouble
    BY <1>1, <1>8 DEF NsFound, TypeInv, TypeOK
  <2>2. ASSUME Straight(name) PROVE Target(zone) = Apex(name)
    <3>1. zone \in Names /\ Target(zone) = zone
      BY <2>1, <2>2, StraightTarget DEF AuthorityInv
    <3> QED BY <2>1, <2>2, <3>1, ApexSelf DEF AuthorityInv
  <2> QED BY <1>2, <1>8, <2>2 DEF NsFound, AuthorityInv
<1>9. ASSUME NEW h \in Names, NextHost(h) PROVE AuthorityInv'
  <2>1. /\ Straight(name) => hosts \subseteq NameServers[Apex(name)]
        /\ h \in hosts /\ hosts' = hosts \ {h} /\ host' = h
    BY <1>1, <1>9 DEF NextHost, AuthorityInv
  <2>2. pc' \in {"addrs", "hostRace"}
    BY <1>9 DEF NextHost
  <2> QED BY <1>2, <1>9, <2>1, <2>2 DEF NextHost, AuthorityInv
<1>10. CASE NextAddr
  <2>1. pc = "addrs" /\ pc' \in {"hosts", "addrRace"} /\ UNCHANGED <<name, host, hosts, trouble>>
    BY <1>10 DEF NextAddr
  <2> QED BY <1>1, <1>2, <2>1 DEF AuthorityInv
<1>11. ASSUME NEW found, Racing, Deliver(found), ~trouble PROVE AuthorityInv'
  <2>1. CASE pc' = "addrs" /\ UNCHANGED <<name, host, hosts>>
    BY <1>2, <1>11, <2>1 DEF AuthorityInv, Racing
  <2>2. ASSUME NEW a \in found, Return(a) PROVE AuthorityInv'
    BY <2>2 DEF AuthorityInv, Return
  <2> QED BY <1>11, <2>1, <2>2 DEF Deliver, search
<1>12. ASSUME NEW error \in BOOLEAN, NEW f \in Fams, Answer(f, error) PROVE AuthorityInv'
  <2>1. PICK found \in IF error THEN {{}} ELSE Answers(f) : Deliver(found)
    BY <1>12 DEF Answer
  <2>2. Racing /\ ~trouble
    BY <1>1, <1>12 DEF Answer
  <2> QED BY <1>11, <2>1, <2>2
<1>13. ASSUME NEW f \in Fams, ServerFails(f) PROVE AuthorityInv'
  BY <1>1, <1>13 DEF ServerFails
<1>14. CASE RaceClosed
  BY <1>1, <1>11, <1>14 DEF RaceClosed
<1>15. CASE UNCHANGED vars
  <2>1. Apex(zone)' = Apex(zone)
    BY <1>0, <1>15 DEF Apex, vars, search
  <2> QED BY <1>1, <1>2, <1>15, <2>1 DEF vars, search, AuthorityInv
<1> QED BY <1>4, <1>5, <1>6, <1>7, <1>8, <1>9, <1>10, <1>12, <1>13, <1>14, <1>15 DEF Next

\* If every server answers, only name servers of the innermost zone are asked for
\* the address, however the name is cut on the way there, unless there is a CNAME
\* above it.
THEOREM AuthorityAsked == Spec => []AsksAuthority
<1>1. Init => AuthorityInv
  BY DEF Init, AuthorityInv
<1>2. AuthorityInv => AsksAuthority
  BY DEF AuthorityInv, AsksAuthority
<1> QED BY <1>1, <1>2, AuthorityStep, TypeHolds, PTL DEF Spec
----------------------------------------------------------------------------
(* What can be found is found.                                              *)

\* Some name server not yet tried will do.
SureAhead == \E h \in hosts : Sure(h)

\* The inductive invariant: as long as every server answers and the records leave
\* nothing to chance, what is left of the search is enough to find the address.
FindInv ==
  Findable /\ ~trouble =>
    /\ pc = "alias" => EndsWithin(name, depth - 1)
    /\ pc \notin {"alias", "done"} => name = Target(Domain)
    /\ pc = "hosts" => SureAhead
    /\ pc = "hostRace" => SureAhead \/ Sure(host)
    /\ pc = "addrs" => SureAhead \/ addrs # {}
    /\ Racing => lookup["A"] # 0
    /\ pc = "done" => result # None

LEMMA SureSame ==
  ASSUME UNCHANGED <<world, config>>, NEW n
  PROVE  Sure(n)' = Sure(n)
<1>1. Target(n)' = Target(n)
  BY TargetSame
<1> QED BY <1>1 DEF Sure, Lookups, config

LEMMA FindableSame ==
  ASSUME UNCHANGED <<world, config>>
  PROVE  Findable' = Findable
<1>1. \A n : Sure(n)' = Sure(n)
  BY SureSame
<1>2. Target(Domain)' = Target(Domain)
  BY TargetSame
<1>3. Apex(Target(Domain))' = Apex(Target(Domain))
  BY <1>2 DEF Apex
<1>4. Unfoldable' = Unfoldable
  BY DEF Unfoldable, EndsWithin
<1>5. Straight(Target(Domain))' = Straight(Target(Domain))
  BY <1>2 DEF Straight
<1> QED BY <1>1, <1>3, <1>4, <1>5 DEF Findable

\* An answer about a sure name has an address, whichever lookup comes first.
LEMMA SureAnswer ==
  ASSUME TypeInv, FamilyInv, NEW f \in Lookups, NEW found \in Answers(f),
         \/ pc = "hostRace" /\ Sure(host)
         \/ /\ pc = "addrRace" /\ Sure(name) /\ Target(name) = name /\ Apex(name) # None
            /\ host \in NameServers[Apex(name)]
  PROVE  found # {}
<1>1. ASSUME NEW n, Sure(n) PROVE AddressesOf(Target(n), {f}) # {}
  <2>1. f \in world.fams[Target(n)] \cap {f}
    BY <1>1 DEF Sure
  <2> QED BY <2>1 DEF AddressesOf
<1>2. CASE pc = "hostRace" /\ Sure(host)
  BY <1>1, <1>2 DEF Answers, Asked, Sure
<1>3. CASE /\ pc = "addrRace" /\ Sure(name) /\ Target(name) = name /\ Apex(name) # None
           /\ host \in NameServers[Apex(name)]
  BY <1>1, <1>3 DEF Answers, Asked, Sure
<1> QED BY <1>2, <1>3

\* The end of a chain is its own end.
LEMMA TargetEnd ==
  ASSUME NEW n, Target(n) # None
  PROVE  Target(n) \in Names /\ Target(Target(n)) = Target(n)
<1> DEFINE ends == {m \in Reached(world.alias, n) : world.alias[m] = None}
<1>1. ends # {} /\ Target(n) = CHOOSE m \in ends : TRUE
  BY DEF Target
<1>2. Target(n) \in ends
  BY <1>1
<1>3. Target(n) \in Names /\ world.alias[Target(n)] = None
  BY <1>2 DEF Reached
<1> QED BY <1>3, TargetStop

\* Every step keeps it.
LEMMA FindStep ==
  ASSUME TypeInv, FamilyInv, RightInv, AuthorityInv, FindInv, [Next]_vars
  PROVE  FindInv'
<1>0. UNCHANGED <<world, config>>
  BY FrameStep
<1>1. Findable' = Findable /\ Target(Domain)' = Target(Domain)
  BY <1>0, FindableSame, TargetSame
<1>2. ASSUME NEW n PROVE Sure(n)' = Sure(n)
  BY <1>0, SureSame
<1>3. SUFFICES ASSUME Findable, ~trouble' PROVE FindInv'
  BY <1>1 DEF FindInv
<1>4. /\ Target(Domain) \in Names /\ Sure(Target(Domain))
      /\ Target(Target(Domain)) = Target(Domain) /\ Straight(Target(Domain))
  BY <1>3, TargetEnd DEF Findable, Sure
<1>5. ASSUME UNCHANGED hosts, SureAhead PROVE SureAhead'
  BY <1>2, <1>5 DEF SureAhead
<1>6. CASE QueryFails
  BY <1>3, <1>6, FS_EmptySet DEF QueryFails, TypeInv, ServerTotal
<1>7. CASE UnfoldCNAME
  <2>1. /\ pc = "alias" /\ ~trouble /\ name \in Names /\ depth \in Nat \ {0}
        /\ world.alias[name] \in Names /\ world.alias[name] # None
    BY <1>3, <1>7, WorldFacts, LimitAssumption DEF UnfoldCNAME, TypeInv, TypeOK
  <2>2. EndsWithin(name, depth - 1) /\ depth - 1 \in Nat
    BY <1>3, <2>1 DEF FindInv
  <2>3. depth - 1 # 0 /\ EndsWithin(world.alias[name], depth - 1 - 1)
    BY <2>1, <2>2, EndsWithinStep
  <2>4. name' = world.alias[name] /\ depth' = depth - 1 /\ pc' = "alias"
    BY <1>7, <2>3 DEF UnfoldCNAME
  <2>5. EndsWithin(name, depth - 1)'
    BY <1>0, <2>3, <2>4 DEF EndsWithin
  <2> QED BY <2>4, <2>5 DEF FindInv, Racing
<1>8. ASSUME NEW error \in BOOLEAN, Unfolded(error) PROVE FindInv'
  <2>1. world.alias[name] = None /\ name \in Names
    BY <1>3, <1>8 DEF Unfolded, TypeInv, TypeOK
  <2>2. name = Target(Domain)
    BY <2>1, TargetStop DEF RightInv
  <2> QED BY <1>1, <1>8, <2>2 DEF Unfolded, FindInv, Racing
<1>9. ASSUME NEW error \in BOOLEAN, NsTrim(error) PROVE FindInv'
  <2>1. /\ pc = "zone" /\ ~trouble /\ ~error /\ zone \in Names /\ Target(zone) \notin world.zones
        /\ name = Target(Domain)
    BY <1>3, <1>9 DEF NsTrim, TypeInv, TypeOK, FindInv
  <2>2. Apex(zone) # None /\ Target(zone) = zone
    BY <1>3, <1>4, <2>1, StraightTarget DEF AuthorityInv, Findable
  <2>3. Parent[zone] # None
    BY <2>1, <2>2, ApexAbove
  <2>4. pc' = "zone" /\ name' = name
    BY <1>9, <2>1, <2>3 DEF NsTrim
  <2> QED BY <1>1, <2>1, <2>4 DEF FindInv, Racing
<1>10. CASE NsFound
  <2>1. /\ pc = "zone" /\ Target(zone) \in world.zones /\ zone \in Names /\ ~trouble
        /\ name = Target(Domain)
    BY <1>3, <1>10 DEF NsFound, TypeInv, TypeOK, FindInv
  <2>2. Apex(Target(Domain)) = Target(zone)
    BY <1>4, <2>1, StraightTarget, ApexSelf DEF AuthorityInv
  <2>3. \E h \in hosts' : Sure(h)
    BY <1>3, <1>10, <2>2 DEF NsFound, Findable
  <2>4. SureAhead'
    BY <1>2, <2>3 DEF SureAhead
  <2> QED BY <1>1, <1>10, <2>1, <2>4 DEF NsFound, FindInv, Racing
<1>11. CASE NoHostLeft
  BY <1>3, <1>11 DEF NoHostLeft, FindInv, SureAhead
<1>12. ASSUME NEW h \in Names, NextHost(h) PROVE FindInv'
  <2>1. /\ pc = "hosts" /\ ~trouble /\ name = Target(Domain) /\ name' = name
        /\ hosts' = hosts \ {h} /\ host' = h
    BY <1>3, <1>12 DEF NextHost, FindInv
  <2>2. PICK g \in hosts : Sure(g)
    BY <1>3, <2>1 DEF FindInv, SureAhead
  <2>3. g # h => SureAhead'
    BY <1>2, <2>1, <2>2 DEF SureAhead
  <2>4. g = h => Sure(host)'
    BY <1>0, <2>1, <2>2 DEF Sure, Lookups, Target, config
  <2>5. CASE addrs' # {} /\ pc' = "addrs"
    BY <1>1, <2>1, <2>5 DEF FindInv, Racing
  <2>6. CASE pc' = "hostRace" /\ StartRace
    <3>1. lookup'["A"] # 0
      BY <2>6 DEF StartRace, Lookups, Fams
    <3> QED BY <1>1, <2>1, <2>3, <2>4, <2>6, <3>1 DEF FindInv, Racing
  <2> QED BY <1>12, <2>5, <2>6 DEF NextHost
<1>13. CASE NextAddr
  <2>1. /\ pc = "addrs" /\ ~trouble /\ name = Target(Domain) /\ UNCHANGED <<name, host, hosts>>
    BY <1>3, <1>13 DEF NextAddr, FindInv
  <2>2. CASE addrs = {} /\ pc' = "hosts"
    <3>1. SureAhead'
      BY <1>3, <1>5, <2>1, <2>2 DEF FindInv
    <3> QED BY <1>1, <2>1, <2>2, <3>1 DEF FindInv, Racing
  <2>3. CASE pc' = "addrRace" /\ StartRace
    <3>1. lookup'["A"] # 0
      BY <2>3 DEF StartRace, Lookups, Fams
    <3> QED BY <1>1, <2>1, <2>3, <3>1 DEF FindInv, Racing
  <2> QED BY <1>13, <2>2, <2>3 DEF NextAddr
<1>14. ASSUME NEW f \in Fams, Answer(f, FALSE) PROVE FindInv'
  <2>1. PICK found \in Answers(f) : Deliver(found)
    BY <1>14 DEF Answer
  <2>2. /\ Racing /\ ~trouble /\ f \in Lookups /\ name = Target(Domain) /\ Apex(name) # None
    BY <1>3, <1>14 DEF Answer, FamilyInv, FindInv, Racing, Findable
  <2>3. CASE pc = "hostRace"
    <3>1. /\ addrs' = found /\ pc' = "addrs" /\ UNCHANGED <<name, hosts>>
      BY <2>1, <2>3 DEF Deliver
    <3>2. CASE Sure(host)
      <4>1. found # {}
        BY <2>1, <2>2, <2>3, <3>2, SureAnswer
      <4> QED BY <1>1, <2>2, <3>1, <4>1 DEF FindInv, Racing
    <3>3. CASE SureAhead
      BY <1>1, <1>5, <2>2, <3>1, <3>3 DEF FindInv, Racing
    <3> QED BY <1>3, <2>2, <2>3, <3>2, <3>3 DEF FindInv
  <2>4. CASE pc = "addrRace"
    <3>1. found # {}
      BY <1>4, <2>1, <2>2, <2>4, SureAnswer DEF AuthorityInv
    <3>2. PICK a \in found : Return(a)
      BY <2>1, <2>4, <3>1 DEF Deliver
    <3>3. a # None
      BY <2>1, <3>2, AnswersType, NameAssumption DEF Address, TypeInv
    <3> QED BY <3>2, <3>3 DEF Return, FindInv, Racing
  <2> QED BY <2>2, <2>3, <2>4 DEF Racing
<1>15. ASSUME NEW f \in Fams, ServerFails(f) PROVE FindInv'
  BY <1>3, <1>15 DEF ServerFails
<1>16. CASE RaceClosed
  BY <1>3, <1>16 DEF RaceClosed, FindInv, NoLookup, Fams
<1>17. CASE UNCHANGED vars
  <2>1. EndsWithin(name, depth - 1)' = EndsWithin(name, depth - 1)
    BY <1>17 DEF EndsWithin, vars, search
  <2>2. SureAhead' = SureAhead /\ Sure(host)' = Sure(host)
    BY <1>17 DEF SureAhead, Sure, Lookups, Target, vars, search, config
  <2> QED BY <1>1, <1>17, <2>1, <2>2 DEF FindInv, Racing, vars, search
<1>18. ASSUME NEW f \in Fams, Answer(f, TRUE) PROVE FindInv'
  BY <1>3, <1>18 DEF Answer
<1> QED BY <1>6, <1>7, <1>8, <1>9, <1>10, <1>11, <1>12, <1>13, <1>14, <1>15, <1>16, <1>17, <1>18
        DEF Next

\* If every server answers, a name with an address and a zone is resolved,
\* whichever name servers, addresses and lookups come first.
THEOREM SureNamesResolved == Spec => []Resolves
<1>1. Init => FindInv
  BY DEF Init, FindInv, Findable, Unfoldable, Racing
<1>2. FindInv => Resolves
  BY DEF FindInv, Findable, Resolves
<1>3. Init => FamilyInv
  BY DEF Init, FamilyInv, InFamily, NoLookup
<1>4. Init => AuthorityInv
  BY DEF Init, AuthorityInv
<1> QED BY <1>1, <1>2, <1>3, <1>4, FamilyStep, RightInit, RightStep, AuthorityStep, FindStep,
           TypeHolds, PTL DEF Spec

\* With ipv4_only there is no AAAA lookup that could come first: a name whose zone
\* lists name servers resolves, as ResolvesIPv4 has it (query.go:78-94).
THEOREM IPv4OnlyResolves ==
  Spec => [](ipv4Only /\ NameServers[Apex(Target(Domain))] # {} => ResolvesIPv4)
<1>1. Resolves => (ipv4Only /\ NameServers[Apex(Target(Domain))] # {} => ResolvesIPv4)
  BY DEF Resolves, ResolvesIPv4, Findable, Sure, Lookups
<1> QED BY <1>1, SureNamesResolved, PTL
----------------------------------------------------------------------------
(* The resolution as one step.                                              *)

\* Nothing is returned before the end.
PendInv == pc # "done" => result = None

\* Every step keeps that; the end is the end, and a step that finds an address has
\* nothing go wrong.
LEMMA PendStep ==
  ASSUME PendInv, [Next]_vars
  PROVE  /\ PendInv'
         /\ pc = "done" => UNCHANGED vars
         /\ pc # "done" /\ result' # None => (trouble' => trouble)
<1> DEFINE Kept == PendInv' /\ pc # "done" /\ (result' # None => (trouble' => trouble))
<1>1. ASSUME NEW found, Racing, Deliver(found), found # {} => (trouble' => trouble) PROVE Kept
  BY <1>1 DEF Deliver, Return, PendInv, Racing
<1>2. ASSUME pc # "done", Return(None) PROVE Kept
  BY <1>2 DEF Return, PendInv
<1>3. ASSUME pc # "done", UNCHANGED result PROVE Kept
  BY <1>3 DEF PendInv
<1>4. CASE QueryFails \/ NoHostLeft \/ UnfoldCNAME \/ NsFound \/ NextAddr
  BY <1>2, <1>3, <1>4 DEF QueryFails, NoHostLeft, UnfoldCNAME, NsFound, NextAddr
<1>5. ASSUME NEW error \in BOOLEAN, Unfolded(error) \/ NsTrim(error) PROVE Kept
  BY <1>2, <1>3, <1>5 DEF Unfolded, NsTrim
<1>6. ASSUME NEW error \in BOOLEAN, NEW f \in Fams, Answer(f, error) PROVE Kept
  <2>1. PICK found \in IF error THEN {{}} ELSE Answers(f) : Deliver(found)
    BY <1>6 DEF Answer
  <2>2. CASE error
    BY <1>1, <1>6, <2>1, <2>2 DEF Answer
  <2>3. CASE ~error
    <3>1. trouble' = (trouble \/ error)
      BY <1>6 DEF Answer
    <3>2. Racing
      BY <1>6 DEF Answer
    <3>3. pc # "done"
      BY <3>2 DEF Racing
    <3>4. PendInv'
      BY <2>1, <3>2 DEF Deliver, Return, PendInv, Racing
    <3> QED BY <2>3, <3>1, <3>3, <3>4
  <2> QED BY <2>2, <2>3
<1>7. ASSUME NEW h \in Names, NextHost(h) PROVE Kept
  BY <1>3, <1>7 DEF NextHost
<1>8. ASSUME NEW f \in Fams, ServerFails(f) PROVE Kept
  BY <1>3, <1>8 DEF ServerFails, Racing
<1>9. CASE RaceClosed
  BY <1>1, <1>9 DEF RaceClosed
<1>10. CASE UNCHANGED vars
  BY <1>10 DEF vars, PendInv
<1> QED BY <1>4, <1>5, <1>6, <1>7, <1>8, <1>9, <1>10 DEF Next

\* A failure is not forgotten.
LEMMA TroubleStays ==
  ASSUME [Next]_vars, trouble
  PROVE  trouble'
BY DEF Next, QueryFails, UnfoldCNAME, NsFound, NoHostLeft, NextAddr, RaceClosed, Unfolded,
       NsTrim, Answer, NextHost, ServerFails, vars

\* The state of a resolution, as its callers see it.
SeenInv == TypeInv /\ FamilyInv /\ RightInv /\ AuthorityInv /\ FindInv /\ PendInv

\* What is returned is right.
LEMMA ResultRight ==
  ASSUME TypeInv, RightInv', FamilyInv', result' # None, UNCHANGED <<world, config>>
  PROVE  result' \in Right /\ result' \in Address
<1>1. Target(Domain)' = Target(Domain) /\ Lookups' = Lookups
  BY TargetSame DEF Lookups, config
<1>2. AddressesOf(Target(Domain), Fams)' = AddressesOf(Target(Domain), Fams)
  BY <1>1 DEF AddressesOf
<1>3. /\ Target(Domain) # None
      /\ result' \in AddressesOf(Target(Domain), Fams)
      /\ result'.fam \in Lookups
  BY <1>1, <1>2 DEF RightInv, AnswerIsRight, FamilyInv
<1>4. result' \in AddressesOf(Target(Domain), Lookups)
  BY <1>3 DEF AddressesOf
<1>5. Target(Domain) \in Names
  BY <1>3, TargetType
<1> QED BY <1>3, <1>4, <1>5, AddressesType DEF Right, TypeInv

LEMMA RightSame ==
  ASSUME UNCHANGED <<world, config>>
  PROVE  Right' = Right
<1>1. Target(Domain)' = Target(Domain)
  BY TargetSame
<1>2. Lookups' = Lookups
  BY DEF Lookups, config
<1> QED BY <1>1, <1>2 DEF Right, AddressesOf

\* The initial states are those of a resolution in one step.
LEMMA SeenInit == Init => OneStep!Init
<1> SUFFICES ASSUME Init PROVE OneStep!Init
  OBVIOUS
<1>1. TypeOK
  BY TypeInit DEF TypeInv
<1>2. Right \subseteq Address
  <2>1. ASSUME Target(Domain) # None PROVE AddressesOf(Target(Domain), Lookups) \subseteq Address
    BY <1>1, <2>1, TargetType, AddressesType
  <2> QED BY <2>1 DEF Right
<1>3. pc = "alias" /\ result = None
  BY DEF Init
<1>4. (~trouble /\ Findable) \in BOOLEAN
  OBVIOUS
<1> QED BY <1>2, <1>3, <1>4 DEF OneStep!Init

\* Every step is a step of it, or none.
LEMMA SeenStep ==
  ASSUME SeenInv, SeenInv', [Next]_vars
  PROVE  [OneStep!Next]_(OneStep!rvars)
<1> DEFINE sure == ~trouble /\ Findable
<1>1. UNCHANGED <<world, config>>
  BY FrameStep
<1>2. Right' = Right
  BY <1>1, RightSame
<1>3. Findable' = Findable
  BY <1>1, FindableSame
<1>4. sure' => sure
  BY <1>3, TroubleStays
<1>5. CASE pc = "done"
  <2>1. UNCHANGED vars
    BY <1>5, PendStep DEF SeenInv
  <2>2. UNCHANGED <<pc, result, trouble>>
    BY <2>1 DEF vars
  <2>3. sure' = sure
    BY <1>3, <2>2
  <2>4. (pc = "done")' = (pc = "done")
    BY <2>2
  <2> QED BY <1>2, <2>2, <2>3, <2>4 DEF OneStep!rvars
<1>6. CASE pc # "done" /\ pc' # "done"
  <2>1. result' = result /\ (pc = "done")' = (pc = "done")
    BY <1>6 DEF SeenInv, PendInv
  <2>2. CASE sure' = sure
    BY <1>2, <2>1, <2>2 DEF OneStep!rvars
  <2>3. CASE ~sure'
    BY <1>2, <1>6, <2>1, <2>3 DEF OneStep!Next, OneStep!Hitch
  <2> QED BY <1>4, <2>2, <2>3
<1>7. CASE pc # "done" /\ pc' = "done" /\ result' = None
  <2>1. ~sure'
    BY <1>7 DEF SeenInv, FindInv
  <2>2. result' = result
    BY <1>7 DEF SeenInv, PendInv
  <2> QED BY <1>2, <1>7, <2>1, <2>2 DEF OneStep!Next, OneStep!GiveUp
<1>8. CASE pc # "done" /\ pc' = "done" /\ result' # None
  <2>1. result' \in Right /\ result' \in Address
    BY <1>1, <1>8, ResultRight DEF SeenInv
  <2>2. trouble' => trouble
    BY <1>8, PendStep DEF SeenInv
  <2>3. sure' = sure
    BY <1>3, <1>4, <2>2
  <2> QED BY <1>2, <1>8, <2>1, <2>3 DEF OneStep!Next, OneStep!Find
<1> QED BY <1>5, <1>6, <1>7, <1>8

\* Every step of a resolution is a step of Resolver, or one its callers do not see:
\* they may rely on the latter, for any names, records, servers and failures.
THEOREM ImplementsOneStep == Spec => ImplementsResolver
<1>1. Init => SeenInv
  <2>1. Init => FindInv
    BY DEF Init, FindInv, Findable, Unfoldable, Racing
  <2>2. Init => FamilyInv /\ AuthorityInv /\ PendInv
    BY DEF Init, FamilyInv, InFamily, NoLookup, AuthorityInv, PendInv
  <2> QED BY <2>1, <2>2, TypeInit, RightInit DEF SeenInv
<1>2. SeenInv /\ [Next]_vars => SeenInv'
  BY TypeStep, FamilyStep, RightStep, AuthorityStep, FindStep, PendStep DEF SeenInv
<1>3. SeenInv /\ SeenInv' /\ [Next]_vars => [OneStep!Next]_(OneStep!rvars)
  BY SeenStep
<1> QED BY <1>1, <1>2, <1>3, SeenInit, PTL DEF Spec, ImplementsResolver, OneStep!Spec
----------------------------------------------------------------------------
(* Why a resolution ends.                                                   *)

\* The sets that are worked off are finite.
EndInv == IsFiniteSet(hosts) /\ IsFiniteSet(addrs)

\* A host has finitely many addresses.
LEMMA AddressesFinite ==
  ASSUME TypeOK, NEW n \in Names, NEW fs
  PROVE  IsFiniteSet(AddressesOf(n, fs))
<1> DEFINE both == {[host |-> n, fam |-> "A"]} \cup {[host |-> n, fam |-> "AAAA"]}
<1>1. IsFiniteSet(both)
  BY FS_Singleton, FS_AddElement
<1>2. world.fams[n] \subseteq Fams
  BY WorldFacts
<1>3. AddressesOf(n, fs) \in SUBSET both
  BY <1>2 DEF AddressesOf, Fams
<1> QED BY <1>1, <1>3, FS_Subset

\* So does an answer.
LEMMA AnswersFinite ==
  ASSUME TypeOK, NEW f \in Fams, NEW found \in Answers(f)
  PROVE  IsFiniteSet(found)
<1>1. Target(Asked) \in Names \cup {None}
  BY TargetType
<1>2. ASSUME Target(Asked) # None PROVE IsFiniteSet(AddressesOf(Target(Asked), {f}))
  BY <1>1, <1>2, AddressesFinite
<1> QED BY <1>2, FS_EmptySet DEF Answers

\* Every step keeps it.
LEMMA EndStep ==
  ASSUME TypeInv, EndInv, [Next]_vars
  PROVE  EndInv'
<1>1. ASSUME Return(None) PROVE EndInv'
  BY <1>1 DEF EndInv, Return, search
<1>2. ASSUME UNCHANGED <<hosts, addrs>> PROVE EndInv'
  BY <1>2 DEF EndInv
<1>3. ASSUME NEW found, IsFiniteSet(found), Deliver(found) PROVE EndInv'
  BY <1>3 DEF EndInv, Deliver, Return, search
<1>4. CASE QueryFails \/ UnfoldCNAME \/ NoHostLeft
  BY <1>1, <1>2, <1>4 DEF QueryFails, UnfoldCNAME, NoHostLeft
<1>5. ASSUME NEW error \in BOOLEAN, Unfolded(error) \/ NsTrim(error) PROVE EndInv'
  BY <1>1, <1>2, <1>5 DEF Unfolded, NsTrim
<1>6. CASE NsFound
  <2>1. Target(zone) \in DOMAIN NameServers
    BY <1>6, WorldFacts DEF NsFound, TypeInv
  <2> QED BY <1>6, <2>1, FiniteAssumption DEF NsFound, EndInv
<1>7. ASSUME NEW h \in Names, NextHost(h) PROVE EndInv'
  <2>1. IsFiniteSet(hosts \ {h})
    BY FS_RemoveElement DEF EndInv
  <2>2. IsFiniteSet(AddressesOf(h, Lookups))
    BY AddressesFinite DEF TypeInv
  <2>3. addrs' \in SUBSET AddressesOf(h, Lookups) \/ addrs' = addrs
    BY <1>7 DEF NextHost
  <2>4. IsFiniteSet(addrs')
    BY <2>2, <2>3, FS_Subset DEF EndInv
  <2> QED BY <1>7, <2>1, <2>4 DEF NextHost, EndInv
<1>8. CASE NextAddr
  <2>1. \A a : IsFiniteSet(addrs \ {a})
    BY FS_RemoveElement DEF EndInv
  <2> QED BY <1>8, <2>1 DEF NextAddr, EndInv
<1>9. ASSUME NEW error \in BOOLEAN, NEW f \in Fams, Answer(f, error) PROVE EndInv'
  <2>1. PICK found \in IF error THEN {{}} ELSE Answers(f) : Deliver(found)
    BY <1>9 DEF Answer
  <2>2. IsFiniteSet(found)
    BY <2>1, AnswersFinite, FS_EmptySet DEF TypeInv
  <2> QED BY <1>3, <2>1, <2>2
<1>10. ASSUME NEW f \in Fams, ServerFails(f) PROVE EndInv'
  BY <1>2, <1>10 DEF ServerFails, search
<1>11. CASE RaceClosed
  BY <1>3, <1>11, FS_EmptySet DEF RaceClosed
<1>12. CASE UNCHANGED vars
  BY <1>2, <1>12 DEF vars, search
<1> QED BY <1>4, <1>5, <1>6, <1>7, <1>8, <1>9, <1>10, <1>11, <1>12 DEF Next

\* How one tuple of numbers comes before another.
LEMMA BeforeAt ==
  ASSUME NEW a1, NEW a2, NEW a3, NEW a4, NEW a5,
         NEW b1, NEW b2, NEW b3, NEW b4, NEW b5,
         \/ a1 \in 0..(b1 - 1)
         \/ a1 = b1 /\ a2 \in 0..(b2 - 1)
         \/ a1 = b1 /\ a2 = b2 /\ a3 \in 0..(b3 - 1)
         \/ a1 = b1 /\ a2 = b2 /\ a3 = b3 /\ a4 \in 0..(b4 - 1)
         \/ a1 = b1 /\ a2 = b2 /\ a3 = b3 /\ a4 = b4 /\ a5 \in 0..(b5 - 1)
  PROVE  Before(<<a1, a2, a3, a4, a5>>, <<b1, b2, b3, b4, b5>>)
<1> DEFINE s == <<a1, a2, a3, a4, a5>>
           t == <<b1, b2, b3, b4, b5>>
<1>1. /\ s[1] = a1 /\ s[2] = a2 /\ s[3] = a3 /\ s[4] = a4 /\ s[5] = a5
      /\ t[1] = b1 /\ t[2] = b2 /\ t[3] = b3 /\ t[4] = b4 /\ t[5] = b5
  OBVIOUS
<1> HIDE DEF s, t
<1>2. PICK i \in 1..5 : s[i] \in 0..(t[i] - 1) /\ \A j \in 1..(i - 1) : s[j] = t[j]
  <2>1. CASE a1 \in 0..(b1 - 1)
    BY <1>1, <2>1
  <2>2. CASE a1 = b1 /\ a2 \in 0..(b2 - 1)
    BY <1>1, <2>2
  <2>3. CASE a1 = b1 /\ a2 = b2 /\ a3 \in 0..(b3 - 1)
    BY <1>1, <2>3
  <2>4. CASE a1 = b1 /\ a2 = b2 /\ a3 = b3 /\ a4 \in 0..(b4 - 1)
    BY <1>1, <2>4
  <2>5. CASE a1 = b1 /\ a2 = b2 /\ a3 = b3 /\ a4 = b4 /\ a5 \in 0..(b5 - 1)
    BY <1>1, <2>5
  <2> QED BY <2>1, <2>2, <2>3, <2>4, <2>5
<1> QED BY <1>2 DEF Before, s, t

\* The servers that may still be asked are counted by a number.
LEMMA UnaskedType ==
  ASSUME TypeInv
  PROVE  Unasked \in Nat
<1>1. \A f \in Fams : lookup[f] \in 0..ServerTotal
  BY DEF TypeInv, TypeOK
<1>2. ServerTotal \in Nat
  BY DEF TypeInv
<1>3. lookup["A"] \in 0..ServerTotal /\ lookup["AAAA"] \in 0..ServerTotal
  BY <1>1 DEF Fams
<1> QED BY <1>2, <1>3 DEF Unasked

\* A server that has failed leaves fewer.
LEMMA UnaskedLess ==
  ASSUME TypeInv, NEW f \in Fams, ServerFails(f), UNCHANGED <<world, config>>
  PROVE  Unasked' \in 0..(Unasked - 1)
<1>1. ServerTotal \in Nat \ {0} /\ ServerTotal' = ServerTotal
  BY DEF TypeInv, ServerTotal, config
<1>2. /\ lookup["A"] \in 0..ServerTotal /\ lookup["AAAA"] \in 0..ServerTotal
      /\ DOMAIN lookup = Fams
  BY DEF TypeInv, TypeOK, Fams
<1>3. ServerCount \in Nat /\ ServerCount <= ServerTotal
  BY <1>1 DEF ServerCount
<1> DEFINE next == IF lookup[f] < ServerCount THEN lookup[f] + 1 ELSE 0
<1>4. lookup' = [lookup EXCEPT ![f] = next] /\ lookup[f] # 0
  BY DEF ServerFails
<1>5. next = 0 \/ (next = lookup[f] + 1 /\ next <= ServerTotal)
  BY <1>1, <1>2, <1>3 DEF Fams
<1> HIDE DEF next
<1>6. CASE f = "A"
  <2>1. lookup'["A"] = next /\ lookup'["AAAA"] = lookup["AAAA"]
    BY <1>2, <1>4, <1>6 DEF Fams
  <2> QED BY <1>1, <1>2, <1>4, <1>5, <1>6, <2>1 DEF Unasked
<1>7. CASE f = "AAAA"
  <2>1. lookup'["AAAA"] = next /\ lookup'["A"] = lookup["A"]
    BY <1>2, <1>4, <1>7 DEF Fams
  <2> QED BY <1>1, <1>2, <1>4, <1>5, <1>7, <2>1 DEF Unasked
<1> QED BY <1>6, <1>7 DEF Fams

\* Every step brings the end nearer.
LEMMA NearerStep ==
  ASSUME TypeInv, EndInv, Next, TypeInv', EndInv'
  PROVE  Before(Remaining', Remaining)
<1>1. /\ pc = "alias" => Remaining = <<3, depth, 0, 0, 0>>
      /\ pc = "zone" => Remaining = <<2, Length[zone], 0, 0, 0>>
      /\ pc = "hosts" => Remaining = <<1, Cardinality(hosts), 0, 0, 0>>
      /\ pc = "hostRace" => Remaining = <<1, Cardinality(hosts), 2, 0, Unasked>>
      /\ pc = "addrs" => Remaining = <<1, Cardinality(hosts), 1, 2 * Cardinality(addrs), 0>>
      /\ pc = "addrRace" =>
           Remaining = <<1, Cardinality(hosts), 1, 2 * Cardinality(addrs) + 1, Unasked>>
  BY DEF Remaining
<1>2. /\ pc' = "alias" => Remaining' = <<3, depth', 0, 0, 0>>
      /\ pc' = "zone" => Remaining' = <<2, Length[zone'], 0, 0, 0>>
      /\ pc' = "hosts" => Remaining' = <<1, Cardinality(hosts'), 0, 0, 0>>
      /\ pc' = "hostRace" => Remaining' = <<1, Cardinality(hosts'), 2, 0, Unasked'>>
      /\ pc' = "addrs" => Remaining' = <<1, Cardinality(hosts'), 1, 2 * Cardinality(addrs'), 0>>
      /\ pc' = "addrRace" =>
           Remaining' = <<1, Cardinality(hosts'), 1, 2 * Cardinality(addrs') + 1, Unasked'>>
      /\ pc' = "done" => Remaining' = <<0, 0, 0, 0, 0>>
  BY DEF Remaining
<1>3. /\ Cardinality(hosts) \in Nat /\ Cardinality(hosts') \in Nat
      /\ Cardinality(addrs) \in Nat /\ Cardinality(addrs') \in Nat
      /\ depth \in Nat /\ depth' \in Nat
  BY FS_CardinalityType, LimitAssumption DEF EndInv, TypeInv, TypeOK
<1>4. Unasked \in Nat
  BY UnaskedType
<1>5. UNCHANGED <<world, config>>
  BY FrameStep
<1>6. ASSUME pc # "done", pc' = "done" PROVE Before(Remaining', Remaining)
  <2>1. pc \in {"alias", "zone", "hosts", "hostRace", "addrs", "addrRace"}
    BY <1>6 DEF TypeInv, TypeOK
  <2>2. 0 \in 0..(3 - 1) /\ 0 \in 0..(2 - 1) /\ 0 \in 0..(1 - 1)
    OBVIOUS
  <2> QED BY <1>1, <1>2, <1>6, <2>1, <2>2, BeforeAt
<1>7. CASE QueryFails \/ NoHostLeft
  BY <1>6, <1>7 DEF QueryFails, NoHostLeft, Return
<1>8. CASE UnfoldCNAME
  <2>1. CASE pc' = "done"
    BY <1>6, <1>8, <2>1 DEF UnfoldCNAME
  <2>2. CASE pc' = "alias"
    <3>1. pc = "alias" /\ depth' \in 0..(depth - 1)
      BY <1>3, <1>8 DEF UnfoldCNAME
    <3> QED BY <1>1, <1>2, <2>2, <3>1, BeforeAt
  <2> QED BY <1>8, <2>1, <2>2 DEF UnfoldCNAME
<1>9. ASSUME NEW error \in BOOLEAN, Unfolded(error) PROVE Before(Remaining', Remaining)
  <2>1. pc = "alias" /\ pc' = "zone" /\ 2 \in 0..(3 - 1)
    BY <1>9 DEF Unfolded
  <2> QED BY <1>1, <1>2, <2>1, BeforeAt
<1>10. ASSUME NEW error \in BOOLEAN, NsTrim(error) PROVE Before(Remaining', Remaining)
  <2>1. CASE Return(None)
    BY <1>6, <1>10, <2>1 DEF NsTrim, Return
  <2>2. CASE /\ \/ zone' \in {s \in SoaNames(zone) : Length[s] < Length[zone]}
                \/ Parent[zone] # None /\ zone' = Parent[zone]
             /\ pc' = pc
    <3>1. pc = "zone" /\ zone \in Names /\ zone' \in Names
      BY <1>10, <2>2, SoaType, NameAssumption DEF NsTrim, TypeInv, TypeOK
    <3>2. Length[zone'] < Length[zone]
      BY <2>2, <3>1, LengthAssumption
    <3>3. Length[zone'] \in 0..(Length[zone] - 1)
      BY <3>1, <3>2, LengthAssumption
    <3> QED BY <1>1, <1>2, <2>2, <3>1, <3>3, BeforeAt
  <2> QED BY <1>10, <2>1, <2>2 DEF NsTrim
<1>11. CASE NsFound
  <2>1. pc = "zone" /\ pc' = "hosts" /\ 1 \in 0..(2 - 1)
    BY <1>11 DEF NsFound
  <2> QED BY <1>1, <1>2, <2>1, BeforeAt
<1>12. ASSUME NEW h \in Names, NextHost(h) PROVE Before(Remaining', Remaining)
  <2>1. pc = "hosts" /\ h \in hosts /\ hosts' = hosts \ {h} /\ pc' \in {"addrs", "hostRace"}
    BY <1>12 DEF NextHost
  <2>2. Cardinality(hosts') \in 0..(Cardinality(hosts) - 1)
    BY <1>3, <2>1, FS_RemoveElement DEF EndInv
  <2>3. CASE pc' = "addrs"
    BY <1>1, <1>2, <2>1, <2>2, <2>3, BeforeAt
  <2>4. CASE pc' = "hostRace"
    BY <1>1, <1>2, <2>1, <2>2, <2>4, BeforeAt
  <2> QED BY <2>1, <2>3, <2>4
<1>13. CASE NextAddr
  <2>1. pc = "addrs" /\ hosts' = hosts
    BY <1>13 DEF NextAddr
  <2>2. CASE pc' = "hosts"
    <3>1. 0 \in 0..(1 - 1)
      OBVIOUS
    <3> QED BY <1>1, <1>2, <2>1, <2>2, <3>1, BeforeAt
  <2>3. ASSUME NEW a \in addrs, addrs' = addrs \ {a}, pc' = "addrRace"
        PROVE  Before(Remaining', Remaining)
    <3>1. Cardinality(addrs') = Cardinality(addrs) - 1
      BY <2>3, FS_RemoveElement DEF EndInv
    <3>2. 2 * Cardinality(addrs') + 1 \in 0..(2 * Cardinality(addrs) - 1)
      BY <1>3, <3>1
    <3> QED BY <1>1, <1>2, <2>1, <2>3, <3>2, BeforeAt
  <2> QED BY <1>13, <2>2, <2>3 DEF NextAddr
<1>14. ASSUME NEW found, Racing, Deliver(found) PROVE Before(Remaining', Remaining)
  <2>1. CASE pc = "hostRace"
    <3>1. pc' = "addrs" /\ hosts' = hosts /\ 1 \in 0..(2 - 1)
      BY <1>14, <2>1 DEF Deliver
    <3> QED BY <1>1, <1>2, <2>1, <3>1, BeforeAt
  <2>2. CASE pc = "addrRace"
    <3>1. CASE pc' = "done"
      BY <1>6, <2>2, <3>1
    <3>2. CASE pc' = "addrs" /\ UNCHANGED <<hosts, addrs>>
      <4>1. 2 * Cardinality(addrs') \in 0..(2 * Cardinality(addrs) + 1 - 1)
        BY <1>3, <3>2
      <4> QED BY <1>1, <1>2, <2>2, <3>2, <4>1, BeforeAt
    <3> QED BY <1>14, <2>2, <3>1, <3>2 DEF Deliver, Return, search
  <2> QED BY <1>14, <2>1, <2>2 DEF Racing
<1>15. ASSUME NEW error \in BOOLEAN, NEW f \in Fams, Answer(f, error)
       PROVE  Before(Remaining', Remaining)
  BY <1>14, <1>15 DEF Answer
<1>16. ASSUME NEW f \in Fams, ServerFails(f) PROVE Before(Remaining', Remaining)
  <2>1. Unasked' \in 0..(Unasked - 1)
    BY <1>5, <1>16, UnaskedLess
  <2>2. pc' = pc /\ hosts' = hosts /\ addrs' = addrs
    BY <1>16 DEF ServerFails, search
  <2>3. CASE pc = "hostRace"
    BY <1>1, <1>2, <2>1, <2>2, <2>3, BeforeAt
  <2>4. CASE pc = "addrRace"
    BY <1>1, <1>2, <2>1, <2>2, <2>4, BeforeAt
  <2> QED BY <1>16, <2>3, <2>4 DEF ServerFails, Racing
<1>17. CASE RaceClosed
  BY <1>14, <1>17 DEF RaceClosed
<1> QED BY <1>7, <1>8, <1>9, <1>10, <1>11, <1>12, <1>13, <1>15, <1>16, <1>17 DEF Next

\* No step leads a resolution round in a circle: CNAMEs, labels, name servers,
\* addresses and the servers of a lookup are each worked off, for any number of
\* them, whatever fails and whatever the records say.
THEOREM EndComesNearer == Spec => NearerEnd
<1>1. Init => EndInv
  BY FS_EmptySet DEF Init, EndInv
<1>2. TypeInv /\ EndInv /\ [Next]_vars => TypeInv' /\ EndInv'
  BY TypeStep, EndStep
<1>3. TypeInv /\ EndInv /\ [Next]_vars /\ TypeInv' /\ EndInv' => [Before(Remaining', Remaining)]_vars
  BY NearerStep
<1> QED BY <1>1, <1>2, <1>3, TypeHolds, PTL DEF Spec, NearerEnd
==============================================================================
