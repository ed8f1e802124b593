------------------------- MODULE ConfigParseProofs -------------------------
(* The agreement of the readers of ConfigParse, for files of any length and *)
(* any keys, names and settings.                                            *)
EXTENDS ConfigParse, SequenceTheorems, TLAPS

Peers == [key : Keys \cup {Lax, Empty}, endpoint : Names \cup {Empty}]

\* What a line is made of.
LEMMA LineFacts ==
  ASSUME NEW line \in Lines
  PROVE  /\ line.head \in Headers \cup Directives \cup {"blank", "text"}
         /\ line.comment \in {"none", "plain", "equals"}
         /\ line.head = "PublicKey" => line.value \in KeyTexts \cup {Empty}
         /\ line.head = "Endpoint" => line.value \in Names
         /\ line.head = "Interface directive" => line.value \in Settings \cup {Bad}
<1>1. PICK h \in Headers \cup Directives \cup {"blank", "text"} :
        line \in [head : {h}, value : Values(h), comment : Comments(h)]
  BY DEF Lines
<1>2. line.head = h /\ line.value \in Values(h) /\ line.comment \in {"none", "plain", "equals"}
  BY <1>1 DEF Comments
<1> QED BY <1>2 DEF Values

\* UnmarshalText keeps its type on a line that it takes.
LEMMA FullType ==
  ASSUME full \in [state : ParseState, inter : Seq(Settings), psk : BOOLEAN,
                  peers : Seq(Peers)],
         full.state = "peer" => full.peers # <<>>,
         NEW line \in Lines, NEW resolves \in BOOLEAN, Read(line, resolves)
  PROVE  /\ full' \in [state : ParseState, inter : Seq(Settings), psk : BOOLEAN,
                       peers : Seq(Peers)]
         /\ full'.state = "peer" => full'.peers # <<>>
<1>0. /\ full \in [state : ParseState, inter : Seq(Settings), psk : BOOLEAN, peers : Seq(Peers)]
      /\ Parses(line) /\ full' = UnmarshalText(line, resolves)
  BY DEF Read
<1>1. CASE line.head = "blank"
  BY <1>0, <1>1 DEF UnmarshalText
<1>2. CASE line.head = "[Interface]"
  BY <1>0, <1>2 DEF UnmarshalText, ParseState
<1>3. CASE line.head = "[Peer]"
  <2>1. NoPeer \in Peers
    BY DEF NoPeer, Peers
  <2>2. full.peers \in Seq(Peers)
    BY <1>0
  <2> DEFINE longer == Append(full.peers, NoPeer)
  <2>3. longer \in Seq(Peers) /\ longer # <<>>
    BY <2>1, <2>2, AppendProperties
  <2>4. full' = [full EXCEPT !.state = "peer", !.peers = longer, !.psk = FALSE]
    BY <1>0, <1>3 DEF UnmarshalText
  <2> HIDE DEF longer
  <2> QED BY <1>0, <2>3, <2>4 DEF ParseState
<1>4. CASE line.head \notin Headers \cup {"blank"} /\ full.state = "inter"
  <2>1. line.head = "Interface directive" /\ line.value \in Settings
    BY <1>0, <1>4, LineFacts DEF Parses, InterfaceLineParses
  <2>2. full' = [full EXCEPT !.inter = Append(@, line.value)]
    BY <1>0, <1>4, <2>1 DEF UnmarshalText
  <2>3. Append(full.inter, line.value) \in Seq(Settings)
    BY <1>0, <2>1, AppendProperties
  <2>4. full' \in [state : ParseState, inter : Seq(Settings), psk : BOOLEAN, peers : Seq(Peers)]
    BY <1>0, <2>2, <2>3
  <2>5. full'.state = "inter"
    BY <1>0, <1>4, <2>2
  <2> QED BY <2>4, <2>5
<1>5. CASE line.head \notin Headers \cup {"blank"} /\ full.state # "inter"
  <2>1. full.state = "peer" /\ PeerLineParses(line)
    BY <1>0, <1>5 DEF Parses, Headers
  <2>2. CASE line.head = "PresharedKey"
    BY <1>0, <1>5, <2>1, <2>2 DEF UnmarshalText
  <2>3. CASE line.head # "PresharedKey"
    <3> DEFINE k == Len(full.peers)
    <3>1. full.peers \in Seq(Peers) /\ k \in 1..Len(full.peers) /\ full.peers[k] \in Peers
      BY <1>0, <2>1
    <3>2. ParsePeerLine(full.peers[k], line, resolves) \in Peers
      BY <2>1, <3>1, LineFacts DEF ParsePeerLine, PeerLineParses, Peers, KeyTexts
    <3>3. full' = [full EXCEPT !.peers = [full.peers EXCEPT
                                            ![k] = ParsePeerLine(full.peers[k], line, resolves)]]
      BY <1>0, <1>5, <2>1, <2>3 DEF UnmarshalText, Headers
    <3>4. [full.peers EXCEPT ![k] = ParsePeerLine(full.peers[k], line, resolves)] \in Seq(Peers) \ {<<>>}
      BY <3>1, <3>2
    <3> QED BY <1>0, <3>3, <3>4
  <2> QED BY <2>2, <2>3
<1> QED BY <1>1, <1>2, <1>3, <1>4, <1>5 DEF Headers
----------------------------------------------------------------------------

\* The inductive invariant of the two readers of up and down: they are in the
\* same state with the same [Interface] part, and in a [Peer] section there is a
\* peer for UnmarshalText to write to.
ParsersAgree ==
  /\ full \in [state : ParseState, inter : Seq(Settings), psk : BOOLEAN, peers : Seq(Peers)]
  /\ lite \in [ok : BOOLEAN, state : ParseState, inter : Seq(Settings)]
  /\ full.state = "peer" => full.peers # <<>>
  /\ lite.ok /\ lite.state = full.state /\ lite.inter = full.inter

\* UnmarshalTextNoPeer takes every line that UnmarshalText takes, with the same
\* effect on the state and the [Interface] part.
LEMMA LiteFollowsFull ==
  ASSUME ParsersAgree, NEW line \in Lines, NEW resolves \in BOOLEAN, Read(line, resolves)
  PROVE  /\ lite' \in [ok : BOOLEAN, state : ParseState, inter : Seq(Settings)]
         /\ lite'.ok /\ lite'.state = full'.state /\ lite'.inter = full'.inter
<1>0. /\ full \in [state : ParseState, inter : Seq(Settings), psk : BOOLEAN, peers : Seq(Peers)]
      /\ lite \in [ok : BOOLEAN, state : ParseState, inter : Seq(Settings)]
      /\ lite.ok /\ lite.state = full.state /\ lite.inter = full.inter
      /\ Parses(line) /\ full' = UnmarshalText(line, resolves)
      /\ lite' = UnmarshalTextNoPeer(line)
  BY DEF ParsersAgree, Read
<1>1. CASE line.head = "blank"
  BY <1>0, <1>1 DEF UnmarshalText, UnmarshalTextNoPeer, RejectedLite, InterfaceLineParses, Directives
<1>2. CASE line.head = "[Interface]"
  <2>1. /\ lite' = [lite EXCEPT !.state = "inter"]
        /\ full' = [full EXCEPT !.state = "inter"]
    BY <1>0, <1>2 DEF UnmarshalText, UnmarshalTextNoPeer, RejectedLite, InterfaceLineParses, Directives
  <2> QED BY <1>0, <2>1 DEF ParseState
<1>3. CASE line.head = "[Peer]"
  <2>1. lite' = [lite EXCEPT !.state = "peer"]
    BY <1>0, <1>3 DEF UnmarshalTextNoPeer, RejectedLite, InterfaceLineParses, Directives
  <2>2. full'.state = "peer" /\ full'.inter = full.inter
    BY <1>0, <1>3 DEF UnmarshalText
  <2> QED BY <1>0, <2>1, <2>2 DEF ParseState
<1>4. CASE line.head \notin Headers \cup {"blank"} /\ full.state = "inter"
  <2>1. line.head = "Interface directive" /\ line.value \in Settings /\ line.value # Bad
    BY <1>0, <1>4, LineFacts DEF Parses, InterfaceLineParses
  <2>2. full' = [full EXCEPT !.inter = Append(@, line.value)]
    BY <1>0, <1>4, <2>1 DEF UnmarshalText
  <2>3. lite' = [lite EXCEPT !.inter = Append(@, line.value)]
    BY <1>0, <1>4, <2>1 DEF UnmarshalTextNoPeer, RejectedLite, InterfaceLineParses, Directives
  <2>4. Append(full.inter, line.value) \in Seq(Settings)
    BY <1>0, <2>1, AppendProperties
  <2> QED BY <1>0, <2>2, <2>3, <2>4
<1>5. CASE line.head \notin Headers \cup {"blank"} /\ full.state # "inter"
  <2>1. full.state = "peer" /\ line.head \in Directives
    BY <1>0, <1>5 DEF Parses, PeerLineParses, Headers, Directives
  <2>2. lite' = lite
    BY <1>0, <1>5, <2>1 DEF UnmarshalTextNoPeer, RejectedLite, InterfaceLineParses, Headers
  <2>3. full'.state = full.state /\ full'.inter = full.inter
    BY <1>0, <1>5, <2>1 DEF UnmarshalText, Headers
  <2> QED BY <1>0, <2>2, <2>3
<1> QED BY <1>1, <1>2, <1>3, <1>4, <1>5 DEF Headers

\* The inductive invariant of the two readers holds.
LEMMA ReadersAgree == Spec => []ParsersAgree
<1>1. Init => ParsersAgree
  BY DEF Init, ParsersAgree, NewConfig, NewLite, ParseState
<1>2. ParsersAgree /\ [Next]_vars => ParsersAgree'
  <2> SUFFICES ASSUME ParsersAgree, [Next]_vars PROVE ParsersAgree'
    OBVIOUS
  <2>1. CASE NextFile
    BY <2>1 DEF NextFile, ParsersAgree, NewConfig, NewLite, ParseState
  <2>2. ASSUME NEW line \in Lines, NEW resolves \in {line.head = "Endpoint", FALSE},
               Read(line, resolves)
        PROVE  ParsersAgree'
    BY <2>2, FullType, LiteFollowsFull DEF ParsersAgree
  <2>3. CASE UNCHANGED vars
    BY <2>3 DEF vars, readers, ParsersAgree
  <2> QED BY <2>1, <2>2, <2>3 DEF Next
<1> QED BY <1>1, <1>2, PTL DEF Spec

\* A file that up has accepted can be taken down, with the same [Interface] part:
\* for files of any length.
THEOREM DownAgreesWithUp == Spec => []DownReadsWhatUpRead
<1>1. ParsersAgree => DownReadsWhatUpRead
  BY DEF ParsersAgree, DownReadsWhatUpRead
<1> QED BY <1>1, ReadersAgree, PTL
----------------------------------------------------------------------------

\* The types of the scanner and of what the file names.
ScanType ==
  /\ scan \in [ok : BOOLEAN, state : ParseState,
             pubkey : KeyTexts \cup {Empty, Commented},
             endpoint : Names \cup {Empty, Commented},
             found : [Keys -> Names \cup {Empty, Commented}]]
  /\ section \in [keys : SUBSET Keys, endpoints : SUBSET Names]
  /\ named \subseteq Keys \X Names
  /\ orderly \in BOOLEAN /\ comments \in BOOLEAN /\ hidden \in BOOLEAN

\* The scanner keeps its type on a line that UnmarshalText takes.
LEMMA ScanKeepsType ==
  ASSUME ScanType, NEW line \in Lines, NEW resolves \in BOOLEAN, Read(line, resolves)
  PROVE  ScanType'
<1>0. /\ scan' = IF scan.ok THEN GetUnresolvedEndpoints(line) ELSE scan
      /\ Note(line)
      /\ line.head = "PublicKey" => line.value \in KeyTexts \cup {Empty}
      /\ line.head = "Endpoint" => line.value \in Names
  BY LineFacts DEF Read
<1> DEFINE ScanRecords == [ok : BOOLEAN, state : ParseState,
                           pubkey : KeyTexts \cup {Empty, Commented},
                           endpoint : Names \cup {Empty, Commented},
                           found : [Keys -> Names \cup {Empty, Commented}]]
<1>1. scan \in ScanRecords
  BY DEF ScanType
<1>2. ScanDirective(line) \in ScanRecords
  BY <1>0, <1>1 DEF ScanDirective, RejectedScan, NewScan, ParseState
<1>3. ScanHeader(line.head) \in ScanRecords
  BY <1>1 DEF ScanHeader, ParseState
<1>4. RejectedScan \in ScanRecords
  BY DEF RejectedScan, NewScan, ParseState
<1>5. scan' \in ScanRecords
  BY <1>0, <1>1, <1>2, <1>3, <1>4 DEF GetUnresolvedEndpoints
<1>6. section' \in [keys : SUBSET Keys, endpoints : SUBSET Names]
  BY <1>0 DEF ScanType, Note, NoSection
<1>7. named' \subseteq Keys \X Names
  BY <1>0, <1>6 DEF ScanType, Note
<1>8. orderly' \in BOOLEAN /\ comments' \in BOOLEAN /\ hidden' \in BOOLEAN
  BY <1>0 DEF ScanType, Note
<1> QED BY <1>5, <1>6, <1>7, <1>8 DEF ScanType

\* The type of the scanner is an invariant.
LEMMA ScanTyped == Spec => []ScanType
<1>1. Init => ScanType
  <2> SUFFICES ASSUME Init PROVE ScanType
    OBVIOUS
  <2>1. scan = NewScan /\ section = NoSection /\ named = {}
    BY DEF Init
  <2>2. orderly \in BOOLEAN /\ comments \in BOOLEAN /\ hidden \in BOOLEAN
    BY DEF Init
  <2> QED BY <2>1, <2>2 DEF ScanType, NewScan, NoSection, ParseState
<1>2. ScanType /\ [Next]_vars => ScanType'
  <2> SUFFICES ASSUME ScanType, [Next]_vars PROVE ScanType'
    OBVIOUS
  <2>1. CASE NextFile
    BY <2>1 DEF NextFile, ScanType, NewScan, NoSection, ParseState
  <2>2. ASSUME NEW line \in Lines, NEW resolves \in {line.head = "Endpoint", FALSE},
               Read(line, resolves)
        PROVE  ScanType'
    BY <2>2, ScanKeepsType
  <2>3. CASE UNCHANGED vars
    BY <2>3 DEF vars, readers, history, ScanType
  <2> QED BY <2>1, <2>2, <2>3 DEF Next
<1> QED BY <1>1, <1>2, PTL DEF Spec

\* Every reader keeps its types, whatever the file: no list is written outside its
\* peers and no text that is not a key is recorded.
THEOREM TypeCorrect == Spec => []TypeOK
<1>1. ParsersAgree /\ ScanType => TypeOK
  BY DEF ParsersAgree, ScanType, TypeOK, Peers
<1> QED BY <1>1, ReadersAgree, ScanTyped, PTL
----------------------------------------------------------------------------

\* The pair that the scanner has begun comes from the section that UnmarshalText is
\* in, and what it has recorded from one section.
ScanSound ==
  /\ scan.state = "peer" => full.state = "peer"
  /\ scan.state = "peer" /\ scan.pubkey \in Keys => scan.pubkey \in section.keys
  /\ scan.state = "peer" /\ scan.endpoint \in Names => scan.endpoint \in section.endpoints
  /\ \A k \in Keys : scan.found[k] \in Names => <<k, scan.found[k]>> \in named

\* The inductive invariant of the scanner, while no header was hidden from it.
ScanInv == scan.ok /\ ~hidden => ScanSound

\* A directive in a [Peer] section keeps it.
LEMMA DirectiveSound ==
  ASSUME ParsersAgree, ScanType, ScanSound, NEW line \in Lines, NEW resolves \in BOOLEAN,
         Read(line, resolves), line.head \in Directives,
         scan.state = "peer", scan.ok, scan' = ScanDirective(line), scan'.ok
  PROVE  ScanSound'
<1> DEFINE text == IF line.comment = "none" THEN line.value ELSE Commented
           pubkey == IF line.head = "PublicKey" THEN text ELSE scan.pubkey
           endpoint == IF line.head = "Endpoint" THEN text ELSE scan.endpoint
<1>0. /\ Note(line) /\ full' = UnmarshalText(line, resolves) /\ Parses(line)
      /\ line.head = "PublicKey" => line.value \in KeyTexts \cup {Empty}
      /\ line.head = "Endpoint" => line.value \in Names
  BY LineFacts DEF Read
<1>1. full.state = "peer" /\ full'.state = "peer"
  BY <1>0 DEF ParsersAgree, ScanSound, UnmarshalText, Directives
<1>2. pubkey \in Keys => pubkey \in section'.keys
  BY <1>0, KeyAssumption DEF ScanSound, ScanType, Note, Directives
<1>3. endpoint \in Names => endpoint \in section'.endpoints
  BY <1>0, KeyAssumption DEF ScanSound, ScanType, Note, Directives
<1>4. named' = named \cup (section'.keys \X section'.endpoints)
  BY <1>0 DEF Note
<1>5. CASE Empty \in {pubkey, endpoint}
  <2>1. scan' = [scan EXCEPT !.pubkey = pubkey, !.endpoint = endpoint]
    BY <1>5 DEF ScanDirective
  <2> HIDE DEF pubkey, endpoint
  <2> QED BY <1>1, <1>2, <1>3, <1>4, <2>1 DEF ScanSound, ScanType
<1>6. CASE Empty \notin {pubkey, endpoint}
  <2>1. /\ pubkey \in Keys
        /\ scan' = [scan EXCEPT !.found[pubkey] = endpoint, !.pubkey = Empty, !.endpoint = Empty]
    BY <1>6 DEF ScanDirective, RejectedScan, NewScan
  <2> HIDE DEF pubkey, endpoint
  <2>2. ASSUME NEW k \in Keys, scan'.found[k] \in Names
        PROVE  <<k, scan'.found[k]>> \in named'
    BY <1>2, <1>3, <1>4, <2>1, <2>2 DEF ScanSound, ScanType
  <2>3. scan'.pubkey = Empty /\ scan'.endpoint = Empty /\ scan'.state = "peer"
    BY <2>1 DEF ScanType
  <2> QED BY <1>1, <2>2, <2>3, KeyAssumption DEF ScanSound
<1> QED BY <1>5, <1>6

\* A line keeps it, unless it hides a header from the scanner.
LEMMA LineSound ==
  ASSUME ParsersAgree, ScanType, ScanInv, NEW line \in Lines, NEW resolves \in BOOLEAN,
         Read(line, resolves)
  PROVE  ScanInv'
<1> SUFFICES ASSUME scan'.ok, ~hidden' PROVE ScanSound'
  BY DEF ScanInv
<1>0. /\ Note(line) /\ full' = UnmarshalText(line, resolves) /\ Parses(line)
      /\ scan' = GetUnresolvedEndpoints(line)
  BY DEF Read
<1>1. scan.ok /\ ~hidden /\ ScanSound
  <2>1. ~hidden
    BY <1>0 DEF ScanType, Note
  <2>2. scan.ok
    BY DEF Read
  <2> QED BY <2>1, <2>2 DEF ScanInv
<1>2. ~RejectedScan.ok
  BY DEF RejectedScan, NewScan
<1>3. named \subseteq named'
  BY <1>0 DEF Note
<1>4. CASE line.head = "blank"
  <2>1. full' = full /\ section' = section
    BY <1>0, <1>4 DEF UnmarshalText, Note
  <2>2. scan' = scan
    BY <1>0, <1>4 DEF GetUnresolvedEndpoints, HasEquals, Headers, Directives
  <2> QED BY <1>1, <1>3, <2>1, <2>2 DEF ScanSound
<1>5. CASE line.head = "[Interface]"
  <2>1. CASE line.comment = "none"
    <3>1. scan' = [scan EXCEPT !.state = "inter"]
      BY <1>0, <1>1, <1>5, <2>1 DEF GetUnresolvedEndpoints, ScanHeader, Headers
    <3> QED BY <1>1, <1>3, <3>1 DEF ScanSound, ScanType
  <2>2. CASE line.comment # "none"
    <3>1. ~HasEquals(line)
      BY <1>0, <1>5, <2>2 DEF Note, HasEquals, Headers, Directives
    <3>2. scan' = scan /\ scan.state # "peer"
      BY <1>0, <1>1, <1>2, <1>5, <2>2, <3>1 DEF GetUnresolvedEndpoints
    <3> QED BY <1>1, <1>3, <3>2 DEF ScanSound
  <2> QED BY <2>1, <2>2
<1>6. CASE line.head = "[Peer]"
  <2>0. full'.state = "peer"
    BY <1>0, <1>6 DEF ParsersAgree, UnmarshalText
  <2>1. CASE line.comment = "none"
    <3>1. scan' = [scan EXCEPT !.state = "peer", !.pubkey = Empty, !.endpoint = Empty]
      BY <1>0, <1>1, <1>6, <2>1 DEF GetUnresolvedEndpoints, ScanHeader, Headers
    <3> QED BY <1>1, <1>3, <2>0, <3>1, KeyAssumption DEF ScanSound, ScanType
  <2>2. CASE line.comment # "none"
    <3>1. ~HasEquals(line)
      BY <1>0, <1>6, <2>2 DEF Note, HasEquals, Headers, Directives
    <3>2. scan' = scan /\ scan.state # "peer"
      BY <1>0, <1>1, <1>2, <1>6, <2>2, <3>1 DEF GetUnresolvedEndpoints
    <3> QED BY <1>1, <1>3, <3>2 DEF ScanSound
  <2> QED BY <2>1, <2>2
<1>7. CASE line.head \notin Headers \cup {"blank"} /\ scan.state # "peer"
  <2>1. scan' = scan
    BY <1>0, <1>1, <1>7 DEF GetUnresolvedEndpoints, HasEquals
  <2> QED BY <1>1, <1>3, <1>7, <2>1 DEF ScanSound
<1>8. CASE line.head \notin Headers \cup {"blank"} /\ scan.state = "peer"
  <2>1. full.state = "peer" /\ line.head \in Directives
    BY <1>0, <1>1, <1>8 DEF ScanSound, Parses, PeerLineParses, Headers, Directives
  <2>2. scan' = ScanDirective(line)
    BY <1>0, <1>1, <1>8, <2>1 DEF GetUnresolvedEndpoints, HasEquals
  <2> QED BY <1>1, <1>8, <2>1, <2>2, DirectiveSound
<1> QED BY <1>4, <1>5, <1>6, <1>7, <1>8 DEF Headers

\* No name is recorded for the key of another section, in files of any length,
\* orderly or not.
THEOREM NoForeignPair == Spec => []PairsFromOneSection
<1>1. Init => ScanInv
  BY KeyAssumption DEF Init, ScanInv, ScanSound, NewScan
<1>2. ParsersAgree /\ ScanType /\ ScanInv /\ [Next]_vars => ScanInv'
  <2> SUFFICES ASSUME ParsersAgree, ScanType, ScanInv, [Next]_vars PROVE ScanInv'
    OBVIOUS
  <2>1. CASE NextFile
    BY <2>1, KeyAssumption DEF NextFile, ScanInv, ScanSound, NewScan
  <2>2. ASSUME NEW line \in Lines, NEW resolves \in {line.head = "Endpoint", FALSE},
               Read(line, resolves)
        PROVE  ScanInv'
    BY <2>2, LineSound
  <2>3. CASE UNCHANGED vars
    BY <2>3 DEF vars, readers, history, ScanInv, ScanSound
  <2> QED BY <2>1, <2>2, <2>3 DEF Next
<1>3. ScanInv => PairsFromOneSection
  BY DEF ScanInv, ScanSound, PairsFromOneSection
<1> QED BY <1>1, <1>2, <1>3, ReadersAgree, ScanTyped, PTL DEF Spec
----------------------------------------------------------------------------

\* The scanner has recorded what the file names.
FoundNamed ==
  \A k \in Keys, n \in Names : scan.found[k] = n <=> <<k, n>> \in named

\* What the file names has a peer.
NamedHasPeer ==
  \A k \in Keys, n \in Names :
    <<k, n>> \in named => \E i \in DOMAIN full.peers : full.peers[i].key = k

\* The endpoint of every peer has been recorded.
PeersFound ==
  \A i \in DOMAIN full.peers :
    LET p == full.peers[i]
    IN /\ p.key # Lax
       /\ p.endpoint # Empty /\ p.key # Empty => scan.found[p.key] = p.endpoint

\* What the two readers have found is the same, in the open section as in those
\* before it.
NamesSame ==
  /\ scan.ok /\ scan.state = full.state
  /\ section.keys \X section.endpoints \subseteq named
  /\ FoundNamed /\ NamedHasPeer /\ PeersFound

\* How far the pair of the open section is: not begun, the key first, the endpoint
\* first, complete.
OpenPair(last) ==
  \/ /\ section.keys = {} /\ section.endpoints = {}
     /\ scan.pubkey = Empty /\ scan.endpoint = Empty
     /\ last = NoPeer
  \/ /\ section.keys = {last.key} /\ section.endpoints = {}
     /\ scan.pubkey = last.key /\ scan.endpoint = Empty
     /\ last.endpoint = Empty /\ last.key \in Keys
     /\ \A n \in Names : <<last.key, n>> \notin named
  \/ /\ section.keys = {} /\ scan.pubkey = Empty
     /\ last.key = Empty
     /\ scan.endpoint \in Names /\ section.endpoints = {scan.endpoint}
     /\ last.endpoint \in {scan.endpoint, Empty}
  \/ /\ section.keys = {last.key} /\ section.endpoints # {}
     /\ scan.pubkey = Empty /\ scan.endpoint = Empty
     /\ last.key \in Keys

\* The inductive invariant behind NamesFound.
NamesInv ==
  orderly /\ ~comments =>
    NamesSame /\ (full.state = "peer" => OpenPair(full.peers[Len(full.peers)]))

\* The line is one of an orderly file without comments.
LEMMA PlainLine ==
  ASSUME ParsersAgree, ScanType, NamesInv,
         NEW line \in Lines, NEW resolves \in BOOLEAN, Read(line, resolves),
         orderly', ~comments'
  PROVE  /\ NamesSame /\ (full.state = "peer" => OpenPair(full.peers[Len(full.peers)]))
         /\ line.head # "blank" => line.comment = "none"
         /\ Parses(line) /\ full' = UnmarshalText(line, resolves)
         /\ scan' = GetUnresolvedEndpoints(line) /\ Note(line)
<1>1. Parses(line) /\ full' = UnmarshalText(line, resolves) /\ Note(line)
  BY DEF Read
<1>2. orderly /\ ~comments /\ (line.head # "blank" => line.comment = "none")
  BY <1>1 DEF Note, ScanType
<1>3. NamesSame /\ (full.state = "peer" => OpenPair(full.peers[Len(full.peers)]))
  BY <1>2 DEF NamesInv
<1>4. scan' = GetUnresolvedEndpoints(line)
  BY <1>3 DEF Read, NamesSame
<1> QED BY <1>1, <1>2, <1>3, <1>4

\* The last peer, to which a line of a [Peer] section is written.
LEMMA LastPeer ==
  ASSUME ParsersAgree, full.state = "peer", NEW p \in Peers,
         full' = [full EXCEPT !.peers[Len(full.peers)] = p]
  PROVE  /\ Len(full.peers) \in DOMAIN full.peers
         /\ full.peers[Len(full.peers)] \in Peers
         /\ full'.state = "peer" /\ DOMAIN full'.peers = DOMAIN full.peers
         /\ Len(full'.peers) = Len(full.peers) /\ full'.peers[Len(full'.peers)] = p
         /\ \A i \in DOMAIN full.peers \ {Len(full.peers)} : full'.peers[i] = full.peers[i]
<1>1. full.peers \in Seq(Peers) /\ full.peers # <<>>
  BY DEF ParsersAgree
<1>2. Len(full.peers) \in 1..Len(full.peers) /\ DOMAIN full.peers = 1..Len(full.peers)
  BY <1>1
<1>3. full'.state = "peer" /\ full'.peers = [full.peers EXCEPT ![Len(full.peers)] = p]
  BY DEF ParsersAgree
<1> QED BY <1>1, <1>2, <1>3, ExceptSeq

\* The key of an orderly section.
LEMMA KeyLine ==
  ASSUME ParsersAgree, ScanType, NamesSame, full.state = "peer",
         OpenPair(full.peers[Len(full.peers)]),
         NEW line \in Lines, NEW resolves \in BOOLEAN, line.comment = "none",
         Parses(line), full' = UnmarshalText(line, resolves),
         scan' = ScanDirective(line), Note(line), orderly', line.head = "PublicKey"
  PROVE  NamesSame' /\ OpenPair(full.peers[Len(full.peers)])'
<1> DEFINE last == full.peers[Len(full.peers)]
           v == line.value
           new == [last EXCEPT !.key = v]
<1>1. /\ v \in Keys /\ section.keys = {}
      /\ \A i \in DOMAIN full.peers : full.peers[i].key # v
  BY DEF Note
<1>2. full.peers \in Seq(Peers) /\ full.peers # <<>> /\ last \in Peers
  BY DEF ParsersAgree
<1>3. new \in Peers /\ new.key = v /\ new.endpoint = last.endpoint
  BY <1>1, <1>2 DEF Peers
<1>4. full' = [full EXCEPT !.peers[Len(full.peers)] = new]
  <2>1. ParsePeerLine(last, line, resolves) = new
    BY DEF ParsePeerLine
  <2>2. full' = [full EXCEPT !.peers[Len(full.peers)] = ParsePeerLine(last, line, resolves)]
    BY DEF UnmarshalText
  <2> QED BY <2>1, <2>2
<1>5. /\ section' = [section EXCEPT !.keys = {v}]
      /\ named' = named \cup ({v} \X section.endpoints)
  <2>1. section' = [section EXCEPT !.keys = {v}]
    BY <1>1 DEF Note
  <2>2. section'.keys = {v} /\ section'.endpoints = section.endpoints
    BY <2>1 DEF ScanType
  <2>3. named' = named \cup (section'.keys \X section'.endpoints)
    BY DEF Note
  <2> QED BY <2>1, <2>2, <2>3
<1>6. \A n \in Names : <<v, n>> \notin named
  BY <1>1 DEF NamesSame, NamedHasPeer
<1> HIDE DEF new, v
<1>7. /\ full'.state = "peer" /\ DOMAIN full'.peers = DOMAIN full.peers
      /\ Len(full.peers) \in DOMAIN full.peers
      /\ full'.peers[Len(full'.peers)] = new /\ full'.peers[Len(full.peers)] = new
      /\ \A i \in DOMAIN full.peers \ {Len(full.peers)} : full'.peers[i] = full.peers[i]
  BY <1>3, <1>4, LastPeer
<1>8. CASE section.endpoints = {}
  <2>1. scan.pubkey = Empty /\ scan.endpoint = Empty /\ last = NoPeer
    BY <1>1, <1>8, KeyAssumption DEF OpenPair
  <2>2. scan' = [scan EXCEPT !.pubkey = v]
    BY <2>1 DEF ScanDirective, v, ScanType
  <2>3. named' = named
    BY <1>5, <1>8
  <2>4. section'.keys = {v} /\ section'.endpoints = {}
    BY <1>5, <1>8 DEF ScanType
  <2>5. new.endpoint = Empty
    BY <1>3, <2>1 DEF NoPeer
  <2>6. NamesSame'
    <3>1. scan'.ok /\ scan'.state = full'.state /\ scan'.found = scan.found
      BY <1>7, <2>2 DEF NamesSame, ScanType
    <3>2. FoundNamed'
      BY <2>3, <3>1 DEF NamesSame, FoundNamed
    <3>3. NamedHasPeer'
      BY <1>7, <2>1, <2>3, KeyAssumption DEF NamesSame, NamedHasPeer, NoPeer
    <3>4. PeersFound'
      BY <1>1, <1>3, <1>7, <2>5, <3>1, KeyAssumption DEF NamesSame, PeersFound
    <3> QED BY <2>3, <2>4, <3>1, <3>2, <3>3, <3>4 DEF NamesSame
  <2>7. OpenPair(full.peers[Len(full.peers)])'
    <3>1. scan'.pubkey = v /\ scan'.endpoint = Empty
      BY <2>1, <2>2 DEF ScanType
    <3> QED BY <1>1, <1>3, <1>6, <1>7, <2>3, <2>4, <2>5, <3>1 DEF OpenPair
  <2> QED BY <2>6, <2>7
<1>9. CASE section.endpoints # {}
  <2>1. /\ scan.pubkey = Empty /\ scan.endpoint \in Names /\ section.endpoints = {scan.endpoint}
        /\ last.endpoint \in {scan.endpoint, Empty} /\ last.key = Empty
    BY <1>1, <1>9, KeyAssumption DEF OpenPair
  <2>2. scan' = [scan EXCEPT !.found[v] = scan.endpoint, !.pubkey = Empty, !.endpoint = Empty]
    BY <1>1, <2>1, KeyAssumption DEF ScanDirective, v
  <2>3. named' = named \cup {<<v, scan.endpoint>>}
    BY <1>5, <2>1
  <2>4. section'.keys = {v} /\ section'.endpoints # {}
    BY <1>5, <1>9 DEF ScanType
  <2>6. NamesSame'
    <3>1. /\ scan'.ok /\ scan'.state = full'.state
          /\ scan'.found = [scan.found EXCEPT ![v] = scan.endpoint]
          /\ scan.found \in [Keys -> Names \cup {Empty, Commented}]
      BY <1>7, <2>2 DEF NamesSame, ScanType
    <3>2. FoundNamed'
      <4> SUFFICES ASSUME NEW k \in Keys, NEW n \in Names
                   PROVE  scan'.found[k] = n <=> <<k, n>> \in named'
        BY DEF FoundNamed
      <4>1. scan.found[k] = n <=> <<k, n>> \in named
        BY DEF NamesSame, FoundNamed
      <4>2. CASE k = v
        BY <1>6, <2>3, <3>1, <4>2
      <4>3. CASE k # v
        BY <2>3, <3>1, <4>1, <4>3
      <4> QED BY <4>2, <4>3
    <3>3. NamedHasPeer'
      BY <1>1, <1>3, <1>7, <2>1, <2>3, KeyAssumption DEF NamesSame, NamedHasPeer
    <3>4. PeersFound'
      BY <1>1, <1>2, <1>3, <1>7, <2>1, <3>1, KeyAssumption DEF NamesSame, PeersFound, Peers
    <3>5. section'.keys \X section'.endpoints \subseteq named'
      BY <1>5, <2>1, <2>3 DEF ScanType
    <3> QED BY <3>1, <3>2, <3>3, <3>4, <3>5 DEF NamesSame
  <2>7. OpenPair(full.peers[Len(full.peers)])'
    <3>1. scan'.pubkey = Empty /\ scan'.endpoint = Empty
      BY <2>2 DEF ScanType
    <3> QED BY <1>1, <1>3, <1>7, <2>4, <3>1 DEF OpenPair
  <2> QED BY <2>6, <2>7
<1> QED BY <1>8, <1>9

\* The endpoint of an orderly section, which may not resolve.
LEMMA EndpointLine ==
  ASSUME ParsersAgree, ScanType, NamesSame, full.state = "peer",
         OpenPair(full.peers[Len(full.peers)]),
         NEW line \in Lines, NEW resolves \in BOOLEAN, line.comment = "none",
         full' = UnmarshalText(line, resolves),
         scan' = ScanDirective(line), Note(line), orderly', line.head = "Endpoint"
  PROVE  NamesSame' /\ OpenPair(full.peers[Len(full.peers)])'
<1> DEFINE last == full.peers[Len(full.peers)]
           n0 == line.value
           new == ParsePeerLine(last, line, resolves)
<1>1. n0 \in Names /\ section.endpoints = {}
  BY LineFacts DEF Note
<1>2. full.peers \in Seq(Peers) /\ full.peers # <<>> /\ last \in Peers
  BY DEF ParsersAgree
<1>3. new \in Peers /\ new.key = last.key /\ new.endpoint \in {n0, last.endpoint}
  BY <1>1, <1>2 DEF Peers, ParsePeerLine
<1>4. full' = [full EXCEPT !.peers[Len(full.peers)] = new]
  BY DEF UnmarshalText
<1>5. /\ section' = [section EXCEPT !.endpoints = {n0}]
      /\ section'.keys = section.keys /\ section'.endpoints = {n0}
      /\ named' = named \cup (section.keys \X {n0})
  <2>1. section' = [section EXCEPT !.endpoints = {n0}]
    BY <1>1 DEF Note
  <2>2. section'.keys = section.keys /\ section'.endpoints = {n0}
    BY <2>1 DEF ScanType
  <2>3. named' = named \cup (section'.keys \X section'.endpoints)
    BY DEF Note
  <2> QED BY <2>1, <2>2, <2>3
<1> HIDE DEF new, n0
<1>7. /\ full'.state = "peer" /\ DOMAIN full'.peers = DOMAIN full.peers
      /\ Len(full.peers) \in DOMAIN full.peers
      /\ full'.peers[Len(full'.peers)] = new /\ full'.peers[Len(full.peers)] = new
      /\ \A i \in DOMAIN full.peers \ {Len(full.peers)} : full'.peers[i] = full.peers[i]
  BY <1>3, <1>4, LastPeer
<1>8. CASE section.keys = {}
  <2>1. scan.pubkey = Empty /\ scan.endpoint = Empty /\ last = NoPeer
    BY <1>1, <1>8, KeyAssumption DEF OpenPair
  <2>2. scan' = [scan EXCEPT !.endpoint = n0]
    BY <2>1 DEF ScanDirective, n0, ScanType
  <2>3. named' = named
    BY <1>5, <1>8
  <2>4. new.key = Empty /\ new.endpoint \in {n0, Empty}
    BY <1>3, <2>1 DEF NoPeer
  <2>5. NamesSame'
    <3>1. scan'.ok /\ scan'.state = full'.state /\ scan'.found = scan.found
      BY <1>7, <2>2 DEF NamesSame, ScanType
    <3>2. FoundNamed'
      BY <2>3, <3>1 DEF NamesSame, FoundNamed
    <3>3. NamedHasPeer'
      BY <1>3, <1>7, <2>3, KeyAssumption DEF NamesSame, NamedHasPeer
    <3>4. PeersFound'
      <4> SUFFICES ASSUME NEW i \in DOMAIN full.peers
                   PROVE  /\ full'.peers[i].key # Lax
                          /\ full'.peers[i].endpoint # Empty /\ full'.peers[i].key # Empty =>
                               scan'.found[full'.peers[i].key] = full'.peers[i].endpoint
        BY <1>7 DEF PeersFound
      <4>1. CASE i = Len(full.peers)
        <5>1. Lax # Empty
          BY KeyAssumption
        <5> QED BY <1>7, <2>4, <4>1, <5>1
      <4>2. CASE i # Len(full.peers)
        BY <1>7, <3>1, <4>2 DEF NamesSame, PeersFound
      <4> QED BY <4>1, <4>2
    <3> QED BY <1>5, <1>8, <2>3, <3>1, <3>2, <3>3, <3>4 DEF NamesSame
  <2>6. OpenPair(full.peers[Len(full.peers)])'
    <3>1. scan'.pubkey = Empty /\ scan'.endpoint = n0
      BY <2>1, <2>2 DEF ScanType
    <3> QED BY <1>1, <1>5, <1>7, <1>8, <2>4, <3>1 DEF OpenPair
  <2> QED BY <2>5, <2>6
<1>9. CASE section.keys # {}
  <2>1. /\ scan.pubkey = last.key /\ scan.endpoint = Empty /\ section.keys = {last.key}
        /\ last.endpoint = Empty /\ last.key \in Keys
        /\ \A n \in Names : <<last.key, n>> \notin named
    BY <1>1, <1>9 DEF OpenPair
  <2>2. scan' = [scan EXCEPT !.found[last.key] = n0, !.pubkey = Empty, !.endpoint = Empty]
    BY <1>1, <2>1, KeyAssumption DEF ScanDirective, n0
  <2>3. named' = named \cup {<<last.key, n0>>}
    BY <1>5, <2>1
  <2>4. new.key = last.key /\ new.endpoint \in {n0, Empty}
    BY <1>3, <2>1
  <2>5. NamesSame'
    <3>1. /\ scan'.ok /\ scan'.state = full'.state
          /\ scan'.found = [scan.found EXCEPT ![last.key] = n0]
          /\ scan.found \in [Keys -> Names \cup {Empty, Commented}]
      BY <1>7, <2>2 DEF NamesSame, ScanType
    <3>2. FoundNamed'
      <4> SUFFICES ASSUME NEW k \in Keys, NEW n \in Names
                   PROVE  scan'.found[k] = n <=> <<k, n>> \in named'
        BY DEF FoundNamed
      <4>1. scan.found[k] = n <=> <<k, n>> \in named
        BY DEF NamesSame, FoundNamed
      <4>2. CASE k = last.key
        BY <2>1, <2>3, <3>1, <4>2
      <4>3. CASE k # last.key
        BY <2>3, <3>1, <4>1, <4>3
      <4> QED BY <4>2, <4>3
    <3>3. NamedHasPeer'
      BY <1>1, <1>3, <1>7, <2>1, <2>3, KeyAssumption DEF NamesSame, NamedHasPeer
    <3>4. PeersFound'
      <4> SUFFICES ASSUME NEW i \in DOMAIN full.peers
                   PROVE  /\ full'.peers[i].key # Lax
                          /\ full'.peers[i].endpoint # Empty /\ full'.peers[i].key # Empty =>
                               scan'.found[full'.peers[i].key] = full'.peers[i].endpoint
        BY <1>7 DEF PeersFound
      <4>1. CASE i = Len(full.peers)
        BY <1>7, <2>1, <2>4, <3>1, <4>1, KeyAssumption
      <4>2. CASE i # Len(full.peers)
        <5> DEFINE p == full.peers[i]
        <5>1. full'.peers[i] = p /\ p \in Peers
          BY <1>2, <1>7, <4>2
        <5>2. p.key # Lax /\ (p.endpoint # Empty /\ p.key # Empty => scan.found[p.key] = p.endpoint)
          BY DEF NamesSame, PeersFound
        <5>3. p.endpoint # Empty => p.key # last.key
          <6> SUFFICES ASSUME p.endpoint # Empty, p.key = last.key PROVE FALSE
            OBVIOUS
          <6>1. p.endpoint \in Names /\ scan.found[last.key] = p.endpoint
            BY <2>1, <5>1, <5>2, KeyAssumption DEF Peers
          <6> QED BY <2>1, <6>1 DEF NamesSame, FoundNamed
        <5> QED BY <2>1, <3>1, <5>1, <5>2, <5>3 DEF Peers
      <4> QED BY <4>1, <4>2
    <3>5. section'.keys \X section'.endpoints \subseteq named'
      BY <1>5, <2>1, <2>3
    <3> QED BY <3>1, <3>2, <3>3, <3>4, <3>5 DEF NamesSame
  <2>6. OpenPair(full.peers[Len(full.peers)])'
    <3>1. scan'.pubkey = Empty /\ scan'.endpoint = Empty
      BY <2>2 DEF ScanType
    <3> QED BY <1>5, <1>7, <2>1, <2>4, <3>1 DEF OpenPair
  <2> QED BY <2>5, <2>6
<1> QED BY <1>8, <1>9

\* Every line of an orderly file without comments.
LEMMA PlainStep ==
  ASSUME ParsersAgree, ScanType, NamesInv,
         NEW line \in Lines, NEW resolves \in BOOLEAN, Read(line, resolves)
  PROVE  NamesInv'
<1> SUFFICES ASSUME orderly', ~comments'
             PROVE  NamesSame' /\ (full.state = "peer" => OpenPair(full.peers[Len(full.peers)]))'
  BY DEF NamesInv
<1>0. /\ NamesSame /\ (full.state = "peer" => OpenPair(full.peers[Len(full.peers)]))
      /\ line.head # "blank" => line.comment = "none"
      /\ Parses(line) /\ full' = UnmarshalText(line, resolves)
      /\ scan' = GetUnresolvedEndpoints(line) /\ Note(line)
  BY PlainLine
<1>1. ASSUME section' = section, full'.peers = full.peers,
             scan' = scan \/ scan' = [scan EXCEPT !.state = full'.state],
             scan'.state = full'.state, full'.state \in {full.state, "inter"}
      PROVE  NamesSame' /\ (full.state = "peer" => OpenPair(full.peers[Len(full.peers)]))'
  <2>1. named' = named
    BY <1>0, <1>1 DEF Note, NamesSame
  <2>2. /\ scan'.ok = scan.ok /\ scan'.found = scan.found
        /\ scan'.pubkey = scan.pubkey /\ scan'.endpoint = scan.endpoint
    BY <1>1 DEF ScanType
  <2> QED BY <1>0, <1>1, <2>1, <2>2
      DEF NamesSame, FoundNamed, NamedHasPeer, PeersFound, OpenPair
<1>2. CASE line.head = "blank"
  <2>1. full' = full /\ section' = section /\ scan' = scan
    BY <1>0, <1>2 DEF UnmarshalText, Note, GetUnresolvedEndpoints, HasEquals, Headers, Directives
  <2> QED BY <1>0, <1>1, <2>1 DEF NamesSame
<1>3. CASE line.head = "[Interface]"
  <2>1. full' = [full EXCEPT !.state = "inter"] /\ section' = section
    BY <1>0, <1>3 DEF UnmarshalText, Note
  <2>2. scan' = [scan EXCEPT !.state = "inter"]
    BY <1>0, <1>3 DEF GetUnresolvedEndpoints, ScanHeader, Headers
  <2>3. full'.state = "inter" /\ full'.peers = full.peers /\ scan'.state = "inter"
    BY <2>1, <2>2 DEF ParsersAgree, ScanType
  <2> QED BY <1>1, <2>1, <2>2, <2>3
<1>4. CASE line.head = "[Peer]"
  <2> DEFINE longer == Append(full.peers, NoPeer)
             L == Len(full.peers)
  <2>1. full.peers \in Seq(Peers) /\ NoPeer \in Peers
    BY DEF ParsersAgree, NoPeer, Peers
  <2>2. /\ longer \in Seq(Peers) /\ Len(longer) = L + 1 /\ L \in Nat
        /\ DOMAIN longer = 1..(L + 1) /\ DOMAIN full.peers = 1..L
        /\ longer[L + 1] = NoPeer /\ \A i \in 1..L : longer[i] = full.peers[i]
    BY <2>1, AppendProperties, LenProperties
  <2>3. full' = [full EXCEPT !.state = "peer", !.peers = longer, !.psk = FALSE]
    BY <1>0, <1>4 DEF UnmarshalText
  <2> HIDE DEF longer, L
  <2>4. full'.state = "peer" /\ full'.peers = longer
    BY <2>3 DEF ParsersAgree
  <2>5. scan' = [scan EXCEPT !.state = "peer", !.pubkey = Empty, !.endpoint = Empty]
    BY <1>0, <1>4 DEF GetUnresolvedEndpoints, ScanHeader, Headers
  <2>6. /\ scan'.ok = scan.ok /\ scan'.state = "peer" /\ scan'.found = scan.found
        /\ scan'.pubkey = Empty /\ scan'.endpoint = Empty
    BY <2>5 DEF ScanType
  <2>7. section' = NoSection /\ named' = named
    BY <1>0, <1>4 DEF Note, NoSection
  <2>8. OpenPair(full.peers[Len(full.peers)])'
    BY <2>2, <2>4, <2>6, <2>7 DEF OpenPair, NoSection
  <2>9. NamedHasPeer'
    BY <1>0, <2>2, <2>4, <2>7 DEF NamesSame, NamedHasPeer
  <2>10. PeersFound'
    <3> SUFFICES ASSUME NEW i \in 1..(L + 1)
                 PROVE  /\ longer[i].key # Lax
                        /\ longer[i].endpoint # Empty /\ longer[i].key # Empty =>
                             scan.found[longer[i].key] = longer[i].endpoint
      BY <2>2, <2>4, <2>6 DEF PeersFound
    <3>1. CASE i = L + 1
      BY <2>2, <3>1, KeyAssumption DEF NoPeer
    <3>2. CASE i # L + 1
      BY <1>0, <2>2, <3>2 DEF NamesSame, PeersFound
    <3> QED BY <3>1, <3>2
  <2> QED BY <1>0, <2>4, <2>6, <2>7, <2>8, <2>9, <2>10 DEF NamesSame, FoundNamed, NoSection
<1>5. CASE line.head \notin Headers \cup {"blank"} /\ full.state # "peer"
  <2>1. full.state = "inter" /\ line.head = "Interface directive"
    BY <1>0, <1>5 DEF Parses, InterfaceLineParses, Headers
  <2>2. full' = [full EXCEPT !.inter = Append(@, line.value)] /\ section' = section
    BY <1>0, <1>5, <2>1 DEF UnmarshalText, Note
  <2>3. full'.state = full.state /\ full'.peers = full.peers
    BY <2>2 DEF ParsersAgree
  <2>4. scan' = scan
    BY <1>0, <1>5 DEF GetUnresolvedEndpoints, HasEquals, NamesSame
  <2> QED BY <1>0, <1>1, <2>2, <2>3, <2>4 DEF NamesSame
<1>6. CASE line.head \notin Headers \cup {"blank"} /\ full.state = "peer"
  <2>1. line.head \in Directives /\ PeerLineParses(line) /\ line.comment = "none"
    BY <1>0, <1>6 DEF Parses, PeerLineParses, Headers, Directives
  <2>2. scan' = ScanDirective(line)
    BY <1>0, <1>6, <2>1 DEF GetUnresolvedEndpoints, HasEquals, NamesSame
  <2>3. CASE line.head = "PublicKey"
    BY <1>0, <1>6, <2>1, <2>2, <2>3, KeyLine
  <2>4. CASE line.head = "Endpoint"
    BY <1>0, <1>6, <2>1, <2>2, <2>4, EndpointLine
  <2>5. CASE line.head \notin {"PublicKey", "Endpoint"}
    <3>1. section' = section
      BY <1>0, <1>6, <2>5 DEF Note, Headers
    <3>2. full'.state = full.state /\ full'.peers = full.peers
      <4>1. ParsePeerLine(full.peers[Len(full.peers)], line, resolves) = full.peers[Len(full.peers)]
        BY <2>5 DEF ParsePeerLine
      <4>2. \/ full' = [full EXCEPT !.psk = TRUE]
            \/ full' = [full EXCEPT !.peers[Len(full.peers)] = full.peers[Len(full.peers)]]
        BY <1>0, <1>6, <4>1 DEF UnmarshalText, Headers
      <4>3. full.peers \in Seq(Peers)
        BY DEF ParsersAgree
      <4>4. [full.peers EXCEPT ![Len(full.peers)] = full.peers[Len(full.peers)]] = full.peers
        BY <4>3
      <4> QED BY <4>2, <4>4 DEF ParsersAgree
    <3>3. scan' = scan
      <4>1. Empty \in {scan.pubkey, scan.endpoint}
        BY <1>0, <1>6 DEF OpenPair
      <4>2. scan' = [scan EXCEPT !.pubkey = scan.pubkey, !.endpoint = scan.endpoint]
        BY <2>2, <2>5, <4>1 DEF ScanDirective
      <4> QED BY <4>2 DEF ScanType
    <3> QED BY <1>0, <1>1, <3>1, <3>2, <3>3 DEF NamesSame
  <2> QED BY <2>3, <2>4, <2>5
<1> QED BY <1>2, <1>3, <1>4, <1>5, <1>6 DEF Headers

\* In an orderly file without comments, of any length and with any number of peers,
\* the daemon finds the names of the endpoints that up finds or could not resolve,
\* and no others.
THEOREM ScannerComplete == Spec => []NamesFound
<1>1. Init => NamesInv
  <2> SUFFICES ASSUME Init PROVE NamesInv
    OBVIOUS
  <2>1. /\ full.state = "unknown" /\ full.peers = <<>> /\ section.keys = {}
        /\ scan.ok /\ scan.state = "unknown" /\ scan.found = [k \in Keys |-> Empty]
        /\ named = {}
    BY DEF Init, NewConfig, NewScan, NoSection
  <2> QED BY <2>1, KeyAssumption DEF NamesInv, NamesSame, FoundNamed, NamedHasPeer, PeersFound
<1>2. ParsersAgree /\ ScanType /\ NamesInv /\ [Next]_vars => NamesInv'
  <2> SUFFICES ASSUME ParsersAgree, ScanType, NamesInv, [Next]_vars PROVE NamesInv'
    OBVIOUS
  <2>1. CASE NextFile
    <3>1. /\ full'.state = "unknown" /\ full'.peers = <<>> /\ section'.keys = {}
          /\ scan'.ok /\ scan'.state = "unknown" /\ scan'.found = [k \in Keys |-> Empty]
          /\ named' = {}
      BY <2>1 DEF NextFile, NewConfig, NewScan, NoSection
    <3> QED BY <3>1, KeyAssumption DEF NamesInv, NamesSame, FoundNamed, NamedHasPeer, PeersFound
  <2>2. ASSUME NEW line \in Lines, NEW resolves \in {line.head = "Endpoint", FALSE},
               Read(line, resolves)
        PROVE  NamesInv'
    BY <2>2, PlainStep
  <2>3. CASE UNCHANGED vars
    BY <2>3 DEF vars, readers, history, NamesInv, NamesSame, FoundNamed, NamedHasPeer,
                PeersFound, OpenPair
  <2> QED BY <2>1, <2>2, <2>3 DEF Next
<1>3. NamesInv => NamesFound
  BY DEF NamesInv, NamesSame, FoundNamed, PeersFound, NamesFound
<1> QED BY <1>1, <1>2, <1>3, ReadersAgree, ScanTyped, PTL DEF Spec
============================================================================
