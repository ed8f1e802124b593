---------------------------- MODULE ConfigParse ----------------------------
(* The three readers of a file in /etc/wireguard: UnmarshalText, which the  *)
(* daemon, up and sync use, UnmarshalTextNoPeer, which down uses, and       *)
(* GetUnresolvedEndpoints, by which the daemon learns the names of the      *)
(* endpoints.  Each is a loop over the lines with a state of its own; here  *)
(* they read the same file in lockstep, up to the line that UnmarshalText   *)
(* rejects.  Every prefix of a file is a file.                              *)
EXTENDS Naturals, Sequences, FiniteSets

CONSTANTS
  Keys,      \* texts that are public keys
  Lax,       \* text that is base64, but not of 32 bytes
  Names,     \* texts of endpoints
  Settings,  \* good values of the directives of [Interface]
  Bad,       \* a value that does not parse
  Empty,     \* no value, or nothing behind the "="
  Commented, \* a value with a comment behind it
  MaxPeers,  \* bound: [Peer] sections of a file
  MaxLines   \* bound: directives of the [Interface] sections

ASSUME KeyAssumption ==
  /\ Lax \notin Keys /\ Bad \notin Keys /\ Empty \notin Keys /\ Commented \notin Keys
  /\ Empty \notin Names /\ Commented \notin Names /\ Empty \notin {Commented, Lax}
ASSUME BoundAssumption == MaxPeers \in Nat /\ MaxLines \in Nat

VARIABLES
  full,      \* UnmarshalText: [state, inter, peers, psk]
  lite,      \* UnmarshalTextNoPeer: [ok, state, inter]
  scan,      \* GetUnresolvedEndpoints: [ok, state, pubkey, endpoint, found]
  section,   \* history: the proper keys and endpoints of the last [Peer] section
  named,     \* history: the pairs of such a key and an endpoint in one section
  orderly,   \* history: each section names a proper key of its own and at most one
             \* endpoint, or nothing so far
  comments,  \* history: a line had a comment behind its text
  hidden     \* history: a header had a comment with a "=" behind it

readers == <<full, lite, scan>>
history == <<section, named, orderly, comments, hidden>>
vars == <<readers, history>>

ParseState == {"unknown", "inter", "peer"}
Headers == {"[Interface]", "[Peer]"}
Directives == {"Interface directive", "PublicKey", "PresharedKey", "Endpoint",
               "AllowedIPs", "unknown directive"}

KeyTexts == Keys \cup {Lax, Bad}
Values(head) == CASE head = "Interface directive" -> Settings \cup {Bad}
                  [] head = "PublicKey" -> KeyTexts \cup {Empty}
                  [] head = "PresharedKey" -> {Lax, Bad}
                  [] head = "Endpoint" -> Names
                  [] head = "AllowedIPs" -> {Lax, Bad}
                  [] OTHER -> {Empty}

\* A "=" in a comment makes no difference on a line that has one anyway.
Comments(head) == IF head \in Headers \cup {"text"} THEN {"none", "plain", "equals"}
                                                    ELSE {"none", "plain"}

\* A line: what it starts with, its value, and the comment behind it, which may
\* hold a "=".  "text" is a line without "=".
Lines == UNION {[head : {h}, value : Values(h), comment : Comments(h)] :
                  h \in Headers \cup Directives \cup {"blank", "text"}}

\* A peer; whether it has a preshared key matters for the last one only.
NoPeer == [key |-> Empty, endpoint |-> Empty]

NewConfig == [state |-> "unknown", inter |-> <<>>, peers |-> <<>>, psk |-> FALSE]
NewLite == [ok |-> TRUE, state |-> "unknown", inter |-> <<>>]
NewScan == [ok |-> TRUE, state |-> "unknown", pubkey |-> Empty, endpoint |-> Empty,
            found |-> [k \in Keys |-> Empty]]
NoSection == [keys |-> {}, endpoints |-> {}]

Init ==
  /\ full = NewConfig /\ lite = NewLite /\ scan = NewScan
  /\ section = NoSection /\ named = {} /\ orderly = TRUE
  /\ comments = FALSE /\ hidden = FALSE

\* The reader returns an error, and nothing else of it is used.
RejectedLite == [NewLite EXCEPT !.ok = FALSE]
RejectedScan == [NewScan EXCEPT !.ok = FALSE]
----------------------------------------------------------------------------

\* parseInterfaceLine
InterfaceLineParses(line) == line.head = "Interface directive" /\ line.value # Bad

\* parsePeerLine.  ParseKey takes any base64, which it pads or cuts to 32 bytes; an
\* empty one becomes the key of zeros, as which a peer without a key begins, and
\* no other text does.  A preshared key may be given once.
PeerLineParses(line) ==
  \/ line.head \in {"PublicKey", "AllowedIPs"} /\ line.value # Bad
  \/ line.head = "PresharedKey" /\ line.value # Bad /\ ~full.psk
  \/ line.head = "Endpoint"

\* parsePeerLine: an endpoint that does not resolve is logged and left alone.
ParsePeerLine(peer, line, resolves) ==
  CASE line.head = "PublicKey" -> [peer EXCEPT !.key = line.value]
    [] line.head = "Endpoint" /\ resolves -> [peer EXCEPT !.endpoint = line.value]
    [] OTHER -> peer

\* UnmarshalText takes the line, whose comment has been cut.
Parses(line) ==
  \/ line.head \in Headers \cup {"blank"}
  \/ full.state = "inter" /\ InterfaceLineParses(line)
  \/ full.state = "peer" /\ PeerLineParses(line)

\* UnmarshalText, a line that it takes; of a peer, it is about the last one.
UnmarshalText(line, resolves) ==
  CASE line.head = "blank" -> full
    [] line.head = "[Interface]" -> [full EXCEPT !.state = "inter"]
    [] line.head = "[Peer]" ->
         [full EXCEPT !.state = "peer", !.peers = Append(@, NoPeer), !.psk = FALSE]
    [] OTHER ->
         IF full.state = "inter" THEN [full EXCEPT !.inter = Append(@, line.value)]
         ELSE IF line.head = "PresharedKey" THEN [full EXCEPT !.psk = TRUE]
         ELSE [full EXCEPT !.peers[Len(full.peers)] = ParsePeerLine(@, line, resolves)]

\* Fault: a [Peer] header does not end the [Interface] section.
UnmarshalTextNoPeer_Sticky(line) ==
  CASE line.head \in {"blank", "[Peer]"} -> lite
    [] line.head = "[Interface]" -> [lite EXCEPT !.state = "inter"]
    [] lite.state = "inter" /\ InterfaceLineParses(line) ->
         [lite EXCEPT !.inter = Append(@, line.value)]
    [] OTHER -> RejectedLite

\* UnmarshalTextNoPeer, one line: peers are skipped.
UnmarshalTextNoPeer(line) ==
  CASE line.head = "blank" -> lite
    [] line.head = "[Interface]" -> [lite EXCEPT !.state = "inter"]
    [] line.head = "[Peer]" -> [lite EXCEPT !.state = "peer"]
    [] lite.state = "inter" /\ InterfaceLineParses(line) ->
         [lite EXCEPT !.inter = Append(@, line.value)]
    [] lite.state = "peer" /\ line.head \in Directives -> lite
    [] OTHER -> RejectedLite
----------------------------------------------------------------------------

\* Fault: an endpoint counts only behind its key.
ScanDirective_KeyFirst(line) ==
  LET text == IF line.comment = "none" THEN line.value ELSE Commented
      pubkey == IF line.head = "PublicKey" THEN text ELSE scan.pubkey
  IN IF line.head # "Endpoint" \/ pubkey = Empty THEN [scan EXCEPT !.pubkey = pubkey]
     ELSE IF pubkey \notin Keys THEN RejectedScan
     ELSE [scan EXCEPT !.found[pubkey] = text, !.pubkey = Empty]

\* Fault: a key that does not parse is recorded as the key of zeros.
ScanDirective_AnyKey(line) ==
  LET text == IF line.comment = "none" THEN line.value ELSE Commented
      pubkey == IF line.head = "PublicKey" THEN text ELSE scan.pubkey
      endpoint == IF line.head = "Endpoint" THEN text ELSE scan.endpoint
  IN IF Empty \in {pubkey, endpoint}
       THEN [scan EXCEPT !.pubkey = pubkey, !.endpoint = endpoint]
     ELSE [scan EXCEPT !.found = [k \in DOMAIN @ \cup {pubkey} |->
                                    IF k = pubkey THEN endpoint ELSE scan.found[k]],
                       !.pubkey = Empty, !.endpoint = Empty]

\* A line of a [Peer] section.  A comment is taken for a part of the value; a
\* pair is recorded as soon as it is complete.
ScanDirective(line) ==
  LET text == IF line.comment = "none" THEN line.value ELSE Commented
      pubkey == IF line.head = "PublicKey" THEN text ELSE scan.pubkey
      endpoint == IF line.head = "Endpoint" THEN text ELSE scan.endpoint
  IN IF Empty \in {pubkey, endpoint}
       THEN [scan EXCEPT !.pubkey = pubkey, !.endpoint = endpoint]
     ELSE IF pubkey \notin Keys THEN RejectedScan
     ELSE [scan EXCEPT !.found[pubkey] = endpoint, !.pubkey = Empty, !.endpoint = Empty]

\* Fault: the header leaves the pair that has been begun.
ScanHeader_Keep(head) ==
  [scan EXCEPT !.state = IF head = "[Peer]" THEN "peer" ELSE "inter"]

\* A header; that of a peer begins a new pair.
ScanHeader(head) ==
  IF head = "[Interface]" THEN [scan EXCEPT !.state = "inter"]
  ELSE [scan EXCEPT !.state = "peer", !.pubkey = Empty, !.endpoint = Empty]

\* The line has a "=" in it, be it in the comment.
HasEquals(line) == line.head \in Directives \/ line.comment = "equals"

\* GetUnresolvedEndpoints, one line: a header must stand alone on its line.
GetUnresolvedEndpoints(line) ==
  CASE line.head = "blank" -> scan
    [] line.head \in Headers /\ line.comment = "none" -> ScanHeader(line.head)
    [] OTHER -> IF scan.state # "peer" THEN scan
                ELSE IF HasEquals(line) THEN ScanDirective(line)
                ELSE RejectedScan
----------------------------------------------------------------------------

\* What the file names, to compare the readers with.
Note(line) ==
  /\ section' =
       CASE line.head = "[Peer]" -> NoSection
         [] line.head = "PublicKey" -> [section EXCEPT !.keys = @ \cup ({line.value} \cap Keys)]
         [] line.head = "Endpoint" -> [section EXCEPT !.endpoints = @ \cup {line.value}]
         [] OTHER -> section
  /\ named' = named \cup (section'.keys \X section'.endpoints)
  /\ orderly' =
       /\ orderly
       /\ line.head = "PublicKey" =>
            /\ section.keys = {} /\ line.value \in Keys
            /\ \A i \in DOMAIN full.peers : full.peers[i].key # line.value
       /\ line.head = "Endpoint" => section.endpoints = {}
  /\ comments' = (comments \/ (line.comment # "none" /\ line.head # "blank"))
  /\ hidden' = (hidden \/ (line.comment = "equals" /\ line.head \in Headers))

\* All readers read a line, except those that have returned an error.
Read(line, resolves) ==
  /\ Parses(line)
  /\ full' = UnmarshalText(line, resolves)
  /\ lite' = IF lite.ok THEN UnmarshalTextNoPeer(line) ELSE lite
  /\ scan' = IF scan.ok THEN GetUnresolvedEndpoints(line) ELSE scan
  /\ Note(line)
  /\ Len(full'.peers) <= MaxPeers /\ Len(full'.inter) <= MaxLines

\* The file has ended, or UnmarshalText has rejected a line: another file is read.
NextFile ==
  /\ full' = NewConfig /\ lite' = NewLite /\ scan' = NewScan
  /\ section' = NoSection /\ named' = {} /\ orderly' = TRUE
  /\ comments' = FALSE /\ hidden' = FALSE

Next == \/ NextFile
        \/ \E line \in Lines :
             \E resolves \in {line.head = "Endpoint", FALSE} : Read(line, resolves)

Spec == Init /\ [][Next]_vars
----------------------------------------------------------------------------

\* Type invariant of the readers.
TypeOK ==
  /\ full \in [state : ParseState, inter : Seq(Settings), psk : BOOLEAN,
             peers : Seq([key : Keys \cup {Lax, Empty}, endpoint : Names \cup {Empty}])]
  /\ lite \in [ok : BOOLEAN, state : ParseState, inter : Seq(Settings)]
  /\ scan \in [ok : BOOLEAN, state : ParseState,
             pubkey : KeyTexts \cup {Empty, Commented},
             endpoint : Names \cup {Empty, Commented},
             found : [Keys -> Names \cup {Empty, Commented}]]
  /\ section \in [keys : SUBSET Keys, endpoints : SUBSET Names]
  /\ named \subseteq Keys \X Names
  /\ orderly \in BOOLEAN /\ comments \in BOOLEAN /\ hidden \in BOOLEAN

\* A file that up has accepted can be taken down: UnmarshalTextNoPeer accepts it
\* too, and finds the same [Interface] part, wherever its sections stand.
DownReadsWhatUpRead == lite.ok /\ lite.inter = full.inter

\* In an orderly file without comments behind the text, whatever the order of the
\* lines of a section, the daemon finds the name of every endpoint, resolved or
\* not, under the key of its peer, and no other name.
NamesFound ==
  orderly /\ ~comments =>
    /\ scan.ok
    /\ \A k \in Keys, n \in Names : scan.found[k] = n <=> <<k, n>> \in named
    /\ \A i \in DOMAIN full.peers :
         LET p == full.peers[i]
         IN p.endpoint # Empty /\ p.key # Empty => scan.found[p.key] = p.endpoint

\* A comment behind the text can hide a name from the daemon or make it reject the
\* file, and so can a section with several keys or endpoints, but no name is ever
\* recorded for the key of another section: unless a comment with a "=" hides
\* a header.
PairsFromOneSection ==
  scan.ok /\ ~hidden =>
    \A k \in Keys :
      scan.found[k] \in Names => <<k, scan.found[k]>> \in named
============================================================================
