--------------------------- MODULE MC_DirectDns ---------------------------
(* Small instances of DirectDns: host w in a zone x below the zone d, name  *)
(* servers n and m, CNAMEs between w, x and d that may chain up or loop,    *)
(* and a name server m that may be a CNAME of n.                            *)
EXTENDS DirectDns, TLC

CONSTANTS w, x, d, n, m

MCNames == {w, x, d, n, m}
MCParent == w :> x @@ x :> d @@ d :> None @@ n :> None @@ m :> None
MCLength == w :> 3 @@ x :> 2 @@ d :> 1 @@ n :> 1 @@ m :> 1
MCNameServers == x :> {n} @@ d :> {n, m}
MCFinders == {<<"AAAA", "bad">>, <<"A", "AAAA">>}
MCResolvs == {<<>>, <<"AAAA">>}

\* The CNAMEs; x is a zone only without one.
MCAliases == {a \in [MCNames -> {w, x, d, n, None}] :
                /\ a[w] # n /\ a[x] # n
                /\ a[d] \in {None, w}
                /\ a[n] = None
                /\ a[m] \in IF a[d] = None THEN {None, n} ELSE {None}}
MCFams == {[i \in MCNames |-> IF i = n THEN g ELSE IF i = m THEN Fams ELSE f] :
             f \in (SUBSET Fams) \ {{}}, g \in {{}, {"A"}, Fams}}
MCWorlds == {v \in [alias : MCAliases, zones : {{d}, {x, d}, {x}, {}}, fams : MCFams] :
               \A z \in v.zones : v.alias[z] = None}
============================================================================
