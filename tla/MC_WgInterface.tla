-------------------------- MODULE MC_WgInterface --------------------------
(* Small instances of WgInterface: two contents that differ in address,     *)
(* peer, route and number of DNS entries.                                   *)
EXTENDS WgInterface, TLC

CONSTANTS c1, c2

MCCfgs == {c1, c2}
MCAddress == c1 :> {"addr1"} @@ c2 :> {"addr1", "addr2"}
MCPeers == c1 :> {"peer1"} @@ c2 :> {"peer2"}
MCDsts == c1 :> {"net1"} @@ c2 :> {"net2"}
MCServers == c1 :> <<"ns1">> @@ c2 :> <<"ns1", "ns2">>
============================================================================
