--------------------------- MODULE MC_DdnsDaemon ---------------------------
(* Small instances of DdnsDaemon. *)
EXTENDS DdnsDaemon, TLC

Perms == Permutations(Ifaces)

\* No list, and an interface on both lists beside one on neither.
AllLists == {[only |-> NoList, skip |-> {}]} \cup {[only |-> {i}, skip |-> {i}] : i \in Ifaces}

\* One listed interface.
OneListed == {[only |-> {CHOOSE i \in Ifaces : TRUE}, skip |-> {}]}
============================================================================
