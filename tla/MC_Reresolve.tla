---------------------------- MODULE MC_Reresolve ----------------------------
(* Reresolve with a tracked and a roaming peer, two addresses and two ports. *)
EXTENDS Reresolve
============================================================================
