---------------------------- MODULE ConfigCache ----------------------------
(* What the DDNS daemon promises about the configurations it holds: a cache *)
(* of the files in /etc/wireguard.  An entry is dirty from the edit of its  *)
(* file until it has been brought up to date; a clean entry is exact and is *)
(* left alone.                                                              *)

CONSTANTS
  Ifaces,
  Files,     \* the states of a configuration file
  Entries,   \* the states of a cache entry
  Faithful   \* pairs <<f, e>> such that entry e is what file state f yields

VARIABLES file, run, dirty

cvars == <<file, run, dirty>>

Exact(i) == <<file[i], run[i]>> \in Faithful

Init == /\ file \in [Ifaces -> Files]
        /\ run \in [Ifaces -> Entries]
        /\ dirty = Ifaces

\* The file of i is edited; the entry is out of date from here on.
Edit(i, f) ==
  /\ file' = [file EXCEPT ![i] = f]
  /\ dirty' = dirty \cup {i}
  /\ UNCHANGED run

\* The entry of a dirty interface is replaced by one that may still be wrong.
Refresh(i, e) ==
  /\ i \in dirty
  /\ run' = [run EXCEPT ![i] = e]
  /\ UNCHANGED <<file, dirty>>

\* The entry of a dirty interface is replaced by the right one.
Settle(i, e) ==
  /\ i \in dirty
  /\ <<file[i], e>> \in Faithful
  /\ run' = [run EXCEPT ![i] = e]
  /\ dirty' = dirty \ {i}
  /\ UNCHANGED file

\* Entries found to be right as they are.
Confirm(S) ==
  /\ S \subseteq dirty
  /\ \A i \in S : Exact(i)
  /\ dirty' = dirty \ S
  /\ UNCHANGED <<file, run>>

\* The cache is lost.
Lose ==
  /\ run' \in [Ifaces -> Entries]
  /\ dirty' = Ifaces
  /\ UNCHANGED file

Next == \/ Lose
        \/ \E i \in Ifaces : \/ \E f \in Files : Edit(i, f)
                             \/ \E e \in Entries : Refresh(i, e) \/ Settle(i, e)
        \/ \E S \in SUBSET dirty : Confirm(S)

Spec == Init /\ [][Next]_cvars

\* A clean entry is exact.
Coherent == \A i \in Ifaces \ dirty : Exact(i)
============================================================================
