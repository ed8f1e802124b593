------------------------------ MODULE Resolver ------------------------------
(* What those who resolve a name rely on, the parser and the passes of the  *)
(* daemon: a resolution is one step.  It yields an address that is right,   *)
(* or it gives up, and while nothing is in its way it may not give up.      *)

CONSTANTS
  Addresses,
  None        \* not an address

VARIABLES
  right,  \* the addresses of the name
  sure,   \* the records leave nothing to chance and nothing has failed
  done,   \* the resolution has ended
  answer  \* its result, None without one

rvars == <<right, sure, done, answer>>

Init == /\ right \in SUBSET Addresses
        /\ sure \in BOOLEAN
        /\ done = FALSE
        /\ answer = None

\* Something fails or times out.
Hitch == ~done /\ sure' = FALSE /\ UNCHANGED <<right, done, answer>>

\* A right address is found.
Find(a) ==
  /\ ~done /\ a \in right
  /\ done' = TRUE /\ answer' = a
  /\ UNCHANGED <<right, sure>>

\* Nothing is found, which can only be when something has failed.
GiveUp ==
  /\ ~done
  /\ done' = TRUE /\ sure' = FALSE
  /\ UNCHANGED <<right, answer>>

Next == Hitch \/ GiveUp \/ \E a \in Addresses : Find(a)

Spec == Init /\ [][Next]_rvars
============================================================================
