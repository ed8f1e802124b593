------------------------- MODULE ConfigCacheProofs -------------------------
(* The promise of ConfigCache: clean entries are exact.                     *)
EXTENDS ConfigCache, TLAPS

\* Coherent, strengthened by the types its step needs.
CInv == /\ file \in [Ifaces -> Files]
        /\ run \in [Ifaces -> Entries]
        /\ Coherent

\* Whatever is edited and refreshed, an interface that is not marked dirty has
\* the entry its file yields.
THEOREM CacheCoherent == Spec => []Coherent
<1>1. Init => CInv
  BY DEF Init, CInv, Coherent
<1>2. CInv /\ [Next]_cvars => CInv'
  <2> SUFFICES ASSUME CInv, [Next]_cvars PROVE CInv'
    OBVIOUS
  <2> USE DEF CInv, Coherent, Exact
  <2>1. ASSUME NEW i \in Ifaces, NEW f \in Files, Edit(i, f) PROVE CInv'
    BY <2>1 DEF Edit
  <2>2. ASSUME NEW i \in Ifaces, NEW e \in Entries, Refresh(i, e) PROVE CInv'
    BY <2>2 DEF Refresh
  <2>3. ASSUME NEW i \in Ifaces, NEW e \in Entries, Settle(i, e) PROVE CInv'
    BY <2>3 DEF Settle
  <2>4. ASSUME NEW S \in SUBSET dirty, Confirm(S) PROVE CInv'
    BY <2>4 DEF Confirm
  <2>5. CASE Lose
    BY <2>5 DEF Lose
  <2>6. CASE UNCHANGED cvars
    BY <2>6 DEF cvars
  <2> QED BY <2>1, <2>2, <2>3, <2>4, <2>5, <2>6 DEF Next
<1>3. CInv => Coherent
  BY DEF CInv
<1> QED BY <1>1, <1>2, <1>3, PTL DEF Spec
============================================================================
