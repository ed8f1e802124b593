SPECIFICATION Spec
CONSTANTS
  Keys = {k1, k2}
  Lax = Lax
  Names = {n1, n2}
  Settings = {s1}
  Bad = Bad
  Empty = Empty
  Commented = Commented
  MaxPeers = 2
  MaxLines = 1
SYMMETRY Interchangeable
INVARIANTS TypeOK DownReadsWhatUpRead NamesFound PairsFromOneSection
