SPECIFICATION FairSpec
CONSTANTS
  Peers = {p, r}
  Named = {p}
  Tracked = {p}
  Addrs = {a, b}
  Ports = {1, 2}
  CfgPort = 0
  Nil = Nil
INVARIANTS TypeOK SecondPassApplies
PROPERTIES HealthyUndisturbed RoamersKept PassComesToEnd OfflineRefreshed
