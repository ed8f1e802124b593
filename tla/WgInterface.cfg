SPECIFICATION Spec
CONSTANTS
  Procs = {boot, cli}
  Boot = boot
  c1 = c1
  c2 = c2
  None = None
  Cfgs <- MCCfgs
  Address <- MCAddress
  Peers <- MCPeers
  Dsts <- MCDsts
  Servers <- MCServers
  TableOff = {c1}
  Times = 2
  MaxLinks = 2
INVARIANTS TypeOK SuccessMeansDone HooksInOrder
PROPERTIES ResyncHarmless NearerEnd
