SPECIFICATION Spec
CONSTANTS
  Procs = {cli}
  Boot = boot
  c1 = c1
  c2 = c2
  None = None
  Cfgs <- MCCfgs
  Address <- MCAddress
  Peers <- MCPeers
  Dsts <- MCDsts
  Servers <- MCServers
  TableOff = {}
  Times = 2
  MaxLinks = 2
INVARIANTS StaleRoutesDeleted
