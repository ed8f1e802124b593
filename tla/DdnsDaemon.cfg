SPECIFICATION Spec
CONSTANTS
  Ifaces = {a, b}
  Contents = {c1, c2, bad}
  Valid = {c1, c2}
  Scannable = {c1}
  Lists <- AllLists
  QueueCap = 2
  NoList = NoList
  Absent = Absent
  Nil = Nil
  None = None
SYMMETRY Perms
INVARIANTS TypeOK Bookkeeping NoLostUpdate NoGhost OnlyListed
PROPERTIES LoopsUndisturbed LockComesFree ImplementsCache
