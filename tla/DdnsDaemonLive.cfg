SPECIFICATION FairSpec
CONSTANTS
  Ifaces = {a, b}
  Contents = {c1, c2}
  Valid = {c1, c2}
  Scannable = {c1, c2}
  Lists <- OneListed
  QueueCap = 2
  NoList = NoList
  Absent = Absent
  Nil = Nil
  None = None
PROPERTIES EditFollowed RemovalFollowed
