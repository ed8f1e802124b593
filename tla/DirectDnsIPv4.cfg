SPECIFICATION Spec
CONSTANTS
  w = w
  x = x
  d = d
  n = n
  m = m
  None = None
  Names <- MCNames
  Parent <- MCParent
  Length <- MCLength
  NameServers <- MCNameServers
  Domain = w
  Finders <- MCFinders
  Resolvs <- MCResolvs
  MaxCnameDepth = 2
  Worlds <- MCWorlds
INVARIANTS ResolvesIPv4
CHECK_DEADLOCK FALSE
