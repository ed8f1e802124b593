SPECIFICATION FairSpec
CONSTANTS
  w = w
  x = x
  d = d
  n = n
  m = m
  None = None
  Names <- MCNames
  Parent <- MCParent
  Length <- MCLength
  NameServers <- MCNameServers
  Domain = w
  Finders <- MCFinders
  Resolvs <- MCResolvs
  MaxCnameDepth = 2
  Worlds <- MCWorlds
INVARIANTS TypeOK NoIPv6 AnswerIsRight AsksAuthority Resolves
PROPERTIES ImplementsResolver NearerEnd Terminates
CHECK_DEADLOCK FALSE
