SPECIFICATION ChannelSpec
SYMMETRY Symmetry
CONSTANTS
  a1 = a1
  a2 = a2
  t1 = t1
  t2 = t2
  s1 = s1
  s2 = s2
  x = x
  Agents = {a1, a2}
  Tokens = {t1, t2}
  Sites <- MCSites
  Catalog <- MCCatalog
  Binds <- MCBinds
  Files <- MCFiles
  Sockets = {k1, k2, k3}
  Digests = {d1}
  MaxEdits = 2
  None = None
INVARIANTS ChannelTypeOK SitesPartitioned OwnerIsCurrent AttestedOnThisChannel
PROPERTIES SessionEndsWithItsSocket
CHECK_DEADLOCK FALSE
