SPECIFICATION Spec
CONSTANTS
  a1 = a1
  a2 = a2
  t1 = t1
  t2 = t2
  s1 = s1
  s2 = s2
  x = x
  c1 = c1
  c2 = c2
  d1 = d1
  None = None
  Agents = {a1, a2}
  Tokens = {t1, t2}
  Sites <- MCSites
  Catalog <- MCCatalog
  Binds <- MCPartialBinds
  Files <- MCPartialFiles
  Sockets = {k1, k2}
  Digests = {}
  MaxEdits = 0
  MaxOffboards = 1
  Clients = {c1, c2}
  Requests = {r1}
  Tickets = {p1}
  Tools = {edit}
  WriteTools = {edit}
  GatedTools = {edit}
  GovernedTools = {edit}
  ByGrant = TRUE
  TenantGrants <- MCTenantGrants
  SiteGrants <- MCSiteGrants
  PolicyOf <- MCPolicyOf
PROPERTIES OnlyAnEditDropsTheTunnel
CHECK_DEADLOCK FALSE
