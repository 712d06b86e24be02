SPECIFICATION Spec
SYMMETRY Symmetry
CONSTANTS
  a1 = a1
  a2 = a2
  t1 = t1
  t2 = t2
  s1 = s1
  s2 = s2
  x = x
  c1 = c1
  c2 = c2
  d1 = d1
  None = None
  Agents = {a1, a2}
  Tokens = {t1, t2}
  Sites <- MCSites
  Catalog <- MCCatalog
  Binds <- MCBinds
  Files <- MCFiles
  Sockets = {k1, k2}
  Digests = {d1}
  MaxEdits = 0
  MaxOffboards = 1
  Clients = {c1, c2}
  Requests = {r1, r2, r3}
  Tickets = {p1}
  Tools = {edit}
  WriteTools = {edit}
  GatedTools = {edit}
  GovernedTools = {edit}
  ByGrant = FALSE
  TenantGrants <- MCTenantGrants
  SiteGrants <- MCSiteGrants
  PolicyOf <- MCPolicyOf
INVARIANTS OneCallPerTicket GovernedCallsAttested
CHECK_DEADLOCK FALSE
