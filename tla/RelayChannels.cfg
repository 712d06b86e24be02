SPECIFICATION Spec
SYMMETRY Symmetry
CONSTANTS
  a1 = a1
  a2 = a2
  t1 = t1
  t2 = t2
  s1 = s1
  s2 = s2
  x = x
  c1 = c1
  c2 = c2
  d1 = d1
  None = None
  Agents = {a1, a2}
  Tokens = {t1, t2}
  Sites <- MCSites
  Catalog <- MCCatalog
  Binds <- MCBinds
  Files <- MCFiles
  Sockets = {k1, k2}
  Digests = {}
  MaxEdits = 1
  MaxOffboards = 1
  Clients = {c1, c2}
  Requests = {r1, r2}
  Tickets = {}
  Tools = {edit}
  WriteTools = {edit}
  GatedTools = {}
  GovernedTools = {edit}
  ByGrant = TRUE
  TenantGrants <- MCTenantGrants
  SiteGrants <- MCSiteGrants
  PolicyOf <- MCPolicyOf
INVARIANTS RunsOnGrantedTenant AnsweredByOwner RetiredTokenIsCut
PROPERTIES ContractSpec
CHECK_DEADLOCK FALSE
