SPECIFICATION Spec
CONSTANTS
  Tenants = {"red", "blue"}
  Principals = {"a", "b", "c"}
  Clients = {"ann", "bob", "cat", "dan"}
  KeyOf <- MCKeyOf
  PolicyOf <- MCPolicyOf
  Grants <- MCGrants
  Requests = {"r1", "r2", "r3", "r4", "r5"}
  Ids = {"r1", "r2", "r3", "r4", "r5", "bogus"}
  Offboards = {"o1", "o2"}
  KeyBound = 2
  MaxTime = 4
  MaxRows = 4
  MaxEvidence = 3
  MaxStrays = 2
  MaxHellos = 2
  Scenarios <- MCScenarios
INVARIANTS LocksAreEarnedAndKept ReconciliationIsTrue ExportIsTrue
CHECK_DEADLOCK FALSE
