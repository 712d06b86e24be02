SPECIFICATION MCSpec
CONSTANTS
  Principals <- MCPrincipals
  BudgetKey <- MCBudgetKey
  Clients <- MCClients
  PrincipalOf <- MCPrincipalOf
  Direct <- MCDirect
  Calls <- MCCalls
  MaxWalks = 2
  SessionCap = 1
  MaxDrops = 2
  MaxTokens = 2
  MaxFaults = 1
  Site = "main"
  Inventory <- MCInventory
  ClientOrder <- MCClientOrder
INVARIANTS
  ListedOrTold
  OneExpiryIsSurvived
  GreenIsProven
CHECK_DEADLOCK FALSE
