SPECIFICATION FairSpec
CONSTANTS
  Callers = {c1, c2, c3}
  MaxTokens = 3
  MaxRevoked = 2
  CanExpire = TRUE
  None = None
INVARIANTS NoSettledPromise ClearedTokenStaysOut
PROPERTIES EveryCallEnds
CHECK_DEADLOCK FALSE
