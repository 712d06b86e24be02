SPECIFICATION Spec
CONSTANTS
  Callers = {c1, c2, c3}
  MaxTokens = 2
  MaxRevoked = 0
  CanExpire = TRUE
  None = None
INVARIANTS OneTokenRequest
CHECK_DEADLOCK FALSE
