SPECIFICATION Spec
SYMMETRY Symmetry
CONSTANTS
  Keys = {k1, k2, k3, k4}
  Bearers = {q1, q2, q3}
  Limit = 2
  Cap = 2
  Window = 2
  Overflow = Overflow
  None = None
INVARIANTS TypeOK WithinLimit BoundedState OnlyChargedKeysAreKept
PROPERTIES DeniedUntilReset
