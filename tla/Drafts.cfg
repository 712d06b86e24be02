SPECIFICATION Spec
CONSTANTS
  c1 = c1
  c2 = c2
  Calls = {c1, c2}
  Slots = {1, 2}
  Editor = Editor
  MaxRevs = 4
  MaxEdits = 1
  Scenarios <- MCScenarios
INVARIANTS AgentNeverPublishes NoLostDraft FinishedMeansLanded EveryPreparedReported RefusedWroteNothing
CHECK_DEADLOCK FALSE
