\* A control command whose save fails while an action is executing.
SPECIFICATION Spec
CONSTANTS
  Results = {r1}
  MaxCycles = 1
  Cognitive = FALSE
  MaxCalls = 1
  MaxActions = 1
  MaxAttempts = 1
  MaxChecks = 2
  MaxEpoch = 2
PROPERTIES
  FailedSaveBlocks
