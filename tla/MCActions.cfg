\* The write queue: two actions ahead of one cycle.
SPECIFICATION Spec
CONSTANTS
  Results = {r1}
  MaxCycles = 1
  Cognitive = FALSE
  MaxCalls = 1
  MaxActions = 2
  MaxAttempts = 2
  MaxChecks = 3
  MaxEpoch = 1
INVARIANTS
  NoUnsavedState
  PutsReserved
  DiskLoadable
  CompletedQueueSettled
PROPERTIES
  EveryPutIsLicensed
  LedgerHolds
