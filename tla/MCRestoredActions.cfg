\* The write queue and the model budget when the snapshot is older than the destination.
SPECIFICATION RecoverySpec
CONSTANTS
  Results = {r1}
  MaxCycles = 1
  Cognitive = TRUE
  MaxCalls = 1
  MaxActions = 1
  MaxAttempts = 1
  MaxChecks = 3
  MaxEpoch = 1
  MaxRestores = 1
  MaxEntries = 5
INVARIANTS
  DiskLoadable
  ReviewFirst
  SpendingBounded
PROPERTIES
  EveryPutIsLicensed
