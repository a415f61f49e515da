\* An approved action is sent after the backup; the copy finds it absent and rejects it.
SPECIFICATION RecoverySpec
CONSTANTS
  Results = {r1}
  MaxCycles = 1
  Cognitive = FALSE
  MaxCalls = 1
  MaxActions = 1
  MaxAttempts = 1
  MaxChecks = 2
  MaxEpoch = 0
  MaxRestores = 1
  MaxEntries = 5
INVARIANTS
  ReconciledRejectionsStand
