\* The service and the offline commands: two cycles, a model budget of one call more,
\* one write action ahead of them.
SPECIFICATION FairSpec
CONSTANTS
  Results = {r1, r2}
  MaxCycles = 2
  Cognitive = TRUE
  MaxCalls = 3
  MaxActions = 1
  MaxAttempts = 1
  MaxChecks = 2
  MaxEpoch = 2
INVARIANTS
  TypeOK
  CycleLedger
  ArtifactsDurable
  CallsWithinBudget
PROPERTIES
  LateResultsDiscarded
  LifecycleHolds
  ServiceAdvances
  ExecutionsEnd
  SignalEnds
