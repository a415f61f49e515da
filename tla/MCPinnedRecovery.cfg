\* Two cycles, two versions of the script, a model budget, two restores.
SPECIFICATION PinnedRecoverySpec
CONSTANTS
  Results = {r1, r2}
  MaxCycles = 2
  Cognitive = TRUE
  MaxCalls = 2
  MaxActions = 0
  MaxAttempts = 1
  MaxChecks = 1
  MaxEpoch = 1
  MaxRestores = 2
  MaxEntries = 5
  Scripts = {s1, s2}
  Unattested = Unattested
SYMMETRY ScriptSymmetry
INVARIANTS
  BackupRestorable
  RunsAttested
  OneScriptAfterRestore
  ConfirmedCyclesRan
