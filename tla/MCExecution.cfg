\* Writes of 1 to 3 units against limits of 2 (stdout) and 1 (stderr); two broker slots
\* show a full and a draining broker; any number of Docker executions.
SPECIFICATION ExecutionSpec
CONSTANTS
  Slots = 2
  Runtimes = {"wasi", "process", "docker"}
  Limit = 2
  StderrLimit = 1
  MaxWrites = 3
INVARIANTS
  LeavesNothing
  ResultIsComplete
PROPERTIES
  ForeignKept
  OrphansReclaimed
  ExecutionEnds
CHECK_DEADLOCK FALSE
