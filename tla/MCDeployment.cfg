\* Three starts in a window, three processes, one request, five events.
SPECIFICATION DeploymentSpec
CONSTANTS
  Burst = 3
  MaxEvents = 5
  Processes = {p1, p2, p3}
  Commands = {c1}
  Cycles = {w}
INVARIANTS
  CaptureUndisturbed
  WorkerUnderLock
  ConfirmedDurable
PROPERTIES
  ServiceReturns
  CaptureQuiescent
CHECK_DEADLOCK FALSE
