\* Two services, one after the other, and two requests.
SPECIFICATION ShutdownSpec
CONSTANTS
  Processes = {p1, p2}
  Commands = {c1, c2}
  Cycles = {w}
CHECK_DEADLOCK FALSE
INVARIANTS
  SoleWriter
