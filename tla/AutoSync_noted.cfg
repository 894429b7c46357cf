CONSTANTS
  Worker = {w1, w2}
  Tray = Tray
  Nobody = Nobody
  MaxWrites = 2
  Cycles = 3
SPECIFICATION Spec
INVARIANT NotedMeansSent
CHECK_DEADLOCK FALSE
