SPECIFICATION Spec
CONSTANTS
  s1 = s1
  s2 = s2
  Sessions = {s1}
  Nobody = Nobody
  FirstOwner = s1
  Handovers <- NoHandover
  HookModes = {FALSE}
  Reading = FALSE
  LastTrigger = 3
  MaxRequeues = 0
  MaxConcurrent = 1
  MaxPerScan = 1
  Limit = 2
  MaxFaults = 0
INVARIANT NothingStarves
CHECK_DEADLOCK FALSE
