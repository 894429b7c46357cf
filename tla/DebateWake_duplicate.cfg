SPECIFICATION Spec
CONSTANTS
  s1 = s1
  s2 = s2
  Sessions = {s1}
  Nobody = Nobody
  FirstOwner = s1
  Handovers <- NoHandover
  HookModes = {TRUE}
  Reading = TRUE
  LastTrigger = 1
  MaxRequeues = 1
  MaxConcurrent = 2
  MaxPerScan = 2
  Limit = 2
  MaxFaults = 0
INVARIANT OneRunner
CHECK_DEADLOCK FALSE
