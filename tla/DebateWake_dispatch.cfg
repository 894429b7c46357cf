SPECIFICATION Spec
CONSTANTS
  s1 = s1
  s2 = s2
  Sessions = {s1, s2}
  Nobody = Nobody
  FirstOwner = s1
  Handovers <- OneWay
  HookModes = {TRUE, FALSE}
  Reading = TRUE
  LastTrigger = 1
  MaxRequeues = 1
  MaxConcurrent = 2
  MaxPerScan = 2
  Limit = 2
  MaxFaults = 1
INVARIANTS TypeOK ClosedIsSettled OpenIsQueued TwinsAreExplained
PROPERTY ServesAsJobs
CHECK_DEADLOCK FALSE
CONSTRAINT OneDisturbance
