SPECIFICATION FairSpec
CONSTANTS
  A = A
  B = B
  J = J
  Human = Human
  accept = accept
  Role = Role
  s1 = s1
  s2 = s2
  Nobody = Nobody
  Done = Done
PROPERTIES
  TimedPhasesEnd
  RolesRecovered
  OneShotReachesOwner
  EveryTriggerCloses
CHECK_DEADLOCK FALSE
