SPECIFICATION Spec
CONSTANTS
  Role = Role
  s1 = s1
  s2 = s2
  d = d
  Nobody = Nobody
  Done = Done
  Sessions = {s1, s2, d}
  Owning <- JustOne
  Diagnosing <- JustD
  V1 = TRUE
  Overridden = TRUE
  Forms <- RecoveryForms
  Limit = 2
  MaxMsgs = 2
CONSTRAINT RecoveryBound
INVARIANT CompletedByOwner
