SPECIFICATION Spec
CONSTANTS
  Role = Role
  s1 = s1
  s2 = s2
  d = d
  Nobody = Nobody
  Done = Done
  Sessions = {s1, s2}
  Owning <- JustOne
  Diagnosing <- NoOne
  V1 = TRUE
  Overridden = TRUE
  Forms <- BlindForms
  Limit = 2
  MaxMsgs = 2
CONSTRAINT ProtocolBound
PROPERTY AcknowledgedWasShown
