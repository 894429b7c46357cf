SPECIFICATION LegacySpec
CONSTANTS
  Role = Role
  s1 = s1
  s2 = s2
  d = d
  Nobody = Nobody
  Done = Done
  Sessions = {s1, s2, d}
  Owning <- Owned
  Diagnosing <- JustD
  V1 = FALSE
  Overridden = FALSE
  Forms <- LegacyForms
  Limit = 1
  MaxMsgs = 2
CONSTRAINT LegacyBound
SYMMETRY Symmetry
VIEW WithoutSeat
INVARIANTS
  TypeOK
  OneShotShownToOne
  CompletedByOwner
PROPERTY CursorsForward
