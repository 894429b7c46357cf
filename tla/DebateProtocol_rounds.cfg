CONSTANTS
  A = A
  B = B
  J = J
  Human = Human
  accept = accept
  refuse = refuse
  Roles = {A, B, J}
  Blind = {A, B}
  Recoverable = {A, B, J}
  Seated = {A, B, J}
  Movable = {J}
  Acts <- AllActs
  Decisions = {accept, refuse}
  MaxRounds = 2
  MaxMsgs = 6
  Role = Role
  s1 = s1
  s2 = s2
  Nobody = Nobody
  Done = Done
SPECIFICATION PartsSpec
CONSTRAINT InboxBound
VIEW WithoutSigned
INVARIANTS
  TypeOK
  ClaimsIndependent
  RoundCountsVerifies
  AdjudicatedIsSettled
  StoppedByAgreement
  OneHumanPacket
  OwnerMissesNothing
PROPERTIES
  PhasesMoveForward
CHECK_DEADLOCK FALSE
