CONSTANTS
  C = C
  R = R
  s1 = s1
  s2 = s2
  Roles = {C, R}
  Sessions = {s1, s2}
  NoSession = NoSession
  Conductor = C
  Executors = {}
  Bindable <- SeatR
  Forms <- GateForms
  LegacyLedger <- NoLegacy
  MaxMsgs = 4
  MaxWorkers = 1
  MaxRequeues = 1
  Parts = {"given"}
SPECIFICATION PartsSpec
SYMMETRY MCSymmetry
CHECK_DEADLOCK FALSE
INVARIANTS
  ResolvedMeansAnswered
