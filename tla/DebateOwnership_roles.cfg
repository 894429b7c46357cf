CONSTANTS
  C = C
  R = R
  s1 = s1
  s2 = s2
  Roles = {C, R}
  Sessions = {s1, s2}
  NoSession = NoSession
  Conductor = C
  Executors = {}
  Bindable <- SeatR
  Forms <- AnswerForms
  LegacyLedger <- OldQuestion
  MaxMsgs = 4
  MaxWorkers = 2
  MaxRequeues = 2
  Parts = {"given", "authority", "oneshot"}
SPECIFICATION PartsSpec
CHECK_DEADLOCK FALSE
CONSTRAINT TwoPosts
INVARIANTS
  SeatedAuthority
  OneRunningWorker
  TypeOK
  OneTerminalPerClass
  ParentFinal
  AckIsOwnAnswer
  WorkerIdsNeverReissued
  OneShotAnsweredOnce
PROPERTIES
  CompletedStaysClosed
