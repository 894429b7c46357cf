CONSTANTS
  Machine = {1, 2}
  Status = {"todo", "doing", "archived"}
  NoTask = NoTask
  Worlds <- MCWorlds
  Task = {t1}
  Window = {w1, w2}
  Candidate = {c1, c2}
  TaskStatus = {"not_started", "done", "archived"}
  MaxWrites = 4
  Run = {r1, r2}
  Second = {1, 2, 3}
  Variants = 2
  Keep = 2
  Old = {1, 2}
SPECIFICATION PartsSpec
CONSTRAINT ClickingOrReviewing
INVARIANTS
  StoreTypeOK
  NoResurrection
  WatermarkSafe
  QuietAgree
  ClickFollowsSight
  UndoRestores
  AppliedAsReviewed
  NewestKept
  RetentionHolds
PROPERTY NoSilentReopen
CHECK_DEADLOCK FALSE
