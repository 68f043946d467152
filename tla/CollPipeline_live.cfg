SPECIFICATION FairSpec
CONSTANTS
  m1 = m1
  m2 = m2
  t1 = t1
  Msgs = {m1, t1}
  TgfMsgs = {t1}
  Wanted = {m1}
  MaxSessions = 2
  MaxLost = 1
  MayFail = TRUE
  MayExit = FALSE
  MayReset = FALSE
INVARIANTS
  NoOrphans
PROPERTIES
  PauseHolds
  QueueDrains
  ProducerStops
  RestartFetches
CHECK_DEADLOCK FALSE
