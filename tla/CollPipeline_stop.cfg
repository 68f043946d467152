SPECIFICATION FairSpec
CONSTANTS
  m1 = m1
  m2 = m2
  t1 = t1
  Msgs = {}
  TgfMsgs = {}
  Wanted = {}
  MaxSessions = 1
  MaxLost = 0
  MayFail = FALSE
  MayExit = FALSE
  MayReset = FALSE
PROPERTIES
  StopCompletes
CHECK_DEADLOCK FALSE
