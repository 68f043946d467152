SPECIFICATION Spec
CONSTANTS
  m1 = m1
  m2 = m2
  t1 = t1
  Msgs = {m1, m2}
  TgfMsgs = {}
  Wanted = {m1, m2}
  MaxSessions = 1
  MaxLost = 0
  MayFail = TRUE
  MayExit = TRUE
  MayReset = TRUE
INVARIANTS
  TypeOK
  AtMostOnce
  CreatesJustified
  ChatKnown
  HalfDuplex
PROPERTIES
  BatchStable
  KeepsPromise
CHECK_DEADLOCK FALSE
