SPECIFICATION FairSpec
CONSTANTS
  c1 = c1
  c2 = c2
  i1 = i1
  i2 = i2
  i3 = i3
  Clients = {c1, c2}
  Requests <- Commands
  LazyMsgs <- LazyKinds
  Initers = {i1, i2, i3}
  MaxRequests = 3
  MaxLazy = 1
  Started = FALSE
INVARIANTS
  TypeOK
  OneCollector
PROPERTIES
  StopIsStop
  StartIsStart
  ShutdownStopsFirst
  ShutdownEnds
  ClientsReturn
  LoneLazyTaken
CHECK_DEADLOCK FALSE
