SPECIFICATION FairSpec
CONSTANTS
  s1 = s1
  s2 = s2
  c1 = c1
  Procs = {s1, s2}
  Clients = {c1}
  Asked <- MCAsked
  MayCut = TRUE
INVARIANTS
  OneServes
  DoneMeansRun
PROPERTIES
  StartupServes
  CommandsEnd
