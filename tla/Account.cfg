SPECIFICATION FairSpec
CONSTANTS
  ours = ours
  other = other
  Ours = ours
  Typed <- MCTyped
  Known <- MCKnown
INVARIANTS
  HintMeansCredentials
  CollectorReadsPair
  LoggedInUsable
PROPERTIES
  AuthEnds
