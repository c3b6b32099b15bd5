SPECIFICATION Spec
CONSTANTS
  Keys = {"f1", "f2", "f3"}
  Rank <- MCRank
  Nodes = {"n1", "n2"}
  Capacity = 2
  NodeLimit = 1
  Kinds <- MCKinds
  IncidentStart = 0
  IncidentEnd = 8
  Groups <- MCGroups
  Window = 2
  Limits <- MCLimits
  EpisodeLimit = 2
INVARIANTS
  RangeHoldsTotal
  ExactIsExact
  EveryRecordIsAccounted
  FairShare
  EpisodesMissNothing
CHECK_DEADLOCK FALSE
