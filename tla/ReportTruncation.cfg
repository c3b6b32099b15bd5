SPECIFICATION Spec
CONSTANTS
  Worlds <- MCWorlds
  LineIds <- Lines
  OptionalSources <- MCOptionalSources
  MaxEvidence = 3
  MaxGraphNodes = 22
  MaxGraphEdges = 200
  MaxLosses = 1
INVARIANTS
  TruncationIsAGap
CHECK_DEADLOCK FALSE
