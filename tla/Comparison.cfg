SPECIFICATION Spec
CONSTANTS
  Names <- MCNames
  Short <- MCShort
  Aliases <- MCAliases
  HostNames <- MCHostNames
  HostName <- MCHostName
  NodeNames <- MCNodeNames
  Versions = {v1, v2}
  Outside = {"pdb"}
  Unwatched = {"prometheus"}
INVARIANT TypeOK
INVARIANT DriftIsReported
INVARIANT NoChangesIsExact
 
CHECK_DEADLOCK FALSE
