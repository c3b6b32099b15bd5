SPECIFICATION Spec
CONSTANTS
  Names <- MCNames
  Short <- MCShort
  Aliases <- MCAliases
  HostNames <- MCHostNames
  HostName <- MCHostName
  NodeNames <- MCNodeNames
  Versions = {v1, v2}
  Outside = {"pdb"}
  Unwatched = {}
INVARIANT NoFalseRemoval
CHECK_DEADLOCK FALSE
