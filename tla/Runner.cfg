SPECIFICATION FairSpec
CONSTANTS
  Leader = leader
  Descendants = {child}
  MaxStdoutBytes = 2
  MaxStderrBytes = 1
  ChunkSize = 2
  PipeSize = 2
  MaxWritten = 3
INVARIANT TypeOK
INVARIANT CollectedIsComplete
INVARIANT DropsOnlyAtLimit
INVARIANT SignalsOwnGroup
INVARIANT NoZombie
INVARIANT ResultIsOutcome
PROPERTY ReturnsOnceReleased
CHECK_DEADLOCK FALSE
