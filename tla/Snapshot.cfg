SPECIFICATION FairSpec
CONSTANTS
  Hosts = {h1, h2}
INVARIANT ExitZeroIsComplete
INVARIANT IndexIsBacked
INVARIANT ManifestSealsReport
PROPERTY Terminates
CHECK_DEADLOCK FALSE
