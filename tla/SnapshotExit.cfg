SPECIFICATION Spec
CONSTANTS
  Hosts = {h1, h2}
INVARIANT PartialIsSaved
CHECK_DEADLOCK FALSE
