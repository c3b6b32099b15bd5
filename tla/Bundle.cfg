SPECIFICATION Spec
CONSTANTS
  Commands = {c1, c2, c3}
  Rules = {r1, r2}
  MaxRunning = 2
  MaxAccidents = 1
SYMMETRY Symmetry
INVARIANT ManifestCoversOneBuild
INVARIANT VerifyIsExact
INVARIANT WriterLeavesMatch
INVARIANT CandidateFromOneBuild
CHECK_DEADLOCK FALSE
