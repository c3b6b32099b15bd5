SPECIFICATION Spec
CONSTANTS
  Commands = {k1, k2}
  Paths = {p1, p2}
  Collections = {"clean", "blocked"}
  Blockers = {"critical finding", "gap"}
  BlockersOf <- MCBlockersOf
  Authors = {"operator"}
  MaxEdits = 2
SYMMETRY MCSymmetry
INVARIANTS
  TypeOK
  ComparedIsApproved
  ApprovedVerifies
PROPERTY
  ReplacesOnlyInRace
CHECK_DEADLOCK FALSE
