SPECIFICATION Spec
CONSTANTS
  h1 = h1
  h2 = h2
  h3 = h3
  m1 = m1
  m2 = m2
  Hosts <- MCHosts
  Machines <- MCMachines
  Machine <- MCMachine
  Parallelism = 2
INVARIANT TypeOK
INVARIANT LeftoverReported
INVARIANT ArchiveKeptDuringRun
PROPERTY KeepsPromise
CHECK_DEADLOCK FALSE
