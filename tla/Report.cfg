SPECIFICATION Spec
CONSTANTS
  Worlds <- MCWorlds
  LineIds <- Lines
  OptionalSources <- MCOptionalSources
  MaxEvidence = 3
  MaxGraphNodes = 22
  MaxGraphEdges = 200
  MaxLosses = 1
INVARIANTS
  TypeOK
  FindingsSurviveCompletion
  NotMatchedIsConclusive
  LedgerIsBacked
  ResolvedIsOver
  ExplainedIsConnected
CHECK_DEADLOCK FALSE
