SPECIFICATION Spec
CONSTANTS
  Paths = {1, 2, 3}
  FileKinds <- MCFileKinds
  Identifiers = {"i"}
  MaxIndexed = 2
  DefaultLimits <- MCDefaultLimits
  Overrides <- MCOverrides
INVARIANTS
  WithinLimits
  Accounted
  RankRespected
  EmittedWasScanned
  TruncatedIffRecorded
  ExplainMatchesItems
CHECK_DEADLOCK FALSE
