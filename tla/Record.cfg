CONSTANTS
  Executions = {"run", "other"}
  MaxRevision = 2
  DocSchemas = {"provenance", "provenance/v2"}
  Payloads <- MCPayloads
  None = None
SPECIFICATION Spec
CHECK_DEADLOCK FALSE
INVARIANTS ExitSaysWhatWasFound IntactMeansSealed JudgementsAreVouchedFor
