CONSTANTS
  Calls <- MCCalls
  Packets <- MCPackets
  Needs <- MCNeeds
  Advertised = {"context.scope"}
  Files = 2
  Lines = 3
SPECIFICATION Spec
INVARIANTS ExitSaysWhatHappened MisuseChangesNothing ErrorsAreAnnounced IntelPassesThrough DiffIsExact
CHECK_DEADLOCK FALSE
