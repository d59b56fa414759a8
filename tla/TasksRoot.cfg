CONSTANTS
  NameCount = 4
  Reserved = {4}
  Ids <- AllIds
  Stem <- FileStems
  Canonical <- CanonicalIds
  Dotted = {"a.b"}
  NoEntry = NoEntry
  Unparsable = Unparsable
  Entries <- AllEntries
  Saved <- SavedEntries
  Directories <- AllDirectories
  Roots = {"top", "sub"}
  Together <- Pairs
  Wanted = {"b", "a.b"}
  MaxSaves = 0
SPECIFICATION Spec
INVARIANTS ReadsTopLevel
CHECK_DEADLOCK FALSE
