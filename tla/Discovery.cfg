CONSTANTS
  NameCount = 4
  Reserved = {4}
  Ids <- AllIds
  Stem <- FileStems
  Canonical <- CanonicalIds
  Dotted = {"a.b"}
  NoEntry = NoEntry
  Unparsable = Unparsable
  Entries <- AllEntries
  Saved <- SavedEntries
  Directories <- AllDirectories
  Roots = {"top", "sub", "bracket"}
  Together <- Pairs
  Wanted = {"b", "a.b"}
  MaxSaves = 1
SPECIFICATION Spec
INVARIANTS EntriesAccountedFor ListedIdsUnique ValidMeansListed CleanMeansNoneFinished ListedIsFound
CHECK_DEADLOCK FALSE
