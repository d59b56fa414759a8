CONSTANTS
  p = p
  q = q
  direction = direction
  source = source
  Procs = {p, q}
  Files = {direction, source}
  Guidance = {direction}
  CutGoFiles = {source}
  Named = {source}
  Neighbors = {source}
  Slugs = {"s", "u"}
  Requests <- MCRequests
  HeadSecrets = {1}
  TailSecrets = {0}
  NoText = NoText
  NoPacket = NoPacket
  Torn = Torn
  HeadReturns = FALSE
  MaxBuilds <- OneBuildEach
  MaxMoves = 1
  MaxEdits = 2
  MaxTicks = 1
  MaxStops = 1
SYMMETRY ProcSymmetry
SPECIFICATION BuildSpec
INVARIANTS
  CarriesOnlyScanned
  RevisionPinned
  SoleExportsAgree
  ReadBackIsOwn
CHECK_DEADLOCK FALSE
