CONSTANTS
  server = server
  cli = cli
  direction = direction
  Procs = {server, cli}
  Server = server
  Files = {direction}
  Guidance = {direction}
  CutGoFiles = {}
  Named = {}
  Neighbors = {}
  Slugs = {"s"}
  BriefSlugs = {"s"}
  Requests <- MCRequests
  Scripts <- MCScripts
  HeadSecrets = {}
  TailSecrets = {}
  NoText = NoText
  NoPacket = NoPacket
  Torn = Torn
  HeadReturns = FALSE
  MaxBuilds <- MCBuilds
  MaxMoves = 1
  MaxEdits = 0
  MaxTicks = 1
  MaxStops = 1
SPECIFICATION FairSpec
INVARIANTS TypeOK AnswersInOrder
PROPERTY EveryRequestAnswered
CHECK_DEADLOCK FALSE
