CONSTANTS
  a = a
  b = b
  readme = readme
  p = p
  q = q
  Tasks = {a, b}
  Docs = {readme}
  NoTask = NoTask
  NoFile = NoFile
  Procs = {p}
  References <- Mutual
  SelfCites = {}
  Placements = {"open", "done", "canceled", "filed", "shadowed"}
  TornOutcomes = {}
  MaxStops = 2
  MaxEdits = 1
  RerunFirst = TRUE
SPECIFICATION Spec
INVARIANTS LinksResolve
PROPERTIES RemovedOnlyOnceFiled LiveNeverRewritten ImplementsBoard
