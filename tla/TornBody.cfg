CONSTANTS
  a = a
  b = b
  readme = readme
  p = p
  q = q
  Tasks = {a, b}
  Docs = {readme}
  NoTask = NoTask
  NoFile = NoFile
  Procs = {p}
  References <- Mutual
  SelfCites = {}
  Placements = {"open", "done", "canceled", "filed", "shadowed"}
  TornOutcomes = {"head"}
  MaxStops = 1
  MaxEdits = 0
  RerunFirst = TRUE
SPECIFICATION Spec
PROPERTIES RemovedOnlyOnceFiled
CHECK_DEADLOCK FALSE
