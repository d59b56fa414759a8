CONSTANTS
  a = a
  b = b
  readme = readme
  p = p
  q = q
  Tasks = {a, b}
  Docs = {readme}
  NoTask = NoTask
  NoFile = NoFile
  Procs = {p}
  References <- Mutual
  SelfCites = {}
  Placements = {"open", "done", "canceled", "filed"}
  TornOutcomes = {"head"}
  MaxStops = 2
  MaxEdits = 0
  RerunFirst = TRUE
SPECIFICATION FairSpec
PROPERTIES CompletionConverges SweepConverges
