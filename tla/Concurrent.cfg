CONSTANTS
  a = a
  b = b
  readme = readme
  p = p
  q = q
  Tasks = {a, b}
  Docs = {}
  NoTask = NoTask
  NoFile = NoFile
  Procs = {p, q}
  References <- MutualTasks
  SelfCites = {}
  Placements = {"open", "done", "filed", "shadowed"}
  TornOutcomes = {}
  MaxStops = 1
  MaxEdits = 0
  RerunFirst = FALSE
SYMMETRY ProcSymmetry
SPECIFICATION Spec
INVARIANTS BodySurvives FiledIsFinished
PROPERTIES SlotsKeepTheirOwner
