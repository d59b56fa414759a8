CONSTANTS
  Procs = {p}
  ScanInputs = {"Makefile", "direction"}
  Makefile = "Makefile"
  GuidanceInputs = {"direction"}
  Drafts = 2
  FirstTexts = {"plain"}
  Branches = {"main", "feature"}
  FirstRefs <- TwoBranches
  TornFiles = {"config", "md", "json", "draft"}
  MaxStops = 2
  MaxEdits = 1
  MaxCommits = 1
  MaxSwitches = 2
  MaxPacks = 1
  MaxEvents = 2
SPECIFICATION FairSpec
INVARIANTS NoSecretQuoted RevisionWasCurrent ConfigKept OutputsAgree
PROPERTIES InitConverges
