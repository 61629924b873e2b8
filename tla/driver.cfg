SPECIFICATION Spec
CONSTANTS
  Procs = {p1, p2}
  Commands <- MCCommands
  Revisions <- MCRevisions
  Dirs = {"out"}
  Bases = {"space", "named"}
  Missing = Missing
  MaxRuns = 3
  MaxEdits = 1
  MaxFaults = 1
INVARIANTS
  TypeOK
  OutputsBelongTogether
  RefusalsJustified
CHECK_DEADLOCK FALSE
