CONSTANTS
  Base <- MCBase
  Word <- MCWord
  Widths <- MCWidths
  Indeterminate = Indeterminate
  Scenarios <- ReuseScenario
SPECIFICATION Spec
PROPERTIES
  ReuseOverwrites
CHECK_DEADLOCK FALSE
