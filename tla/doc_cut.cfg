CONSTANTS
  Base <- MCBase
  Word <- MCWord
  Widths <- MCWidths
  Indeterminate = Indeterminate
  Scenarios <- CutScenario
SPECIFICATION Spec
PROPERTIES
  TruncatedDataFails
CHECK_DEADLOCK FALSE
