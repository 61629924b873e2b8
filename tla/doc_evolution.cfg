CONSTANTS
  Base <- MCBase
  Word <- MCWord
  Widths <- MCWidths
  Indeterminate = Indeterminate
  Scenarios <- EvolutionScenario
SPECIFICATION Spec
INVARIANTS
  KnownFieldsSurvive
CHECK_DEADLOCK FALSE
