CONSTANTS
  Base <- MCBase
  Word <- MCWord
  Widths <- MCWidths
  Indeterminate = Indeterminate
  Scenarios <- RoundTripScenario
SPECIFICATION Spec
INVARIANTS
  RoundTrip
CHECK_DEADLOCK FALSE
