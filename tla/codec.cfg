CONSTANTS
  Base <- MCBase
  Word <- MCWord
  Widths <- MCWidths
  Indeterminate = Indeterminate
  Scenarios <- CodecScenarios
SPECIFICATION FairSpec
INVARIANTS
  TypeOK
  RoundTrip
  KnownFieldsSurvive
  MergeSemantics
  InStep
  NeverOverruns
PROPERTIES
  Transfers
  CallsEnd
CHECK_DEADLOCK FALSE
