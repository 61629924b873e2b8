CONSTANTS
  Base <- MCBase
  Word <- MCWord
  Streams <- MCStreams
SPECIFICATION FairSpec
CHECK_DEADLOCK FALSE
INVARIANTS
  TypeOK
  SelfDelimiting
  WholeRoundTrip
  ShiftDefined
  LoopsComputeWire
PROPERTY
  Terminates
