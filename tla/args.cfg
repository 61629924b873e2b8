SPECIFICATION FairSpec
CONSTANTS
  Letters <- MCLetters
  Options <- MCOptions
  CommandLines <- MCCommandLines
INVARIANTS
  TypeOK
  ParseExact
PROPERTIES
  ParseEnds
CHECK_DEADLOCK FALSE
