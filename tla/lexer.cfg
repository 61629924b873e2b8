SPECIFICATION FairSpec
CONSTANTS
  Sources <- MCSources
  keywords <- MCKeywords
  MaxLength = 4
  MaxCommented = 6
INVARIANTS
  TypeOK
  LexemesExact
  LocationsRight
PROPERTIES
  TokensArrive
