SPECIFICATION FairSpec
CONSTANTS
  Names = {"A", "B"}
  Literals <- MCLiterals
  FieldTypes = {"BOOL"}
  Modifiers = {"OPTIONAL", "PACKED"}
  MaxInt = 3
  MaxTokens = 15
INVARIANTS
  TypeOK
  AcceptedIsTheText
  ErrorAtFirstWrongToken
PROPERTIES
  ParsingEnds
CHECK_DEADLOCK FALSE
