SPECIFICATION GSpec
CONSTANTS
  Schemas <- OrderSchemas
  FileNames = {""}
INVARIANTS
  DeclaredBeforeUse
CHECK_DEADLOCK FALSE
