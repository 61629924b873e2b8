SPECIFICATION GSpec
CONSTANTS
  Schemas <- MCSchemas
  FileNames = {"", "given"}
INVARIANTS
  TypeOK
  ErrorsExact
  AcceptsWellFormed
  GeneratedHoldsTogether
CHECK_DEADLOCK FALSE
