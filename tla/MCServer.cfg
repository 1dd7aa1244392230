CONSTANTS
  MaxEvents = 1
  MaxReady = 1
  MaxItems = 1
  MaxLines = 1
SPECIFICATION Spec
CHECK_DEADLOCK FALSE
INVARIANTS
  TypeOK
  NoLineLost
  LoggerLeavesLast
PROPERTIES
  EndsWithSummaries
  ShutdownCompletes
