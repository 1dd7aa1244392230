CONSTANTS
  Samples <- MCSamples
  REPORT_INTERVAL = 2
  ALTITUDE_THRESHOLD = 120
  SPEED_THRESHOLD = 50
  MaxPackets = 3
  MaxTime = 5
SPECIFICATION Spec
CHECK_DEADLOCK FALSE
INVARIANTS
  TypeOK
  TableIsLatest
  WindowsTile
  NoWindowOverdue
  LogIsConsistent
