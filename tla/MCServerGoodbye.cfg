CONSTANTS
  MaxEvents = 1
  MaxReady = 2
  MaxItems = 1
  MaxLines = 1
SPECIFICATION Spec
CHECK_DEADLOCK FALSE
INVARIANT ListenerSaysGoodbye
