CONSTANTS
  Fd = {f1}
  Peers <- OneDrone
  Endless <- OneDrone
  RECV_BUF_SIZE = 1
  MAX_EPOLL_EVENTS = 2
  MaxConnections = 1
  MaxBuffered = 2
  MaxBytes = 0
  MaxQueue = 1
  MaxIncidents = 1
SPECIFICATION Spec
CHECK_DEADLOCK FALSE
PROPERTY StopEnds
