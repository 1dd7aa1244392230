CONSTANTS
  Fd = {f1, f2}
  Peers <- OneDrone
  Endless <- NoDrones
  RECV_BUF_SIZE = 1
  MAX_EPOLL_EVENTS = 2
  MaxConnections = 3
  MaxBuffered = 2
  MaxBytes = 2
  MaxQueue = 1
  MaxIncidents = 1
SPECIFICATION Spec
CHECK_DEADLOCK FALSE
INVARIANTS
  TypeOK
  NoEdgeLost
  EventsAreCurrent
  EveryFdOwned
PROPERTIES
  FeedsTheParser
  OrderlyCloseReadsAll
  ClientsAreServed
  ConnectionsAreAccepted
