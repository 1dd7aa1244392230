CONSTANTS
  MAX_PAYLOAD_SIZE <- MCMaxPayload
  FIELD_SIZE = 2
  compute_crc16 <- MCcompute_crc16
  Fd = {f1}
  Peers <- Drones
  RECV_BUF_SIZE <- MCRecv
  Capacity <- MCCapacity
  MaxConnections = 1
  MaxQueue = 2
SPECIFICATION Spec
CHECK_DEADLOCK FALSE
INVARIANTS
  TypeOK
  RoomForEveryChunk
  CachedLengthFresh
  NeverSkips
  TakenArePackets
  FragmentationIndependent
  DeliversWhatWasSent
PROPERTIES
  ProcessReturns
  StopEnds
