CONSTANTS
  MAX_PAYLOAD_SIZE <- MCMaxPayload
  FIELD_SIZE = 2
  compute_crc16 <- MCcompute_crc16
  Fd = {f1}
  Peers <- StalledOnly
  RECV_BUF_SIZE <- MCRecv
  Capacity <- MCCapacity
  MaxConnections = 1
  MaxQueue = 1
SPECIFICATION Spec
CHECK_DEADLOCK FALSE
PROPERTY NoPacketLostAtErase
