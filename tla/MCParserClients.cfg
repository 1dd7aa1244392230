CONSTANTS
  MAX_PAYLOAD_SIZE <- MCMaxPayload
  FIELD_SIZE = 2
  compute_crc16 <- MCcompute_crc16
  Fd = {f1, f2}
  Peers <- Short
  RECV_BUF_SIZE = 3
  Capacity = 4
  MaxConnections = 3
  MaxQueue = 3
SYMMETRY FdSymmetry
SPECIFICATION Spec
CHECK_DEADLOCK FALSE
INVARIANT Isolation
