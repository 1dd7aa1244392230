CONSTANTS
  Byte <- MCByte
  Capacity <- MCCapacity
  Chunk <- MCChunk
  Request <- MCRequest
SPECIFICATION Spec
INVARIANTS
  TypeOK
  HeadFollowsContents
PROPERTY FifoSpec
