CONSTANTS
  p1 = p1
  p2 = p2
  c1 = c1
  c2 = c2
  Producers <- TwoProducers
  Consumers <- OneConsumer
  Tokens <- AllTokens
  MaxSize = 1
  MaxPushes = 3
  MaxSpurious = 1
SPECIFICATION Spec
CHECK_DEADLOCK FALSE
INVARIANTS
  Bounded
  EverySlotHasATaker
PROPERTIES
  QueueSpec
  StopUnblocks
  SlotsAreUsed
