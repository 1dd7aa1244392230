CONSTANTS
  p1 = p1
  p2 = p2
  c1 = c1
  c2 = c2
  Producers <- TwoProducers
  Consumers <- TwoConsumers
  Tokens <- OneConsumerToken
  MaxSize = 0
  MaxPushes = 2
  MaxSpurious = 1
SPECIFICATION Spec
CHECK_DEADLOCK FALSE
INVARIANTS
  TypeOK
  EveryItemHasATaker
PROPERTIES
  QueueSpec
  ItemsTaken
