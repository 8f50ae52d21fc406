SPECIFICATION Spec
CONSTANTS
  Producers = {p1, p2}
  SendsEach = 3
  MaxAttempts = 3
  ChannelSize = 2
  NoSender = NoSender
SYMMETRY ProducerSymmetry
INVARIANTS TypeOK FirstAttemptLosesNothing AttemptsSplitTheStream FirstEndIsWhole SoleProducerNeverPanics VectorEndIsWhole
PROPERTY ImplementsStreamDelivery
CHECK_DEADLOCK FALSE
