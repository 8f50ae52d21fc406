SPECIFICATION FairSpec
CONSTANTS
  Producers = {p1, p2}
  SendsEach = 2
  MaxAttempts = 2
  ChannelSize = 1
  NoSender = NoSender
INVARIANT IInv
PROPERTIES ProducersFinish StreamEnds
CHECK_DEADLOCK FALSE
