SPECIFICATION Spec
CONSTANTS
  Producers = {p1}
  SendsEach = 2
  MaxAttempts = 2
  ChannelSize = 1
  NoSender = NoSender
INVARIANT RetryIsTheRequest
CHECK_DEADLOCK FALSE
