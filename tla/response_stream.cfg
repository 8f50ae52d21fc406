SPECIFICATION FairSpec
CONSTANTS
  Senders = {s1, s2}
  ItemsEach = 5
  ChunkSize = 2
  WriterSends = 1
  ChannelSize = 1
  Window = 1
  Sides = {"helper", "writer"}
  Kinds = {"collect", "first", "single", "next"}
  Handler = Handler
INVARIANTS IInv AcknowledgedIsReceived WholeUnlessCutShort ReceivedIsPrefix
PROPERTIES ImplementsStreamDelivery EverySenderEnds ResponseEnds
CHECK_DEADLOCK FALSE
