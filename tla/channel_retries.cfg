SPECIFICATION TimedSpec
CONSTANTS
  Requests = {r1}
  Ping = ping
  Channels <- MCChannels
  ChannelCount = 4
  NoChannel = NoChannel
  MaxAttempts = 2
  LastConnectAttempt = 1
  WithTls = TRUE
  Urls = {"plain", "malformed"}
INVARIANTS TypeOK LatencyBound
PROPERTY ImplementsRetriedCall
