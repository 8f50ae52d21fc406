SPECIFICATION FairSpec
CONSTANTS
  Requests = {r1}
  Ping = ping
  Channels <- MCChannels
  ChannelCount = 4
  NoChannel = NoChannel
  MaxAttempts = 1
  LastConnectAttempt = 0
  WithTls = TRUE
  Urls = {"plain", "malformed"}
PROPERTY PingLoopReconnects
