SPECIFICATION FairSpec
CONSTANTS
  Requests = {r1}
  Ping = ping
  Channels <- MCChannels
  ChannelCount = 4
  NoChannel = NoChannel
  MaxAttempts = 2
  LastConnectAttempt = 0
  WithTls = TRUE
  Urls = {"plain", "malformed"}
PROPERTIES RequestTerminates ImplementsFairRetriedCall DeadChannelRemoved Reconnects
