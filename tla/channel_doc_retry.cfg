SPECIFICATION Spec
CONSTANTS
  Requests = {r1}
  Ping = ping
  Channels <- MCChannels
  ChannelCount = 4
  NoChannel = NoChannel
  MaxAttempts = 2
  LastConnectAttempt = 0
  WithTls = TRUE
  Urls = {"plain"}
PROPERTY RetryOnlyOnDisconnect
