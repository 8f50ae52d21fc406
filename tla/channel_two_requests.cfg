SPECIFICATION Spec
CONSTANTS
  Requests = {r1, r2}
  Ping = ping
  Channels <- MCChannels
  ChannelCount = 5
  NoChannel = NoChannel
  MaxAttempts = 1
  LastConnectAttempt = 0
  WithTls = TRUE
  Urls = {"plain", "malformed"}
SYMMETRY RequestSymmetry
INVARIANTS IInv FailedChannelStaysOut
