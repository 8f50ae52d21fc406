SPECIFICATION FairSpec
CONSTANTS
  Tasks = {t1, t2}
  Endpoints <- MCEndpoints
  NoPort = ""
  LastConnectAttempt = 3
INVARIANTS IInv ReachesOwnEndpoint
PROPERTIES ConnectsThroughLiveTunnel EveryConnectEnds
