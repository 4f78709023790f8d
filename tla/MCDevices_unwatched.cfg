SPECIFICATION FairSpec
CONSTANTS
  Requests = {r1}
  Hosts = {h1}
  NoToken = NoToken
  NoDevice = NoDevice
  Threshold = 2
  KeywordLogging = TRUE
  FactoryReady = TRUE
PROPERTY SilentGoesOffline
