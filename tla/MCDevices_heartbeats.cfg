SPECIFICATION FairSpec
CONSTANTS
  Requests = {r1, r2}
  Hosts = {h1, h2}
  NoToken = NoToken
  NoDevice = NoDevice
  Threshold = 2
  KeywordLogging = TRUE
  FactoryReady = TRUE
INVARIANTS
  TypeOK
  AgentIsLetIn
  OfflineIsSilent
PROPERTY SpeakingGoesOnline
