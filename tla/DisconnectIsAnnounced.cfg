SPECIFICATION FairSpec
CONSTANTS
  Payload = {1}
  MaxTime = 2
  Clients = {c1}
  Inputs <- LiveInputs
  MaxWrites = 2
  ChannelCap = 1
  Failures = FALSE
PROPERTIES DisconnectIsAnnounced
CHECK_DEADLOCK FALSE
