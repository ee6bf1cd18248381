SPECIFICATION FairSpec
CONSTANTS
  Payload = {1}
  MaxTime = 2
  Clients = {c1, c2}
  Inputs <- LiveInputs
  MaxWrites = 3
  ChannelCap = 1
  Failures = FALSE
PROPERTIES HandlersEnd
CHECK_DEADLOCK FALSE
