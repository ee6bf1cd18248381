SPECIFICATION Spec
CONSTANTS
  MaxTime = 2
  Payload = {1}
  ChannelCap = 2
  MaxCommands = 2
  MaxRun = 2
  Intervals = {1}
  PipeRequests <- SafetyRequests
INVARIANTS
  TypeOK
  AtMostOneLateTick
  AcceptedOnce
  ForwardedInOrder
  NotPassedOver
