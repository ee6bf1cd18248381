SPECIFICATION FairSpec
CONSTANTS
  MaxTime = 2
  Payload = {1}
  ChannelCap = 1
  MaxCommands = 1
  MaxRun = 0
  Intervals = {0, 1}
  PipeRequests <- LiveRequests
INVARIANT LastWishDecides
PROPERTIES
  CommandIsScheduled
  TickingExecutes
  ReplIsServed
