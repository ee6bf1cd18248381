SPECIFICATION Spec
CONSTANTS
  Payload = {1}
  MaxTime = 2
  Clients = {c1, c2}
  Inputs <- AllInputs
  MaxWrites = 3
  ChannelCap = 1
  Failures = TRUE
SYMMETRY ClientSymmetry
INVARIANTS
  TypeOK
  EventsFollowInput
  RepliedMeansAccepted
  AdvanceExecutesEarlier
CHECK_DEADLOCK FALSE
