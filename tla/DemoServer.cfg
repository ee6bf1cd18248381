SPECIFICATION FairSpec
CONSTANTS
  MaxTime = 4
  Payload = {1, 2}
  ScaleTime = 1
  Scripts <- SomeScripts
  MaxInputs = 3
  WireCap = 1
  MaxSessions = 2
INVARIANTS
  TypeOK
  NoneVanishes
  ReadInOrder
  LossIsBounded
  WaitOnTime
PROPERTIES
  MainIsServed
  ListensAgain
