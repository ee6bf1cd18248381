SPECIFICATION CallSpec
CONSTANTS
  MaxTime = 2
  Payload = {1, 2}
  StartTimes = {0}
  MaxCommands = 3
  MaxRun = 2
INVARIANTS
  TypeOK
  ExactlyOnce
  NeverEarly
  InOrderUnlessLate
  DueOnlyIfLate
  CallIsOneStep
PROPERTIES
  TimeNeverGoesBack
  KeepsPromise
