SPECIFICATION Spec
CONSTANTS
  MaxTime = 2
  Payload = {1}
  MaxCommands = 2
  MaxCuts = 1
  Sources <- AllSources
INVARIANTS
  TypeOK
  LinesAppliedOnce
  DueMeansHeld
  OvertakenByLater
  FileReaderAgrees
