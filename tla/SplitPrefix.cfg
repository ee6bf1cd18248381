SPECIFICATION Spec
CONSTANTS
  Messages <- NewlineInPrefix
  MaxMessages = 1
INVARIANTS DecodedAsWritten
CHECK_DEADLOCK FALSE
