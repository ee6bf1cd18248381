SPECIFICATION Spec
CONSTANTS
  Messages <- SafeMessages
  MaxMessages = 4
INVARIANTS DecodedAsWritten NothingLeftAtEnd
CHECK_DEADLOCK FALSE
