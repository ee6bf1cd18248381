SPECIFICATION Spec
CONSTANT
  MaxTime = 2
INVARIANT
  ReplyMatchesId
