SPECIFICATION Spec
CONSTANT
  MaxTime = 2
INVARIANTS
  NoZeroRate
  SyntaxesAgree
  RpcIsAnswered
  RemoteMeansLocal
