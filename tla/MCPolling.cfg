CONSTANTS
  Pairs <- MCPairs
  OutPairs <- MCOutPairs
  SrcOf <- MCSrcOf
  Flaky <- MCFlaky
  Irregular = {1}
  MaxIndex = 2
  MaxResets = 1
SPECIFICATION Spec
INVARIANTS TypeOK InOrder CounterHonest
PROPERTIES NothingLost StopReturns
CHECK_DEADLOCK FALSE
