CONSTANTS
  Pairs = {p1}
  Pair = p1
  Callers = {c1, c2}
  MaxIndex = 2
  MaxOrphans = 1
  Thresholds <- MCThresholds
  RollbackWindow = 1
SPECIFICATION SubmitSpec
INVARIANTS SubmitTypeOK ReplyTrue RunOnce
PROPERTIES CallReturns
