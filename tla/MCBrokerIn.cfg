CONSTANTS
  Pairs = {p1, p2}
  MaxIndex = 2
  Thresholds <- MCThresholds
  RollbackWindow = 1
SPECIFICATION Spec
INVARIANTS TypeOK RollbackBehind CallsPaired ReceiptForEach ReceiptTruth
PROPERTIES RollbackFinal ImplementsDelivery
