CONSTANTS
  Pairs = {brokerItself}
  BrokerPairs = {brokerItself}
  Events = {e1}
  NoEvent = NoEvent
  MaxIndex = 2
  Thresholds <- MCThresholds
SPECIFICATION RollbackEndSpec
PROPERTIES RollbackDecided
