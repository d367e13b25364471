CONSTANTS
  Pairs = {transfer}
  BrokerPairs = {}
  Events = {e1}
  NoEvent = NoEvent
  MaxIndex = 1
  Thresholds <- MCThresholds
SPECIFICATION EmittingSpec
PROPERTIES DirectEmissionRecorded
