CONSTANTS
  Pairs = {transfer, brokerItself}
  BrokerPairs = {brokerItself}
  Events = {e1, e2}
  NoEvent = NoEvent
  MaxIndex = 2
  Thresholds <- MCThresholds
SPECIFICATION Spec
INVARIANTS TypeOK MessagesDense ExactlyOnceInOrder StatusAgrees
PROPERTIES MessageImmutable ImplementsSettlement
