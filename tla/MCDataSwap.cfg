CONSTANTS
  Keys = {k1}
  MaxVersion = 3
  Split = {2}
  Own = Own
  MaxIndex = 2
  Events <- MCEvents
  Payloads <- MCPayloads
  NoPayload = NoPayload
  FailuresInOrder = TRUE
  NoEvent = NoEvent
SPECIFICATION Spec
INVARIANTS TypeOK Fresh NewestKept
PROPERTIES GetEnds
CHECK_DEADLOCK FALSE
