CONSTANTS
  Sender = alice
  Receivers = {bob}
  Absentees = {carol}
  Shop = shop
  Amounts = {1}
  Funds = 2
  MaxIndex = 2
  Events <- MCEvents
  Payloads = {}
  NoPayload = NoPayload
  FailuresInOrder = FALSE
  Settings = {Missing, 1}
  MaxIssues = 0
  NoEvent = NoEvent
  Missing = Missing
  Word = 8
SPECIFICATION Spec
PROPERTIES EventuallyAtomic
CHECK_DEADLOCK FALSE
