SPECIFICATION Spec
CONSTANTS
  Senders = {a}
  Counts = {1, 2}
  MaxMessageID = 2
  Timeout = 0
  Lifetime = 1
  Copies = 2
  MaxTime = 3
  MaxRestarts = 1
CHECK_DEADLOCK FALSE
INVARIANTS
  TypeOK
  Whole
  DeliveredInTime
PROPERTY AsChannel
