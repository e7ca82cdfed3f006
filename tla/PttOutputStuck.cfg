SPECIFICATION FairSpec
CONSTANTS
  Loop = loop
  Closer = closer
  Notifiers = {receiver}
  Receiver = receiver
  HangTime = 1
  QueueCap = 2
  MaxChunks = 3
  MaxStops = 1
  MaxErrors = 0
CHECK_DEADLOCK FALSE
PROPERTY PTTReleased
