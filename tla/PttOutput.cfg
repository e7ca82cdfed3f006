SPECIFICATION FairSpec
CONSTANTS
  Loop = loop
  Closer = closer
  Notifiers = {receiver, heartbeat}
  Receiver = receiver
  HangTime = 1
  QueueCap = 2
  MaxChunks = 4
  MaxStops = 1
  MaxErrors = 1
CHECK_DEADLOCK FALSE
INVARIANTS
  TypeOK
  NewestKept
  ClosedMeansUnkeyed
  KeyedWhileWriting
PROPERTIES
  HangHonoured
  ReleasedAlone
