SPECIFICATION FairSpec
CONSTANTS
  IDs <- TwoIDs
  Nodes <- AllNodes
  RSSIs = {1, 3}
  SwitchDelta = 2
  StartWindow = 0
  QueueCap = 1
  MaxSerial = 2
  MaxTime = 2
  MaxChunks = 2
INVARIANTS
  TypeOK
  StopIsOwed
PROPERTIES
  NoEcho
  ActiveSettles
  EveryKeyingEnds
  StaleAudioGoes
