SPECIFICATION FairSpec
CONSTANTS
  Handlers = {h1, h2}
  Keys <- Pins
  Values = {1, 2, 3}
  Inputs <- PinEdits
  Default <- DefaultPins
  IDs = {1, 2}
  MaxEdits = 2
  MaxFaults = 1
  MaxSessions = 5
CHECK_DEADLOCK FALSE
INVARIANTS
  TypeOK
  StaysStartable
PROPERTIES
  OnlyEditsDrop
  ViewSettles
