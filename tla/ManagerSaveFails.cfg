SPECIFICATION FairSpec
CONSTANTS
  MaxVersion = 2
  Slots = {c1, c2}
  FaultSets <- SaveOnly
PROPERTY UpdateApplied
