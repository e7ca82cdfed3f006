SPECIFICATION FairSpec
CONSTANTS
  MaxVersion = 3
  Slots = {c1, c2, c3}
  FaultSets <- Graded
INVARIANTS
  TypeOK
  VersionHonest
  ChildTracked
PROPERTY UpdateAppliedAnyway
