SPECIFICATION FairSpec
CONSTANTS
  Clients = {"n1", "n2"}
  Rejected <- SecondRestart
  Stoppable = {"n2"}
  Secrets = {1,2,3,4,5,6,7,8}
  MaxPeerID = 2
  Period = 1
  DeadAge = 2
  ConfAge = 0
  MaxRestarts = 2
  Faults = {"lose", "duplicate", "restart"}
  MaxFaults = 1
INVARIANTS
  TypeOK
  AuthorizedByOwner
  OneOwner
PROPERTIES
  SessionLasts
  AlwaysComesBack
  GhostsExpire
