SPECIFICATION FairSpec
CONSTANTS
  Clients = {n1}
  Rejected = {}
  Stoppable = {}
  Secrets = {1,2,3,4,5,6,7}
  MaxPeerID = 3
  Period = 2
  DeadAge = 4
  ConfAge = 1
  MaxRestarts = 0
  Faults = {"lose"}
  MaxFaults = 1
PROPERTY SessionSettles
