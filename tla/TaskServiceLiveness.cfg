SPECIFICATION FairSpec
CONSTANTS
  Clients = {c1, c2}
  Overwriters = {c1}
  Ids = {b1, b2}
  MaxTasks = 1
  MaxSecond = 0
  MaxLost = 1
  MaxSkipped = 0
  MaxRestarts = 1
INVARIANTS NoFalseFailure DoneMeansStored
PROPERTIES ClientsTerminate
CHECK_DEADLOCK FALSE
