SPECIFICATION Spec
CONSTANTS
  Clients = {c1, c2}
  Overwriters = {c1}
  Ids = {b1, b2}
  MaxTasks = 1
  MaxSecond = 1
  MaxLost = 0
  MaxSkipped = 1
  MaxRestarts = 1
INVARIANTS TypeOK NoFalseFailure DoneMeansStored LoadBounded
PROPERTIES NeverUnfinished ImplementsPool
CHECK_DEADLOCK FALSE
