SPECIFICATION Spec
CONSTANTS
  Clients = {c1, c2}
  Overwriters = {}
  Ids = {b1, b2}
  MaxTasks = 1
  MaxSecond = 1
  MaxLost = 0
  MaxSkipped = 0
  MaxRestarts = 0
INVARIANT NamesUnique
CHECK_DEADLOCK FALSE
