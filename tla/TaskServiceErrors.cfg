SPECIFICATION Spec
CONSTANTS
  Clients = {c1}
  Overwriters = {}
  Ids = {b1, b2}
  MaxTasks = 1
  MaxSecond = 1
  MaxLost = 0
  MaxSkipped = 0
  MaxRestarts = 0
INVARIANT OnlyResponsesStored
CHECK_DEADLOCK FALSE
