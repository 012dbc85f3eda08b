SPECIFICATION OpsSpec
CONSTANTS
  Devices <- TwoDevices
  q = q
  w1 = w1
  w2 = w2
  ChecklistFields = {q}
  Written = {w1, w2}
  Cleared = Cleared
  MaxOps = 3
  MaxDrops = 1
INVARIANT LoserShowsStored
CHECK_DEADLOCK FALSE
