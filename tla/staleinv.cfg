SPECIFICATION Spec
CONSTANTS
  MG = {m1}
  Name = {a, b}
  Env = {"edit", "stale"}
  MaxGen = 2
  MaxRev = 1
  MaxReq = 0
  MaxFaults = 0
INVARIANT InventoryIsOwned
CHECK_DEADLOCK FALSE
