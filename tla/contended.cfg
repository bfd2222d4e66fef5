SPECIFICATION IntervalSpec
CONSTANTS
  MG = {m1, m2}
  Name = {a}
  Env = {"delete", "slow", "collide"}
  MaxGen = 2
  MaxRev = 1
  MaxReq = 0
  MaxFaults = 1
PROPERTIES
  ContestHeals
CHECK_DEADLOCK FALSE
