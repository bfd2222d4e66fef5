SPECIFICATION Spec
CONSTANTS
  MG = {m1}
  Name = {a}
  Env = {"invalid", "status"}
  MaxGen = 1
  MaxRev = 1
  MaxReq = 0
  MaxFaults = 1
INVARIANT ParkedIsAccounted
CHECK_DEADLOCK FALSE
