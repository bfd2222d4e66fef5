SPECIFICATION Spec
CONSTANTS
  MG = {m1}
  Name = {a, b}
  Env = {"delete", "io"}
  MaxGen = 2
  MaxRev = 1
  MaxReq = 0
  MaxFaults = 1
INVARIANT FinalizerGuardsArtifacts
CHECK_DEADLOCK FALSE
