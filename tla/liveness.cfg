\* Everything that must eventually happen, failures included.
SPECIFICATION LiveSpec
CONSTANTS
  MG = {m1}
  Name = {a}
  Env = {"edit", "suspend", "request", "delete", "unready", "source", "stale", "io", "api", "status", "panic", "timeout",
         "crash", "podloss"}
  MaxGen = 2
  MaxRev = 1
  MaxReq = 1
  MaxFaults = 1
PROPERTIES
  Converges
  ReadyRecurs
  DeletionCompletes
  RequestHandled
  StatusOnlyAdvances
CHECK_DEADLOCK FALSE
