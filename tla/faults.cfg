\* Stale reads, failing calls, restarts and a lost volume.
SPECIFICATION Spec
CONSTANTS
  MG = {m1}
  Name = {a, b}
  Env = {"edit", "delete", "stale", "io", "api", "status", "panic", "timeout", "collide", "crash", "podloss"}
  MaxGen = 3
  MaxRev = 1
  MaxReq = 0
  MaxFaults = 1
SYMMETRY NameSymmetry
INVARIANTS
  TypeOK
  HistoryInv
  PublishingInv
PROPERTIES
  PublishedUnderFinalizer
  PublishedIsStored
  ObservedIsPublished
  KeepsContract
CHECK_DEADLOCK FALSE
