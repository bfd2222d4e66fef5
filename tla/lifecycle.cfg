\* One ManifestGenerator through its whole life, nothing failing.
SPECIFICATION Spec
CONSTANTS
  MG = {m1}
  Name = {a, b}
  Env = {"edit", "invalid", "annotate", "delete", "source"}
  MaxGen = 3
  MaxRev = 2
  MaxReq = 0
  MaxFaults = 0
SYMMETRY NameSymmetry
INVARIANTS
  FinalizerGuardsArtifacts
  InventoryIsOwned
  ConditionsConsistent
  ReadyIsServed
  ParkedIsAccounted
  LifecycleInv
PROPERTY
  KeepsStrictContract
CHECK_DEADLOCK FALSE
