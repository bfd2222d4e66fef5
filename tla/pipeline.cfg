SPECIFICATION Spec
CONSTANTS
  Key = {"x", "y"}
  MaxDepth = 6
  StepName = {n1, n2, n3}
  ValuesKey = values
  Alias = {"s", "t"}
  Undeclared = "u"
  FileOrder <- MCFileOrder
  Files <- MCFiles
  MaxSteps = 3
SYMMETRY StepSymmetry
INVARIANTS
  PipelineTypeOK
  PipelineInv
  ReadsAreServed
  GroupPartitions
  LoadMapKeepsFiles
  MergeLastWins

  
CHECK_DEADLOCK FALSE
