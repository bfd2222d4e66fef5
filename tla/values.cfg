SPECIFICATION Spec
CONSTANTS
  Key = {"x", "y"}
  MaxDepth = 4
  Text = {"deep", "flat", "null", "num", "bad"}
  Decoded <- MCDecoded
  DataKey = {"x"}
  TargetPath <- MCTargetPath
  Inline <- MCInline
  NoCrossNamespaceRefs = TRUE
  MaxRefs = 2
INVARIANTS
  ValuesLastWins
  UnavailableNeverSkipped
  NoForeignValues
  StallsOnlyOnSpec
CHECK_DEADLOCK FALSE
