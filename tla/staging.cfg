SPECIFICATION Spec
CONSTANTS
  Sources <- MCSources
  Data <- MCData
  KeyOrder <- MCKeyOrder
  NoCrossNamespaceRefs = TRUE
  IgnoredNames = {".sops.yaml"}
  Specs <- MCSpecs
  Names = {"s", "q"}
INVARIANT TarballIsComplete
CHECK_DEADLOCK FALSE
