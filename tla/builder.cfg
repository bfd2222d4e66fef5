SPECIFICATION Spec
CONSTANTS
  Sources <- MCSources
  Data <- MCData
  KeyOrder <- MCKeyOrder
  NoCrossNamespaceRefs = TRUE
  IgnoredNames = {".sops.yaml"}
  Specs <- MCSpecs
  Names = {"p", "q"}
INVARIANTS
  TarballIsComplete
  TarballIsRendered
  FailsForCause
  AcceptedIsWellFormed
  BuildInv
CHECK_DEADLOCK FALSE
