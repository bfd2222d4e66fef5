\* A source, a ConfigMap and two generators, the second fed by the first.
SPECIFICATION LiveSpec
CONSTANTS
  g1 = g1
  g2 = g2
  s = s
  c = c
  MG = {g1, g2}
  Source = {s}
  ConfigMap = {c}
  Menu <- MCMenu
  Rev = {1, 2}
  Data = {1, 2}
  MaxChanges = 1
INVARIANTS
  QuietIsCurrent
  WatchInv
PROPERTIES
  RevisionsReach
  DigestsReach
CHECK_DEADLOCK FALSE
