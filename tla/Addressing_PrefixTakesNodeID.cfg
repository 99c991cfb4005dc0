CONSTANTS
  a = a
  b = b
  w = w
  Nodes <- ThreeNodes
  Configs <- GapConfigs
SPECIFICATION Spec
INVARIANT
  PrefixTakesNodeID
CHECK_DEADLOCK FALSE
