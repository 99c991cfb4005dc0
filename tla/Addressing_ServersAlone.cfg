CONSTANTS
  a = a
  b = b
  w = w
  Nodes <- ThreeNodes
  Configs <- ServerConfigs
SPECIFICATION Spec
INVARIANT
  ServersMayBeAlone
CHECK_DEADLOCK FALSE
