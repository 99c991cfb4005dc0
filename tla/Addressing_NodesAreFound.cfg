CONSTANTS
  a = a
  b = b
  w = w
  Nodes <- ThreeNodes
  Configs <- ReadmeConfigs
SPECIFICATION Spec
INVARIANT
  NodesAreFound
CHECK_DEADLOCK FALSE
