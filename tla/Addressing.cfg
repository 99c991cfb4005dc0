CONSTANTS
  a = a
  b = b
  w = w
  Nodes <- ThreeNodes
  Configs <- AllConfigs
SPECIFICATION Spec
INVARIANTS
  TypeOK
  GatewaysLeadToNodes
  RoutesReachPods
  PodSubnetsDisjoint
  PodSubnetsAreSlices
  NamesAreAddresses
  NoLateFailure
CHECK_DEADLOCK FALSE
