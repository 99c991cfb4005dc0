CONSTANTS
  n1 = n1
  n2 = n2
  NatNodes <- TwoNatNodes
  MaxFaults = 0
  MaxKills = 1
SPECIFICATION Spec
INVARIANT
  PrepareAlwaysResumes
