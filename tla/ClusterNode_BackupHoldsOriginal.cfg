CONSTANTS
  n1 = n1
  n2 = n2
  NatNodes <- TwoNatNodes
  MaxFaults = 1
  MaxKills = 0
SPECIFICATION Spec
INVARIANT
  BackupHoldsOriginal
