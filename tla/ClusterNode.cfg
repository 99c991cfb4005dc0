CONSTANTS
  n1 = n1
  n2 = n2
  NatNodes <- TwoNatNodes
  MaxFaults = 1
  MaxKills = 1
SPECIFICATION Spec
SYMMETRY Symmetry
INVARIANTS
  TypeOK
  PrepareIsComplete
  PrepareResumes
  CleanConverges
  FilesSurviveFaults
PROPERTIES
  LastCopyLostByResaveOnly
  RefinesHostSetup
