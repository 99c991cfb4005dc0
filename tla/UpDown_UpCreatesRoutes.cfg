CONSTANTS
  n1 = n1
  n2 = n2
  Others <- TwoOthers
  DualStack = FALSE
  MaxFaults = 1
SPECIFICATION Spec
INVARIANT
  UpCreatesRoutes
