CONSTANTS
  n1 = n1
  n2 = n2
  Others <- TwoOthers
  DualStack = TRUE
  MaxFaults = 2
SPECIFICATION FairSpec
INVARIANTS
  TypeOK
  UpComplete
  DownComplete
  ReadyForKubeadm
  NoFalseAlarm
  ResetFailureOnlyWarns
PROPERTIES
  RefinesHostSetup
  RetriesConverge
