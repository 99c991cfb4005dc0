CONSTANT MaxFaults = 4
SPECIFICATION Spec
INVARIANTS
  TypeOK
  ServersReady
  ServerHasConf
  ServersResume
  CleanAlwaysRemoves
PROPERTIES
  PrepareKeepsRunning
  RefinesHostSetup
