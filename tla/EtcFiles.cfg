CONSTANTS
  NameOrder <- TwoNames
  Addresses <- ThreeAddresses
  Within <- Substrings
  UserHosts <- SomeHosts
  UserResolv <- SomeResolv
  MaxLines = 3
  MaxEdits = 2
SPECIFICATION Spec
INVARIANTS
  TypeOK
  Revertible
  PrepareIsIdempotent
  NodesResolve
  NameServerFirst
