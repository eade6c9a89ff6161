SPECIFICATION FairSpec
CONSTANTS
  a1 = a1
  a2 = a2
  name = name
  none = none
  Addresses <- TwoAddresses
  Names = {name}
  NoHost = none
  Configs <- AnyConfig
  TTL = 1
  ConfiguredInterval = 2
  MinInterval = 1
  MaxInterval = 20
  RecoverySuccesses = 3
  TransientTolerance = 2
  MaxDoublings = 4
  FailureBound = 4
INVARIANTS
  TypeOK
  PolicyConsistent
  IssueStands
PROPERTIES
  ImplementsOutage
  
  SteadyRecovers
  FoundAgain
CHECK_DEADLOCK FALSE
