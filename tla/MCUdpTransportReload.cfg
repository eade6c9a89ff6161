SPECIFICATION Spec
CONSTANTS
  a1 = a1
  a2 = a2
  name = name
  none = none
  Addresses <- TwoAddresses
  Names = {name}
  NoHost = none
  Configs <- AnyConfig
  TTL = 4
  ConfiguredInterval = 2
  MinInterval = 1
  MaxInterval = 20
  RecoverySuccesses = 3
  TransientTolerance = 2
  MaxDoublings = 4
  FailureBound = 4
PROPERTIES
  KeepsMeasurements
CHECK_DEADLOCK FALSE
