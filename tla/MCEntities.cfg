SPECIFICATION Spec
CONSTANTS
  Fields = {temperature, brightness, version}
  Expiring = {temperature, brightness}
  Values = {v1, v2}
  Sources = {udp}
  Bad = Bad
  Absent = Absent
  NoValue = NoValue
  NoSource = NoSource
  TTL = 3
  Interval = 2
  ClockSteps = {}
  MaxSkew = 0
SYMMETRY Symmetry
INVARIANTS
  TypeOK
  ExpiryArmed
  FreshMeansHeard
  ShownIsTrue
  LaggingIsScheduled
PROPERTIES
  CoalescesRepeats
  RestoredAtOnce
  ImplementsDisplay
