SPECIFICATION Spec
CONSTANTS
  Fields = {temperature, brightness}
  Expiring = {temperature, brightness}
  Values = {v1, v2}
  Sources = {udp, mqtt}
  Bad = Bad
  Absent = Absent
  NoValue = NoValue
  NoSource = NoSource
  TTL = 4
  Interval = 2
  ClockSteps = {}
  MaxSkew = 0
SYMMETRY Symmetry
INVARIANT ShutdownReleases
