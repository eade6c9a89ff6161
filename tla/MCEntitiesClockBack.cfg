SPECIFICATION Spec
CONSTANTS
  Fields = {temperature, version}
  Expiring = {temperature}
  Values = {v1, v2}
  Sources = {udp}
  Bad = Bad
  Absent = Absent
  NoValue = NoValue
  NoSource = NoSource
  TTL = 4
  Interval = 2
  ClockSteps <- Steps
  MaxSkew = 2
PROPERTY RestoredAtOnce
