SPECIFICATION LightSpec
CONSTANTS
  Fields = {brightness}
  Expiring = {brightness}
  Values = {0, 1, 2, 3, 4}
  Sources = {udp}
  Bad = Bad
  Absent = Absent
  NoValue = NoValue
  NoSource = NoSource
  TTL = 3
  ClockSteps <- Steps
  MaxSkew = 1
  Brightness = brightness
  Dims = {1, 127, 159, 255}
  MaxAsked = 3
INVARIANTS
  LTypeOK
  HeededWishHolds
