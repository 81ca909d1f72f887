SPECIFICATION FairSpec
CONSTANTS
  low = low
  high = high
  step = step
  Zones <- MaxZones
  Kind <- MaxKind
  Target <- MaxTarget
  MinState = 0
  MaxState = 4
  default_max_exponent = 2
  PollTemp = 1
  TripTemp = 3
  Hyst = 1
  MaxTemp = 3
PROPERTIES
  ReleasedWhenCool
