SPECIFICATION FairSpec
CONSTANTS
  low = low
  high = high
  step = step
  Zones <- StepZones
  Kind <- StepKind
  Target <- StepTarget
  MinState = 0
  MaxState = 4
  default_max_exponent = 2
  PollTemp = 1
  TripTemp = 3
  Hyst = 1
  MaxTemp = 3
PROPERTIES
  HeldWhileOtherActive
