SPECIFICATION FairSpec
CONSTANTS
  accel = accel
  prox = prox
  c1 = c1
  c2 = c2
  Types <- MCTypes
  Clients <- MCClients
  Values = {0, 1}
  Kinds <- PolledKinds
  NoSensor = NoSensor
  Unknown = Unknown
INVARIANTS
  NothingDelayedWhenAbsent
  PolledWhenWanted
  ClaimedHaveReading
  ViewsCurrent
PROPERTIES
  ClaimAnswered
CHECK_DEADLOCK FALSE
