SPECIFICATION FairSpec
CONSTANTS
  accel = accel
  prox = prox
  c1 = c1
  c2 = c2
  Types <- MCTypes
  Clients <- MCClients
  Values = {0, 1}
  Kinds <- EventKinds
  NoSensor = NoSensor
  Unknown = Unknown
PROPERTIES
  ClaimAnswered
CHECK_DEADLOCK FALSE
