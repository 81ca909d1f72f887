SPECIFICATION FairSpec
CONSTANT KBD_BL_MAX_BRIGHTNESS = 2
PROPERTIES
  ListenersCatchUp
