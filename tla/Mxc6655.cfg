SPECIFICATION FairSpec
CONSTANTS
  GMTR_DEBOUNCE = 1
  Scenes <- MCScenes
  PanelOrients <- MCPanelOrients
  FdRoom = 3
INVARIANTS
  LaptopIsLandscape
  TimerMatchesGate
  LidNotStuck
  ReportedIsCurrent
PROPERTIES
  NoModeFlapping
  NoOrientationFlicker
  PostureWins
  OrientationFollows
  LidResumes
