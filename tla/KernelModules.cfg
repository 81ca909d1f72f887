CONSTANTS
    KBD_BL_MAX_BRIGHTNESS = 2
    ChipFound = {TRUE, FALSE}
    RegionBusy = {TRUE, FALSE}
    AdcValues = {100, 511, 700}
    TachValues = {0, 300}
    MaxProbes = 2
    MaxReadings = 1
    Devices <- MCDevices
    Known <- MCKnown
    MAX_CONTROLLERS = 2
    FsParam = 0
    HsParam = 0
    MaxSleeps = 2
    MaxTransfers = 2
    MaxLeaks = 2
    Tables <- MCTables
    Base = {"DPTF", "PWRE"}
    Fans = {"FND1"}
    Sensors = {"S1DE"}
    MaxLoads = 2
SPECIFICATION KernelSpec
INVARIANTS MemoryOutlivesCallbacks FixupComplete DevicesDiscovered SetTakesEffect
PROPERTY PollConverges
CHECK_DEADLOCK FALSE
