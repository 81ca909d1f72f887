CONSTANTS
    SensorList <- MCSensorList
    KernelZones <- MCKernelZones
    Policy0 <- MCPolicy0
    Defaults = {"none", "PERFORMANCE"}
    Intervals <- MCIntervals
    PipeCapacity = 4
    MaxRequests = 3
    Gddvs <- MCGddvs
    EnvValues <- MCEnvValues
    Env0 <- MCEnv0
    Zones <- MCZones
    Cdevs <- MCCdevs
    Boot <- MCBoot
    MinState = 20
    MaxTarget = 1000
    Steps = {4, 5}
    AgeCap = 6
    CalmCap = 4
    Machines <- MCMachines
    SensorRequests <- MCSensorRequests
    ZoneRequests <- MCZoneRequests
    PsvRequests <- MCPsv
    CdevRequests <- MCCdevRequests
    MaxStarts = 2
    MaxUserRequests = 3
SPECIFICATION DaemonSpec
INVARIANTS
    PollRateMatchesTrips PolicyRestored
    InstalledAgrees TargetReached
    TripsReachable FirmwareTripsRestored RelationsBound
PROPERTIES
    ThreadEnds PreferenceApplied
CHECK_DEADLOCK FALSE
