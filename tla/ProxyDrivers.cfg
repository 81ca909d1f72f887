CONSTANTS
    Devices <- MCDevices
    Samples <- MCSamples
    Levels = {0, 95, 105, 200}
    NearLevel = 100
    Frequencies = {0, 5, 50}
    Arbitrary = {0, 77}
    RingLength = 3
    ReadLength = 3
    MaxCrashes = 1
    Adapters <- MCAdapters
    Chips <- MCChips
    FdLimit = 6
    GmtrResponses <- MCGmtrResponses
    Panels <- MCPanels
    ORIENT_BUF_SIZE = 2
    ORIENT_STABLE_MIN = 1
    ORIENT_OFFSET_BUF = 3
    LongStable = 4
    MaxStable = 6
    MaxMoves = 3
    Poses <- MCPoses
    Biases <- MCBiases
SPECIFICATION ProxySpec
INVARIANTS QuietWhenUnused LeftoversHarmless SampleFaithful DescriptorsAccounted StillIsUnderstood
PROPERTY PolledIsRead
