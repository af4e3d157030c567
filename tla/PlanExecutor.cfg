SPECIFICATION MCFairSpec
CONSTANTS
    nOut = nOut
    nGain = nGain
    Nodes <- TwoNodes
    OutputNode = nOut
    PlanShapes <- TwoShapes
    FrameCounts = {1, 2}
    DeviceFrames = 2
    CommandCapacity = 2
    CompletionCapacity = 1
    TelemetryCapacity = 1
    CommandsPerBlock = 2
    ParameterCapacity = 2
    EventsPerNode = 1
    AllNodes = AllNodes
    MaxGeneration = 3
    MaxSequence = 2
    MaxEvents = 3
    MaxPosition = 2
INVARIANTS NoUseAfterFree PlanFitsOutput NoOldBlockIsHeard CommandsAreCompletedOnce
PROPERTIES NothingDueIsLeft CommandsAreAnswered ReplacedPlansAreReclaimed
