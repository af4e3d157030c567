SPECIFICATION Spec
CONSTANTS
    FrameCounts = {1, 2}
    ParameterCapacity = 2
    MidiCapacity = 1
    Blobs = {b1}
    Fresh = Fresh
    Empty = Empty
    Torn = Torn
    SignalLimit = 1
    MaxCalls = 2
    MaxEvents = 1
    MaxTime = 1
INVARIANT RestoredIsLoaded
