CONSTANTS
    RingBlocks = 2
    FlushEvery = 2
    Wide = {4}
    Torn = Torn
    Rotten = Rotten
    MaxBlocks = 4
SPECIFICATION Spec
INVARIANTS
    FlushedSurvives
    StopWritesAccepted
    PlaybackIsFaithful
PROPERTIES
    RecordingStops
