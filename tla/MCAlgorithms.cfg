SPECIFICATION Spec
CHECK_DEADLOCK FALSE
CONSTANTS
    NodeIds = {1, 2, 3}
    Layouts <- SomeLayouts
    Channels = {0, 1}
    MaxConnections = 4
    Buffers = {1, 2}
    MaxEvents = 3
    MaxBytes = 5
    Offsets = {0, 1}
    Sizes = {1, 3}
    MaxMade = 4
    MaxDropped = 2
    Names = {1, 2}
    SearchFolders <- SomeFolders
    Documents <- SomeDocuments
    Contents <- SomeContents
    LongPaths <- SomeLongPaths
    MaxEntries = 2
    MaxChanges = 1
    MaxScans = 3
INVARIANTS PlanIsFaithful MidiKeepsOrder NeverBoundToOtherTake VerdictIsEarned
