CONSTANTS
    nA = nA
    tA = tA
    tB = tB
    Names = {nA}
    RecordNames = {nA}
    EditNames = {nA}
    Tempos = {tA, tB}
    NoValue = NoValue
    MasterName = nA
    DefaultTempo = tA
    MaxRevision = 3
    MaxStableId = 2
    MaxTracks = 3
    NoFile = NoFile
    Torn = Torn
    RetainedBackups = 1
    SeedDocuments = {}
    MediaFaults = {}
SPECIFICATION Spec
INVARIANTS
    CrashesDoNotLockProject
