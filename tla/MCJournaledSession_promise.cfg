CONSTANTS
    nA = nA
    tA = tA
    tB = tB
    Names = {nA}
    RecordNames = {nA}
    EditNames = {nA}
    Tempos = {tA, tB}
    NoValue = NoValue
    MasterName = nA
    DefaultTempo = tA
    MaxRevision = 4
    MaxStableId = 5
    MaxTracks = 3
    NoFile = NoFile
    Torn = Torn
    RetainedBackups = 1
    SeedDocuments <- Seeds
    MediaFaults = {}
SPECIFICATION Spec
PROPERTY KeepsPromise
INVARIANTS
    HistoryApplies
