CONSTANTS
    nA = nA
    tA = tA
    tB = tB
    Names = {nA}
    RecordNames = {nA}
    EditNames = {nA}
    Tempos = {tA}
    NoValue = NoValue
    MasterName = nA
    DefaultTempo = tA
    MaxRevision = 4
    MaxStableId = 2
    MaxTracks = 3
    NoFile = NoFile
    Torn = Torn
    RetainedBackups = 1
    SeedDocuments = {}
    MediaFaults = {"target", "backup", "journal"}
SPECIFICATION Spec
INVARIANTS
    JournalGapless
    RecoveryIsExact
    BaselineIsCovered
    SnapshotsAreHistory
    OpenFailsOnlyWithoutSnapshot
    RecoveredSessionIsReal
    RestoreSparesProject
