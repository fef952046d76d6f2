SPECIFICATION FairSpec
CONSTANTS
    Entries = {a}
    NoEntry = NoEntry
    EntryLen <- UnitEntries
    Oversized = {}
    TableCap = 1
    MaxSyncEntries = 0
    MaxSyncBody = 1
    Paths = {hot, cold}
    Garbled = Garbled
    Routes = {hot}
    BigRoutes = {}
    DataLen <- UnitData
    RespLen = 1
    Endless = {cold}
    InitWindow = 2
    MaxWindow = 3
    Windows = {0, 1}
    Incs = {1}
    MaxFrames = 5
    MaxBatch = 1
    Faults = {}
INVARIANTS
    ReportsComeFirst
    WindowsAgree
PROPERTIES
    StreamsFit
    CatchesUp
    KeepsPromise
CHECK_DEADLOCK FALSE
