SPECIFICATION Spec
CONSTANTS
    Entries = {a}
    NoEntry = NoEntry
    EntryLen <- UnitEntries
    Oversized = {}
    TableCap = 1
    MaxSyncEntries = 1
    MaxSyncBody = 1
    Paths = {hot, cold}
    Garbled = Garbled
    Routes = {hot}
    BigRoutes = {}
    DataLen <- NoData
    RespLen = 0
    Endless = {}
    InitWindow = 0
    MaxWindow = 1
    Windows = {0}
    Incs = {}
    MaxFrames = 5
    MaxBatch = 2
    Faults = {}
INVARIANT RequestsKept
CHECK_DEADLOCK FALSE
