SPECIFICATION Spec
CONSTANTS
    Entries = {a, b}
    NoEntry = NoEntry
    EntryLen <- UnitEntries
    Oversized = {}
    TableCap = 1
    MaxSyncEntries = 1
    MaxSyncBody = 2
    Paths = {hot, cold}
    Garbled = Garbled
    Routes = {hot}
    BigRoutes = {}
    DataLen <- NoData
    RespLen = 0
    Endless = {cold}
    InitWindow = 0
    MaxWindow = 1
    Windows = {0}
    Incs = {}
    MaxFrames = 6
    MaxBatch = 1
    Faults = {}
SYMMETRY EntrySymmetry
INVARIANTS
    DecodesInStep
    EndsInStep
    RequestsKept
PROPERTIES
    AnswersAsAsked
CHECK_DEADLOCK FALSE
