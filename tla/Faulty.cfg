SPECIFICATION Spec
CONSTANTS
    Entries = {}
    NoEntry = NoEntry
    EntryLen <- UnitEntries
    Oversized = {}
    TableCap = 1
    MaxSyncEntries = 1
    MaxSyncBody = 1
    Paths = {hot}
    Garbled = Garbled
    Routes = {hot}
    BigRoutes = {hot}
    DataLen <- UnitData
    RespLen = 2
    Endless = {}
    InitWindow = 1
    MaxWindow = 3
    Windows = {1}
    Incs = {2}
    MaxFrames = 6
    MaxBatch = 2
    Faults = {"parse", "push", "pull", "yield", "refuse"}
INVARIANTS
    TypeOK
    NeverTwice
    BytesAccounted
    SettingsFirst
    WithinGrant
    SharesAgree
CHECK_DEADLOCK FALSE
