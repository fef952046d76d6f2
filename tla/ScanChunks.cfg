SPECIFICATION FairSpec
CONSTANTS
    Entries = {a}
    NoEntry = NoEntry
    EntryLen <- UnitEntries
    Oversized = {}
    TableCap = 2
    MaxSyncEntries = 2
    MaxSyncBody = 2
    Paths = {hot}
    Garbled = Garbled
    InitWindow = 0
    MaxWindow = 1
    Windows = {0}
    Incs = {}
    Faults = {}
    Streams <- TwoPassed
    PrefaceLen = 2
    HeaderLen = 2
    FcLen = 2
    PayloadLen <- Lengths
    Shared = 1
    MaxSyncFrame = 2
    ReadChunk = 10
INVARIANTS
    OnlyPublic
    UpdateIsBarrier
PROPERTIES
    FiltersFrames
    AllIsRead
CHECK_DEADLOCK FALSE
