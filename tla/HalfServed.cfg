SPECIFICATION Spec
CONSTANTS
    Empty = Empty
    Short = Short
    Full = Full
    Wide = Wide
    Huge = Huge
    Long = Long
    Paths = {Short, Long}
    LongPaths = {Long}
    Bytes <- AllBytes
    Http1 <- AllHttp1
    File <- Files
    Http2 <- AllHttp2
    MaxFrameSize = 4
    MaxRoutes = 3
    Chunk = 16
    MaxChunks = 3
    MaxSidOffs = 4
    CopyBlock = 4
    PageSize = 16
    Streams = {1}
    Sizes = {2, 34, 60}
    Rooms = {5, 10}
    Faults = {"push", "pop", "pull", "redirect"}
INVARIANTS
    PassedOnWhole
CHECK_DEADLOCK FALSE
