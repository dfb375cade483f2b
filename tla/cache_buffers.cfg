SPECIFICATION PoolsSpec
CONSTANTS
    NoBuffer = NoBuffer
    NoPiece = NoPiece
    Pieces = {p1, p2}
    IndexPieces = {p2}
    Chunks = {c1}
    Buffers = {b1, b2, b3}
    Capacity = 0
    FreeCap = 1
    Readers = {}
    Corrupts = FALSE
    MaxWrites = 2
    Streams = {s1, s2}
    Uploads = {u1}
    FileLength = 1
    MaxReads = 1
    Hashes = {"h1", "h2"}
    Tracks = {"x1", "x2"}
    Callers = {"p1", "p2"}
    Limits = {0, 1}
    Nobody = Nobody
    NoTask = NoTask
    MaxMade = 2
    MaxCalls = 2
CHECK_DEADLOCK FALSE
SYMMETRY BufferSymmetry
ACTION_CONSTRAINTS FirstCall LastRetrack
INVARIANTS
    BufferOwnership
    ClosedFreeListEmpty
    ReadersAccounted
    NoTaskLost
    WithinLimit
    UsedTasksSpared
