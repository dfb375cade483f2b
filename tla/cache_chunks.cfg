SPECIFICATION TorrstorFairSpec
CONSTANTS
    NoBuffer = NoBuffer
    NoPiece = NoPiece
    Pieces = {p1}
    IndexPieces = {}
    Chunks = {c1, c2}
    Buffers = {b1}
    Capacity = 1
    FreeCap = 1
    Readers = {r1}
    Corrupts = TRUE
    MaxWrites = 4
    Streams = {s1}
    Uploads = {u1}
    FileLength = 1
    MaxReads = 1
CHECK_DEADLOCK FALSE
INVARIANTS
    TorrstorTypeOK
    DirtyChunksHeld
    RecordsAgree
PROPERTIES
    CloseFinishes
    ReadaheadReturns
