SPECIFICATION DataSpec
CONSTANTS
    Peers = {"fast", "old"}
    Seeds = {"fast"}
    Fast = {"fast"}
    NoPeer = NoPeer
    Pieces = {1}
    Chunks = {c1, c2}
    c1 = c1
    c2 = c2
    NoReq = NoReq
    MaxPipeline = 1
    MaxValid = 2
    MaxEvents = 2
    Hashes = {"h1", "h2"}
    Users = {"u1", "u2"}
    Free = Free
    Miss = Miss
    MaxOps = 3
    ViewedHashes = {"h1", "h2"}
    Files = {"f1", "f2"}
    Rests <- MCRests
    DefaultRest <- MCDefaultRest
    Absent = Absent
    Unread = Unread
    MaxChanges = 4
    MaxStarts = 2
    TorrentLength = 11
    PieceLength = 4
    ChunkSize = 2
    MaxWanted = 8
CHECK_DEADLOCK FALSE
SYMMETRY ChunkSymmetry
ACTION_CONSTRAINTS WritersBrief MarksInOrder
INVARIANTS
    DataTypeOK OneHolder AnswersExpected AllDirtyHashed
    RangeReadable ListExact StoresKeep
