SPECIFICATION ReaderSpec
CONSTANTS
    s1 = s1
    s2 = s2
    u1 = u1
    Streams = {s1, s2}
    Uploads = {}
    FileLength = 2
    MaxReads = 2
CHECK_DEADLOCK FALSE
INVARIANT ReadsAtOffset
