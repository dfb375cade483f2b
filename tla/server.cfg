SPECIFICATION ServerSpec
CONSTANTS
    Markers = {m1, m2}
    Watchdogs = {w1, w2}
    CleanUnit = 2
    EscalationCap = 3
    MaxCorruptions = 3
    Torrents = {"t1", "t2"}
    Streams = {"s1", "s2", "s3"}
    Of <- MCOf
    Preloads = {"t1"}
    Hedgers = {1, 2}
    MaxRounds = 3
    Chunks = {"main", "vendor"}
    Runtime = "runtime"
    Entries = {452}
    Carrier <- MCCarrier
    Needs <- MCNeeds
    Args = {a, b}
    None = None
    Wait = 3
    Jump = 2
    MaxBursts = 3
    MaxJumps = 1
    Titles = {"t1"}
    Parsed = "parsed"
    MaxEvents = 3
    Wires = {1, 2}
    First = 1
    Retry = 1
    MaxVersion = 2
    MaxFaults = 2
    Attempts = 3
ACTION_CONSTRAINTS FirstAtRest
INVARIANTS
    ServerTypeOK SingleWatchdog OneHedger ChosenPosterKept PlayGuarded
PROPERTIES
    WatchdogsStop HedgingFollows PageStarts LastCallDone TitleSearched ListFollows ResolveEnds
CHECK_DEADLOCK FALSE
