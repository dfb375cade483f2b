SPECIFICATION FairSpec
CONSTANTS
    Requests = {"p1", "p2"}
    NSegments = 4
    NAudio = 2
    CatchUp = 2
    Starts = {0}
    Wanted = {0, 1, 3}
    MaxRequests = 3
    MaxFailures = 1
CHECK_DEADLOCK FALSE
ACTION_CONSTRAINT FirstFree
INVARIANTS
    TypeOK
    InitOfAudio
    StoppedHoldsNothing
PROPERTIES
    ServedInOrder
    StaleBusHarmless
    DisposeFinishes
