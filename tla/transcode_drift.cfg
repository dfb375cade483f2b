SPECIFICATION Spec
CONSTANTS
    Requests = {"p1"}
    NSegments = 4
    NAudio = 1
    CatchUp = 2
    Starts = {0}
    Wanted = {0, 1, 3}
    MaxRequests = 4
    MaxFailures = 0
CHECK_DEADLOCK FALSE
INVARIANT ServesRequested
