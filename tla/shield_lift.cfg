SPECIFICATION FairSpec
CONSTANTS
    Markers = {m1}
    Watchdogs = {w1, w2}
    CleanUnit = 2
    EscalationCap = 3
    MaxCorruptions = 3
PROPERTY ShieldLifts
CHECK_DEADLOCK FALSE
