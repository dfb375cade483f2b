SPECIFICATION MCSpec
CONSTANTS
    Viewers = {"v1", "v2"}
    Removers = {"r1"}
    Changers = {"c1"}
    ReadOnly = FALSE
CONSTRAINT Unraced
CHECK_DEADLOCK FALSE
INVARIANTS
    TypeOK
    NoPanicUnraced
    NoHiddenTorrent

    
