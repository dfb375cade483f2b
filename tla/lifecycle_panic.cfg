SPECIFICATION Spec
CONSTANTS
    Viewers = {"v1"}
    Removers = {}
    Changers = {"c1"}
    ReadOnly = FALSE
CHECK_DEADLOCK FALSE
INVARIANT DropAlwaysSafe
