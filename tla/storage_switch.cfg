SPECIFICATION StorageSpec
CONSTANTS
    ViewedHashes = {"h1"}
    Files = {"f1"}
    Rests <- MCRests
    DefaultRest <- MCDefaultRest
    Absent = Absent
    Unread = Unread
    MaxChanges = 2
    MaxStarts = 2
CHECK_DEADLOCK FALSE
PROPERTY SwitchTakesEffect
