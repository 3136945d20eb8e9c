SPECIFICATION Spec
CONSTANTS
    NStatic = 1
    AllocEvents = 2
    AllocUmasks = 2
    MaxInline = 2
    MaxDirs = 3
    MaxEntries = 4
    MaxSessions = 2
INVARIANTS
    TypeOK
    InBounds
    EventsComplete
    OverflowContiguous
    FreesAllocated
    NoLeak
CHECK_DEADLOCK FALSE
