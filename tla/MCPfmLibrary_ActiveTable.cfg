SPECIFICATION Spec
CONSTANTS
    NPmu = 4
    PmuMax = 5
    PidxSpan = 4
    PmuId <- MCPmuId
    Insane = {}
    Deprecated = {3}
    Detected = {1, 2, 3, 4}
    OsChecked = {3}
    Kind <- MCKind
    Forceable = {"core", "i"}
    ForcedBy <- MCForcedBy
    Maskable = {"list"}
    MaskedBy <- MCMaskedBy
    EventName <- MCEventName
    StaticCount <- MCStaticCount
    NoEnv = NoEnv
    PerfFiles = {TRUE, FALSE}
    MaxEvents = 2
    MaxSessions = 2
INVARIANTS
    ActiveLive
CHECK_DEADLOCK FALSE
