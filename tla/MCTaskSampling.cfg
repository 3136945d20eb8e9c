\* a buffer for two or three samples, and two more than it holds
SPECIFICATION Spec
CONSTANTS
    SampleTypes <- MCSampleTypes
    Size = 48
    Watermark = 24
    MaxCount = 2
    MaxGenerated = 4
INVARIANTS
    TypeOK
    Decodes
    Accounted
PROPERTIES
    SessionEnds
CHECK_DEADLOCK FALSE
