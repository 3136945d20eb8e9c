\* two events: one signal can be pending when the other is raised
SPECIFICATION Spec
CONSTANTS
    Threads = {t1, t2}
    Main = Main
    None = None
    FownValues = {TRUE, FALSE}
    MaxSamples = 3
INVARIANTS
    TypeOK
    OneReader
    OneRecord
    OwnSignal
PROPERTIES
    SamplingGoesOn
CHECK_DEADLOCK FALSE
