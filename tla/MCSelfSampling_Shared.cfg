\* two events: one signal can be pending when the other is raised
SPECIFICATION Spec
CONSTANTS
    Threads = {t1, t2}
    Main = Main
    None = None
    FownValues = {FALSE}
    MaxSamples = 2
INVARIANTS
    NeverStuck
CHECK_DEADLOCK FALSE
