SPECIFICATION Spec
CONSTANTS
    Size = 4
    MaxWrite = 3
    MaxRequest = 5
    MaxHead = 12
INVARIANTS
    TypeOK
    Intact
PROPERTIES
    Implements
CHECK_DEADLOCK FALSE
