\* arrays of one to three codes, two calls
SPECIFICATION RawSpec
CONSTANTS
    MaxCodes = 3
    WithFstr <- MCWithFstr
    MaxCalls = 2
INVARIANTS
    TooSmallReturns
CHECK_DEADLOCK FALSE
