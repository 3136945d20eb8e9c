\* arrays of one to three codes, four calls in a row; after the state
\* "undefined" nothing is known
SPECIFICATION RawSpec
CONSTANTS
    MaxCodes = 3
    WithFstr <- MCWithFstr
    MaxCalls = 4
INVARIANTS
    Fits
    AllOwned
CHECK_DEADLOCK FALSE
