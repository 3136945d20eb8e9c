SPECIFICATION Spec
CONSTANTS
    Events <- MCEvents
    Pattrs <- MCPattrs
    EquivEvent <- MCEquivEvent
    EquivAttrs <- MCEquivAttrs
    RawUmask <- MCRawUmask
    Names <- MCNames
    RawNames <- MCRawNames
    BadRaw <- MCBadRaw
    Tokens <- MCTokens
    MaxAttrs = 3
    MaxTokens = 3
INVARIANTS
    TypeOK
    Ownership
    AttrsResolve
    NotMixed
    MeansWhatItSays
CHECK_DEADLOCK FALSE
