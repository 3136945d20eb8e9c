\* every set of up to three attributes for every PMU, and every order of them
SPECIFICATION Spec
CONSTANTS
    Pmus <- MCPmus
    Tokens <- MCTokens
    Presets <- MCPresets
    DflPlms <- MCDflPlms
    IntMax = 8
    MaxAttrs = 3
INVARIANTS
    TypeOK
    AsAsked
    FstrMeasures
CHECK_DEADLOCK FALSE
