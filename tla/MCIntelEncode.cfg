SPECIFICATION Spec
CONSTANTS
    Events <- MCEvents
    Table <- MCTable
    Modifiers <- MCModifiers
    RawUmasks <- MCRawUmasks
    Plms <- MCPlms
    MaxAttrs = 3
INVARIANTS
    TypeOK
    NoCombo
    GroupsCovered
    WiredKept
    OrderIrrelevant
    SameEncoding
