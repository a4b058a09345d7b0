SPECIFICATION Spec
CONSTANTS
    e1 = e1
    e2 = e2
    e3 = e3
    e4 = e4
    STAR = STAR
    NameLen <- MCNameLen
    Contents <- ThreeContents
    Commands <- ThreeCommands
    Client = {c1, c2}
    MaxOp = 2
    Radix = 2
    ReplSlaveRo = FALSE
CHECK_DEADLOCK FALSE
INVARIANT TypeOK
INVARIANT CommandPlaced
INVARIANT GraphMatchesSpace
INVARIANT SameContextSameClasses
PROPERTY SpacesGrow
SYMMETRY Symmetry
