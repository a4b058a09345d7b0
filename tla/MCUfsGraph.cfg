SPECIFICATION Spec
CONSTANTS
    e0 = e0
    e1 = e1
    e2 = e2
    e3 = e3
    e4 = e4
    STAR = STAR
    NameLen <- MCNameLen
    Contents <- MCContents
    Argv <- MCArgv
    Unknown <- MCUnknown
INVARIANT TypeOK
INVARIANT ContentOfGraph
INVARIANT CommandsAsSets
INVARIANT AcceptedCommands
CHECK_DEADLOCK FALSE
