SPECIFICATION Spec
CONSTANTS
    e1 = e1
    e2 = e2
    e3 = e3
    e4 = e4
    STAR = STAR
    NameLen <- MCNameLen
    Contents <- MCContents
INVARIANT TypeOK
INVARIANT LinksComputed
INVARIANT CursorsOnLists
PROPERTY Returns
