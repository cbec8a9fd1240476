CONSTANTS
    Base = 8
    Magic <- MCMagic
    MaxNameLen = 4
    RelativeNames <- MCRelativeNames
    PlainNames <- MCPlainNames
    Lists <- MCLists
    Responses <- MCResponses
SPECIFICATION Spec
CHECK_DEADLOCK FALSE
INVARIANTS
    ReadsInBounds
    PackedExactly
PROPERTIES
    Promise
