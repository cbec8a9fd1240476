CONSTANTS
    Base = 2
    Magic <- MCMagic
    MaxNameLen = 2
    RelativeNames <- MCRelativeNames
    PlainNames <- MCPlainNames
    Lists <- MCLists
    Spans <- MCSpans
    MaxBytes = 16
SPECIFICATION Spec
CHECK_DEADLOCK FALSE
INVARIANTS
    UnpackExact
    TypeOK
    NothingLost
PROPERTIES
    Promise
