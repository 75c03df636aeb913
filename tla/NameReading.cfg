CONSTANTS
    Messages <- MCMessages
    Base = 4
    PointerMark = 3
    RECURSION_LIMIT = 3

SPECIFICATION NameSpec

INVARIANTS
    CursorMatchesCount
    WorkIsBounded
    ReadsTheName
