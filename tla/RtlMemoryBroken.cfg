SPECIFICATION Spec
CONSTANTS
    PAGE_UNITS = 3
    ADDRS = 12
    BRK0 = 2
    LIMIT = 9
    MAX_UNITS = 6
    Sizes <- MCFewSizes
    STOPS = FALSE
CHECK_DEADLOCK FALSE
INVARIANTS TypeOK DataIsNoHeader
