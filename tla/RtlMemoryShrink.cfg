SPECIFICATION Spec
CONSTANTS
    PAGE_UNITS = 3
    ADDRS = 15
    BRK0 = 2
    LIMIT = 12
    MAX_UNITS = 6
    Sizes <- MCPlainSizes
    STOPS = FALSE
CHECK_DEADLOCK FALSE
INVARIANT FreesNoOwnedUnit
