SPECIFICATION Spec
CONSTANTS
    BITS = 2
    MIPS = FALSE
    CODE = 3
    DSTACK = 2
    CSTACK = 1
    MAX_COUNT = 1
    Objects = {o1}
    NULL = NULL
    Thunks <- MCThunks
CHECK_DEADLOCK FALSE
PROPERTY NotTakesOne
