SPECIFICATION Spec
CONSTANTS
    BITS = 2
    MIPS = TRUE
    CODE = 2
    DSTACK = 2
    CSTACK = 2
    MAX_COUNT = 1
    Objects = {o1, o2, o3}
    NULL = NULL
    Thunks <- MCThunks
SYMMETRY MCSymmetry
CHECK_DEADLOCK FALSE
INVARIANTS TypeOK OwnedOnce
PROPERTIES OnlyLocalsLeaks ArithmeticLaws ImplementsCalls
