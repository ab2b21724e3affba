SPECIFICATION Spec
CONSTANTS
    ADDR_BITS = 6
    BYTES = 8
    MAX_ERRORS = 1
    BLOCK = 16
    Statements <- MCConstants
    LINES = 4
    Few = {}
    LONG_LINES = 4
    LocalNames = {"@@l"}
    Hash <- MCHash
    Routines <- MCRoutines
CHECK_DEADLOCK FALSE
INVARIANTS ConstantsEvaluateAgain
