SPECIFICATION Spec
CONSTANTS
    ADDR_BITS = 6
    BYTES = 8
    MAX_ERRORS = 1
    BLOCK = 16
    Statements <- MCStatements
    LINES = 4
    Few <- MCFew
    LONG_LINES = 6
    LocalNames = {"@@l"}
    Hash <- MCHash
    Routines <- MCRoutines
CHECK_DEADLOCK FALSE
INVARIANTS TypeOK EmittedWhereAllocated ReferencesReach LoadsWhatWasWritten RoutinesNamed RefusedOnlyFor
