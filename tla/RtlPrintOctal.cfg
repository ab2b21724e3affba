SPECIFICATION Spec
CONSTANTS
    BUFFER_SIZE = 3
    WORD = 32
    Words = {0, 12, 16, 31}
    Widths = {0, 1, 4}
    Texts <- MCTexts
    LEN = 8
    SIZE = 4
    Junk = Junk
    DIRECTIVES = 3
    OPERANDS = 1
CHECK_DEADLOCK FALSE
INVARIANT OctalIsOctal
