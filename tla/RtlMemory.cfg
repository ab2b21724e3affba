SPECIFICATION FairSpec
CONSTANTS
    PAGE_UNITS = 3
    ADDRS = 15
    BRK0 = 2
    LIMIT = 12
    MAX_UNITS = 6
    Sizes <- MCSizes
    STOPS = TRUE
CHECK_DEADLOCK FALSE
INVARIANTS SlotsDisjoint FreeListSorted Coalesced BlocksFit NothingLost CopyFits
PROPERTIES ClientDataKept CallsProgress CallsReturn ImplementsHeap
