\* One write of every length on every map of five two-byte user pages.
CONSTANTS
    UserLow = 1
    UserHigh = 6
    HILO = HILO
    LOHI = LOHI
    NullDeref = NullDeref
    PageSize = 2
SPECIFICATION CopySpec
INVARIANT WriteCorrect
