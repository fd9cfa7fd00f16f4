\* Every map of five user pages of two bytes, both directions.
CONSTANTS
    UserLow = 1
    UserHigh = 6
    HILO = HILO
    LOHI = LOHI
    NullDeref = NullDeref
    PageSize = 2
SPECIFICATION Spec
INVARIANT FindRangeFirstFit
INVARIANT IsRangeEmptyExact
INVARIANT InsertKeepsOrder
INVARIANT ReadNoOverflow
INVARIANT WriteStaysInRange
INVARIANT WriteNoNullDeref
