CONSTANTS
    UserLow = 1
    UserHigh = 4
    HILO = HILO
    LOHI = LOHI
    NullDeref = NullDeref
    NoObj = NoObj
    NoMap = NoMap
    Unmapped = Unmapped
    Dangling = Dangling
    c1 = c1
    c2 = c2
    Cells <- MCOneCell
    ObjIds <- MCObjIds
    Prots <- MCRWProts
    Values = {0}
    Zero = 0
SPECIFICATION Spec
INVARIANT RefcountExact
INVARIANT NoLeak
INVARIANT PtCoherent
INVARIANT MapSortedDisjoint
INVARIANT PagesReleasedClean
\* A use of freed memory (status "corrupt") stops the model: the kernel's
\* behaviour after it is undefined.  It is the only state without a successor.
CHECK_DEADLOCK FALSE
