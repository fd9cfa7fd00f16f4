\* Three user pages: munmap of the middle page splits a private area.
CONSTANTS
    UserLow = 1
    UserHigh = 4
    HILO = HILO
    LOHI = LOHI
    NullDeref = NullDeref
    NoObj = NoObj
    NoMap = NoMap
    Unmapped = Unmapped
    Dangling = Dangling
    c1 = c1
    c2 = c2
    Cells <- MCCells
    ObjIds <- MCObjIds
    Prots <- MCProts
    Values = {0, 1}
    Zero = 0
SPECIFICATION Spec
PROPERTY AddressSpaceRefined
