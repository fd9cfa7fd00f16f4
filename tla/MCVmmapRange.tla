---------------------------- MODULE MCVmmapRange ----------------------------
(* Checks the range algorithms of VmmapRange on every map of a user space *)
(* of five pages, every request size up to the whole space plus one, both *)
(* directions, and every range and new area the callers may pass; and the *)
(* copies of VmmapCopy for every address and length inside user space of *)
(* each map.  The input is chosen in Init; Next keeps it.                *)
EXTENDS VmmapCopy, TLC

VARIABLES m, npages, dir

vars == <<m, npages, dir>>

Init ==
    /\ m \in AllMaps
    /\ npages \in 1..(UserHigh - UserLow + 1)
    /\ dir \in {HILO, LOHI}

Next == UNCHANGED vars

Spec == Init /\ [][Next]_vars

\* vmmap_find_range returns, whenever it returns at all, the first fit in
\* the direction asked: the highest free range for HILO, the lowest for
\* LOHI, -1 only when no free range of npages pages exists.
FindRangeFirstFit ==
    LET r == VmmapFindRange(m, npages, dir)
    IN r # NullDeref => r = FindRangeRef(m, npages, dir)

\* vmmap_find_range never dereferences a NULL holder: it returns a page or
\* -1 for every map, including the empty one (spec 4.1, find_free_range).
FindRangeNoNullDeref ==
    VmmapFindRange(m, npages, dir) # NullDeref

\* vmmap_is_range_empty answers 1 exactly when no area overlaps the range,
\* for every range that passes its KASSERT (inside user space).
IsRangeEmptyExact ==
    \A p \in Pages :
        p + npages <= UserHigh =>
            (VmmapIsRangeEmpty(m, p, npages) <=> Fits(m, p, npages))

\* vmmap_insert of an area that overlaps no other keeps the list sorted
\* and disjoint, as vmmap_lookup and vmmap_find_range assume.
InsertKeepsOrder ==
    \A p \in Pages :
        Fits(m, p, npages) =>
            IsSortedMap(VmmapInsert(m, [start |-> p, end |-> p + npages]))

-----------------------------------------------------------------------------
(* vmmap_read and vmmap_write over the areas of m.  Every byte of memory *)
(* and of the user buffer has a value of its own, so a byte copied from  *)
(* or to the wrong place shows.                                          *)

MappedPages == UNION {m[i].start..(m[i].end - 1) : i \in 1..Len(m)}
Mem  == [a \in Addrs |-> a]
UBuf == [i \in 0..(Cardinality(Addrs) + PageSize) |-> -1 - i]

\* The copies the callers may ask for: inside user space, over pages that
\* areas map (vmmap_read and vmmap_write "Assume (KASSERT) that all the
\* areas you are accessing exist"), starting in a mapped page even when
\* count is 0.
Copies ==
    {c \in Addrs \X (0..Cardinality(Addrs)) :
        /\ c[1] + c[2] <= UserHigh * PageSize
        /\ RangePages(c[1], c[2]) \cup {PN(c[1])} \subseteq MappedPages}

\* vmmap_read never writes the kernel buffer beyond buf[count - 1], however
\* its page arithmetic splits the copy.
ReadNoOverflow ==
    \A c \in Copies :
        LET r == VmmapRead(Mem, MappedPages, c[1], c[2])
        IN r # NullDeref => DOMAIN r \subseteq 0..(c[2] - 1)

\* vmmap_write changes no byte of user memory outside [vaddr, vaddr+count).
WriteStaysInRange ==
    \A c \in Copies :
        LET w == VmmapWrite(Mem, MappedPages, c[1], c[2], UBuf)
        IN w # NullDeref =>
               \A a \in Addrs : (a < c[1] \/ c[1] + c[2] <= a) => w[a] = Mem[a]

\* vmmap_write only looks up pages of the range it writes, so it never
\* meets a missing area when all of them exist.
WriteNoNullDeref ==
    \A c \in Copies : VmmapWrite(Mem, MappedPages, c[1], c[2], UBuf) # NullDeref
=============================================================================
