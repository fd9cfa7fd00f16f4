------------------------------ MODULE VmmapRange ------------------------------
(***************************************************************************)
(* The range algorithms of src/K3/vmmap.c as operators over a map given as *)
(* a sequence of areas [start, end) (vma_start, vma_end in page numbers),  *)
(* sorted by start and disjoint, as the vmm_list of a vmmap:               *)
(*   vmmap_find_range       first fit, high-to-low or low-to-high          *)
(*   vmmap_is_range_empty   does any area overlap [start, start+npages)    *)
(*   vmmap_insert           the sorted position of a new area              *)
(* Each is checked against a reference definition over every map of a     *)
(* small user address space [UserLow, UserHigh).                          *)
(***************************************************************************)
EXTENDS Naturals, Integers, Sequences, SequencesExt, FiniteSets

CONSTANTS
    UserLow,    \* ADDR_TO_PN(USER_MEM_LOW)
    UserHigh,   \* ADDR_TO_PN(USER_MEM_HIGH), the first page above user space
    HILO, LOHI, \* VMMAP_DIR_HILO, VMMAP_DIR_LOHI
    NullDeref   \* the outcome of dereferencing holder while it is NULL

ASSUME UserLow \in Nat /\ UserHigh \in Nat /\ UserLow < UserHigh

RECURSIVE HiloLoop(_, _, _, _)

\* (plausible bug, used as a mutant: a gap of exactly npages is refused)
HiloLoopStrict(m, npages, i, holder) ==
    IF i = 0 THEN [ret |-> -1, holder |-> holder]
    ELSE IF holder = 0 /\ npages < UserHigh - m[i].end
         THEN [ret |-> UserHigh - npages, holder |-> holder]
    ELSE IF holder # 0 /\ npages < m[holder].start - m[i].end
         THEN [ret |-> m[holder].start - npages, holder |-> holder]
    ELSE HiloLoop(m, npages, i - 1, i)

\* The loop of the VMMAP_DIR_HILO branch over the areas from the last down
\* to the first: holder is the area above iter (0 stands for NULL).
HiloLoop(m, npages, i, holder) ==
    IF i = 0 THEN [ret |-> -1, holder |-> holder]
    ELSE IF holder = 0 /\ npages <= UserHigh - m[i].end
         THEN [ret |-> UserHigh - npages, holder |-> holder]
    ELSE IF holder # 0 /\ npages <= m[holder].start - m[i].end
         THEN [ret |-> m[holder].start - npages, holder |-> holder]
    ELSE HiloLoop(m, npages, i - 1, i)

\* The loop of the VMMAP_DIR_LOHI branch over the areas from the first up.
RECURSIVE LohiLoop(_, _, _, _)
LohiLoop(m, npages, i, holder) ==
    IF i > Len(m) THEN [ret |-> -1, holder |-> holder]
    ELSE IF holder = 0 /\ npages <= m[i].start - UserLow
         THEN [ret |-> UserLow, holder |-> holder]
    ELSE IF holder # 0 /\ npages <= m[i].start - m[holder].end
         THEN [ret |-> m[holder].end, holder |-> holder]
    ELSE LohiLoop(m, npages, i + 1, i)

\* vmmap_find_range: the first page of the range found, -1 when there is
\* none, NullDeref where the code reads holder->vma_start or
\* holder->vma_end with holder still NULL.
VmmapFindRange(m, npages, dir) ==
    IF dir = HILO
    THEN LET r == HiloLoop(m, npages, Len(m), 0)
         IN IF r.ret >= 0 THEN r.ret
            ELSE IF r.holder = 0 THEN NullDeref
            ELSE IF npages <= m[r.holder].start - UserLow
                 THEN m[r.holder].start - npages
                 ELSE -1
    ELSE LET r == LohiLoop(m, npages, 1, 0)
         IN IF r.ret >= 0 THEN r.ret
            ELSE IF r.holder = 0 /\ npages <= UserHigh - UserLow THEN UserLow
            ELSE IF r.holder = 0 THEN NullDeref
            ELSE IF npages <= UserHigh - m[r.holder].end
                 THEN m[r.holder].end
                 ELSE -1

\* (plausible bug, used as a mutant: an area starting exactly at the end
\* of the range counts as overlapping)
VmmapIsRangeEmptyClosed(m, startvfn, npages) ==
    \A i \in 1..Len(m) :
        m[i].end > startvfn => startvfn + npages < m[i].start

\* vmmap_is_range_empty: 1 when no area overlaps [startvfn, startvfn+npages).
VmmapIsRangeEmpty(m, startvfn, npages) ==
    \A i \in 1..Len(m) :
        m[i].end > startvfn => startvfn + npages <= m[i].start

\* (plausible bug, used as a mutant: the new area goes after the first area
\* whose start is not below its own)
VmmapInsertAfter(m, newvma) ==
    LET at == {i \in 1..Len(m) : newvma.start <= m[i].start}
    IN IF at = {} THEN Append(m, newvma)
       ELSE InsertAt(m, Min(at) + 1, newvma)

\* vmmap_insert: the areas with newvma placed before the first area whose
\* start is not below its own, or at the tail.
VmmapInsert(m, newvma) ==
    LET at == {i \in 1..Len(m) : newvma.start <= m[i].start}
    IN IF at = {} THEN Append(m, newvma)
       ELSE InsertAt(m, Min(at), newvma)

-----------------------------------------------------------------------------
(* Reference definitions                                                   *)

Pages == UserLow..(UserHigh - 1)

Overlaps(a, lo, hi) == a.start < hi /\ lo < a.end

\* [p, p+npages) lies in user space and meets no area.
Fits(m, p, npages) ==
    /\ UserLow <= p /\ p + npages <= UserHigh
    /\ \A i \in 1..Len(m) : ~Overlaps(m[i], p, p + npages)

\* First fit: the highest fitting start for HILO, the lowest for LOHI.
FindRangeRef(m, npages, dir) ==
    LET fits == {p \in Pages : Fits(m, p, npages)}
    IN IF fits = {} THEN -1
       ELSE IF dir = HILO THEN Max(fits) ELSE Min(fits)

IsSortedMap(m) ==
    \A i \in 1..(Len(m) - 1) : m[i].end <= m[i + 1].start

\* Every map of user space: disjoint non-empty areas in start order.
Areas == {[start |-> s, end |-> e] : s \in Pages, e \in Pages \cup {UserHigh}}
AllMaps ==
    { SetToSortSeq(S, LAMBDA a, b : a.start < b.start) :
        S \in {S \in SUBSET {a \in Areas : a.start < a.end} :
                 \A a, b \in S : a # b => ~Overlaps(a, b.start, b.end)} }

=============================================================================
