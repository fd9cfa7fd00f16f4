----------------------------- MODULE MCVmmapCopy -----------------------------
(* One copy of vmmap_read or vmmap_write per behaviour: the map m of      *)
(* MCVmmapRange and a copy (vaddr, count) the callers may ask for on it,  *)
(* all chosen in Init, so that a counterexample names the map and the     *)
(* copy that goes wrong.                                                  *)
EXTENDS MCVmmapRange

VARIABLES vaddr, count

copyVars == <<m, npages, dir, vaddr, count>>

CopyInit ==
    /\ m \in AllMaps
    /\ npages = 1
    /\ dir = HILO
    /\ vaddr \in Addrs
    /\ count \in 0..Cardinality(Addrs)
    /\ <<vaddr, count>> \in Copies

CopySpec == CopyInit /\ [][UNCHANGED copyVars]_copyVars

\* vmmap_read fills buf with exactly the count bytes of user memory at
\* vaddr (spec 4.1: it reads count bytes into buf), on every mapped range.
ReadCorrect == VmmapRead(Mem, MappedPages, vaddr, count) = ReadRef(Mem, vaddr, count)

\* vmmap_write stores exactly the count bytes of buf at vaddr and nothing
\* else.
WriteCorrect ==
    VmmapWrite(Mem, MappedPages, vaddr, count, UBuf) = WriteRef(Mem, vaddr, count, UBuf)
=============================================================================
