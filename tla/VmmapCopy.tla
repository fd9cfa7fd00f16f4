------------------------------ MODULE VmmapCopy ------------------------------
(***************************************************************************)
(* vmmap_read and vmmap_write of src/K3/vmmap.c: copy count bytes between  *)
(* a kernel buffer and the user address space at vaddr, one page at a      *)
(* time.  Pages are PageSize bytes; a page of user space is either mapped *)
(* by an area or not (vmmap_lookup returns NULL).  The data of a mapped    *)
(* page is what pframe_lookup finds for it (VmSystem models how it is      *)
(* found); here memory is a function from addresses to byte values.       *)
(* A buffer is a function from offsets to bytes; memcpy into a buffer      *)
(* overrides the offsets it covers.                                        *)
(***************************************************************************)
EXTENDS VmmapRange

CONSTANT PageSize   \* PAGE_SIZE

ASSUME PageSize \in Nat \ {0}

PN(a)      == a \div PageSize      \* ADDR_TO_PN
PageOff(a) == a % PageSize         \* PAGE_OFFSET
Addrs      == (UserLow * PageSize)..(UserHigh * PageSize - 1)

\* memcpy(buf + bpos, addr, n) from memory.
CopyOut(buf, bpos, mem, addr, n) ==
    [i \in bpos..(bpos + n - 1) |-> mem[addr + i - bpos]] @@ buf

\* memcpy(addr, ubuf + bpos, n) into memory.
CopyIn(mem, addr, ubuf, bpos, n) ==
    [a \in DOMAIN mem |-> IF addr <= a /\ a < addr + n THEN ubuf[bpos + a - addr]
                          ELSE mem[a]]

-----------------------------------------------------------------------------
(* vmmap_read                                                              *)

RECURSIVE ReadLoop(_, _, _, _, _, _)

\* (plausible bug, used as a mutant: every later page is copied whole)
ReadLoopWholePage(mem, mapped, end, cp, bpos, buf) ==
    IF cp > PN(end) THEN buf
    ELSE IF cp \notin mapped THEN NullDeref
    ELSE ReadLoop(mem, mapped, end, cp + 1, bpos + PageSize,
                  CopyOut(buf, bpos, mem, cp * PageSize, PageSize))

\* The while loop over the pages after the first, up to and including
\* ADDR_TO_PN(vaddr + count): each copies PAGE_OFFSET(vaddr + count) bytes
\* from the start of the page.  A NULL area is dereferenced.
ReadLoop(mem, mapped, end, cp, bpos, buf) ==
    IF cp > PN(end) THEN buf
    ELSE IF cp \notin mapped THEN NullDeref
    ELSE ReadLoop(mem, mapped, end, cp + 1, bpos + PageOff(end),
                  CopyOut(buf, bpos, mem, cp * PageSize, PageOff(end)))

\* vmmap_read(map, vaddr, buf, count): the buffer it fills, or NullDeref.
VmmapRead(mem, mapped, vaddr, count) ==
    LET end   == vaddr + count
        first == PageSize - PageOff(vaddr)
    IN IF PN(vaddr) \notin mapped THEN NullDeref
       ELSE IF PN(vaddr) = PN(end) THEN CopyOut(<<>>, 0, mem, vaddr, count)
       ELSE ReadLoop(mem, mapped, end, PN(vaddr) + 1, first,
                     CopyOut(<<>>, 0, mem, vaddr, first))

-----------------------------------------------------------------------------
(* vmmap_write                                                             *)

RECURSIVE WriteLoop(_, _, _, _, _, _)

\* (plausible bug, used as a mutant: every later page is written whole)
WriteLoopWholePage(mem, mapped, last, cp, bpos, ubuf) ==
    IF cp > PN(last) THEN mem
    ELSE IF cp \notin mapped THEN NullDeref
    ELSE WriteLoop(CopyIn(mem, cp * PageSize, ubuf, bpos, PageSize),
                   mapped, last, cp + 1, bpos + PageSize, ubuf)

\* The while loop over the pages after the first, up to and including
\* ADDR_TO_PN(vaddr - 1 + count): each gets PAGE_OFFSET(vaddr - 1 + count)
\* bytes at the start of the page (and is dirtied).
WriteLoop(mem, mapped, last, cp, bpos, ubuf) ==
    IF cp > PN(last) THEN mem
    ELSE IF cp \notin mapped THEN NullDeref
    ELSE WriteLoop(CopyIn(mem, cp * PageSize, ubuf, bpos, PageOff(last)),
                   mapped, last, cp + 1, bpos + PageOff(last), ubuf)

\* (plausible bug, used as a mutant: the last page is taken to be the one
\* holding vaddr + count, as vmmap_read does)
VmmapWriteToEnd(mem, mapped, vaddr, count, ubuf) ==
    LET last  == vaddr + count
        first == PageSize - PageOff(vaddr)
    IN IF PN(vaddr) = PN(last)
       THEN IF PN(vaddr) \notin mapped THEN NullDeref
            ELSE CopyIn(mem, vaddr, ubuf, 0, count)
       ELSE IF PN(vaddr) > PN(last) THEN mem
       ELSE IF PN(vaddr) \notin mapped THEN NullDeref
       ELSE WriteLoop(CopyIn(mem, vaddr, ubuf, 0, first),
                      mapped, last, PN(vaddr) + 1, first, ubuf)

\* vmmap_write(map, vaddr, buf, count): the memory after it, or NullDeref.
\* With count = 0 at a page start the first page is past the last one and
\* nothing is written.
VmmapWrite(mem, mapped, vaddr, count, ubuf) ==
    LET last  == vaddr - 1 + count
        first == PageSize - PageOff(vaddr)
    IN IF PN(vaddr) = PN(last)
       THEN IF PN(vaddr) \notin mapped THEN NullDeref
            ELSE CopyIn(mem, vaddr, ubuf, 0, count)
       ELSE IF PN(vaddr) > PN(last) THEN mem
       ELSE IF PN(vaddr) \notin mapped THEN NullDeref
       ELSE WriteLoop(CopyIn(mem, vaddr, ubuf, 0, first),
                      mapped, last, PN(vaddr) + 1, first, ubuf)

-----------------------------------------------------------------------------
(* Reference definitions                                                   *)

\* The pages [vaddr, vaddr + count) touches.
RangePages(vaddr, count) == {PN(a) : a \in vaddr..(vaddr + count - 1)}

ReadRef(mem, vaddr, count) == [i \in 0..(count - 1) |-> mem[vaddr + i]]

WriteRef(mem, vaddr, count, ubuf) ==
    [a \in DOMAIN mem |-> IF vaddr <= a /\ a < vaddr + count
                          THEN ubuf[a - vaddr] ELSE mem[a]]

=============================================================================
