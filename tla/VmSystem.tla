------------------------------ MODULE VmSystem ------------------------------
(***************************************************************************)
(* The virtual-memory core of one process: its vmmap (src/K3/vmmap.c), the *)
(* anonymous and shadow memory objects behind its areas (src/K3/anon.c,   *)
(* src/K3/shadow.c), mmap/munmap (src/K3/mmap.c) and the page-fault       *)
(* handler (src/K3/pagefault.c).  The page frame cache, the page table and *)
(* the MMU are external collaborators, modelled from their contract:      *)
(*   - a resident page (pframe) is keyed by <<object, pagenum>>; making a  *)
(*     page resident takes one reference on its object and freeing it     *)
(*     drops one (spec 3, "one unit per resident page");                  *)
(*   - the page table maps a user page to a frame, writable or not.       *)
(* The whole kernel runs one thread at a time, so each handler is one     *)
(* atomic action.  Page data is abstracted to a few cells per page, each  *)
(* holding one of a few values.                                           *)
(***************************************************************************)
EXTENDS VmmapRange, FiniteSets, Functions

CONSTANTS
    ObjIds,     \* the mmobj structures the slab allocators can hand out
    NoObj,      \* a NULL mmobj pointer
    NoMap,      \* a page-table entry that is not present
    Cells,      \* the parts of a page that are read and written separately
    Values,     \* what a cell may hold
    Zero,       \* the value of a zero-filled cell
    Prots,      \* the protections mmap is asked for
    Unmapped,   \* the content of a page no area maps (AddressSpace)
    Dangling    \* a pointer to an mmobj that has been freed

ASSUME Zero \in Values /\ NoObj \notin ObjIds /\ Dangling \notin ObjIds

VARIABLES
    vmas,       \* the vmm_list of the process's vmmap, in list order
    kind,       \* per object: "anon", "shadow" or "none" (not allocated)
    refcount,   \* mmo_refcount
    shadowed,   \* mmo_shadowed
    bottom,     \* mmo_un.mmo_bottom_obj of a shadow object
    frames,     \* the resident pages: <<obj, pagenum>> -> [data, pins, dirty]
    pt,         \* the process page table: user page -> NoMap or [frame, write]
    status,     \* "running", "exited" (do_exit called), "destroyed" (vmmap
                \* freed), "corrupt" (the kernel used freed memory)
    readVal,    \* the data the last user read returned
    badFree     \* a put has freed a page that was still pinned or dirty

vars == <<vmas, kind, refcount, shadowed, bottom, frames, pt, status, readVal, badFree>>

Zeros == [c \in Cells |-> Zero]
PageNums == 0..(UserHigh - UserLow)
Area == [start : Pages, end : Pages \cup {UserHigh}, off : PageNums,
         obj : ObjIds, prot : Prots, shared : BOOLEAN]

TypeOK ==
    /\ vmas \in Seq(Area)
    /\ kind \in [ObjIds -> {"anon", "shadow", "none"}]
    /\ refcount \in [ObjIds -> Nat]
    /\ shadowed \in [ObjIds -> ObjIds \cup {NoObj}]
    /\ bottom \in [ObjIds -> ObjIds \cup {NoObj, Dangling}]
    /\ DOMAIN frames \subseteq ObjIds \X PageNums
    /\ \A f \in DOMAIN frames :
          frames[f] \in [data : [Cells -> Values], pins : 0..1, dirty : BOOLEAN]
    /\ pt \in [Pages -> {NoMap} \cup [frame : ObjIds \X PageNums, write : BOOLEAN]]
    /\ status \in {"running", "exited", "destroyed", "corrupt"}
    /\ readVal \in Values
    /\ badFree \in BOOLEAN

Init ==
    /\ vmas = <<>>
    /\ kind = [o \in ObjIds |-> "none"]
    /\ refcount = [o \in ObjIds |-> 0]
    /\ shadowed = [o \in ObjIds |-> NoObj]
    /\ bottom = [o \in ObjIds |-> NoObj]
    /\ frames = <<>>
    /\ pt = [v \in Pages |-> NoMap]
    /\ status = "running"
    /\ readVal = Zero
    /\ badFree = FALSE

-----------------------------------------------------------------------------
(* The VM state as one record, so that a handler can be written as the   *)
(* composition of the functions it calls.                                *)

Cur == [vmas |-> vmas, kind |-> kind, refcount |-> refcount,
        shadowed |-> shadowed, bottom |-> bottom, frames |-> frames, pt |-> pt,
        badFree |-> badFree]

Apply(s) ==
    /\ vmas' = s.vmas
    /\ kind' = s.kind
    /\ refcount' = s.refcount
    /\ shadowed' = s.shadowed
    /\ bottom' = s.bottom
    /\ frames' = s.frames
    /\ pt' = s.pt
    /\ badFree' = s.badFree

Live(s) == {o \in ObjIds : s.kind[o] # "none"}
FreeIds(s) == ObjIds \ Live(s)
\* slab_obj_alloc: some free mmobj.
NewObj(s) == Min(FreeIds(s))

Resident(s, o, n) == <<o, n>> \in DOMAIN s.frames
FramesOf(s, o) == {f \in DOMAIN s.frames : f[1] = o}

\* The chain of objects from o down mmo_shadowed to the object with none.
RECURSIVE Chain(_, _)
Chain(sh, o) ==
    IF sh[o] = NoObj THEN <<o>> ELSE <<o>> \o Chain(sh, sh[o])

\* mmobj_bottom_obj (mm/mmobj.c, not in this repository): the recorded
\* bottom object of a shadow object, or the object itself when its
\* mmo_shadowed is NULL.
MmobjBottomObj(s, o) ==
    IF s.shadowed[o] # NoObj THEN s.bottom[o] ELSE o

-----------------------------------------------------------------------------
(* Memory objects: anon.c and shadow.c                                    *)

\* anon_create and shadow_create: a fresh object with one reference.
AnonCreate(s, o) == [s EXCEPT !.kind[o] = "anon", !.refcount[o] = 1]
ShadowCreate(s, o) == [s EXCEPT !.kind[o] = "shadow", !.refcount[o] = 1]

AnonRef(s, o) == [s EXCEPT !.refcount[o] = @ + 1]
ShadowRef(s, o) == [s EXCEPT !.refcount[o] = @ + 1]

\* o->mmo_ops->ref(o).
MmobjRef(s, o) == IF s.kind[o] = "anon" THEN AnonRef(s, o) ELSE ShadowRef(s, o)

\* pframe_unpin, and pframe_clean through the object's cleanpage:
\* anon_cleanpage clears the dirty bit; shadow_cleanpage clears it on the
\* page its write lookup of the page number on o finds, which is the page
\* it is given (o's own page is resident).
PframeUnpin(fr) == [fr EXCEPT !.pins = @ - 1]
AnonCleanpage(fr) == [fr EXCEPT !.dirty = FALSE]
ShadowCleanpage(fr) == [fr EXCEPT !.dirty = FALSE]

\* The body of anon_put's loop over mmo_respages: a dirty page is cleaned.
AnonRelease(fr) == IF fr.dirty THEN AnonCleanpage(fr) ELSE fr

\* (plausible bug, used as a mutant: the pin of shadow_fillpage is kept)
ShadowReleaseNoUnpin(fr) == ShadowCleanpage(fr)

\* The body of shadow_put's loop: unpin, then clean.
ShadowRelease(fr) == ShadowCleanpage(PframeUnpin(fr))

\* The loop over mmo_respages of the last put: every resident page of o
\* is released and freed (pframe_free drops its reference).  pframe_free
\* must get an unpinned page, and a dirty page freed loses its data:
\* badFree records a page freed in either state.
ReleasePages(s, o) ==
    [s EXCEPT !.frames = Restrict(@, DOMAIN @ \ FramesOf(s, o)),
              !.badFree = @ \/ \E f \in FramesOf(s, o) :
                  LET fr == IF s.kind[o] = "anon" THEN AnonRelease(s.frames[f])
                            ELSE ShadowRelease(s.frames[f])
                  IN fr.pins # 0 \/ fr.dirty]

\* slab_obj_free of o: o's own fields are gone, and every bottom pointer
\* still naming o now points into freed memory.
SlabFree(s, o) ==
    [s EXCEPT !.kind[o] = "none", !.refcount[o] = 0, !.shadowed[o] = NoObj,
              !.bottom = [x \in ObjIds |-> IF x = o THEN NoObj
                                           ELSE IF @[x] = o THEN Dangling
                                           ELSE @[x]]]

RECURSIVE MmobjPut(_, _)

\* (plausible bug, used as a mutant: the object is freed one put too late,
\* when mmo_refcount has already dropped to the resident page count)
MmobjPutLate(s, o) ==
    IF s.refcount[o] # Cardinality(FramesOf(s, o))
    THEN [s EXCEPT !.refcount[o] = @ - 1]
    ELSE IF s.kind[o] = "anon" THEN SlabFree(ReleasePages(s, o), o)
    ELSE SlabFree(MmobjPut(ReleasePages(s, o), s.shadowed[o]), o)

\* anon_put: drop a reference; when the count would fall to the number of
\* resident pages, release the pages and free the object.
AnonPut(s, o) ==
    IF s.refcount[o] # Cardinality(FramesOf(s, o)) + 1
    THEN [s EXCEPT !.refcount[o] = @ - 1]
    ELSE SlabFree(ReleasePages(s, o), o)

\* shadow_put: the same, putting the shadowed object before the free.
ShadowPut(s, o) ==
    IF s.refcount[o] # Cardinality(FramesOf(s, o)) + 1
    THEN [s EXCEPT !.refcount[o] = @ - 1]
    ELSE SlabFree(MmobjPut(ReleasePages(s, o), s.shadowed[o]), o)

\* o->mmo_ops->put(o).
MmobjPut(s, o) ==
    IF s.kind[o] = "anon" THEN AnonPut(s, o) ELSE ShadowPut(s, o)

\* (plausible bug, used as a mutant: a resident page holds no reference)
PframeAllocNoRef(s, o, n, data) ==
    [s EXCEPT !.frames = (<<o, n>> :> [data |-> data, pins |-> 0, dirty |-> FALSE]) @@ @]

\* pframe_get on an object (the cache's allocation): a new resident page
\* with the data the allocator left in it, one more reference on o.
PframeAlloc(s, o, n, data) ==
    [s EXCEPT !.frames = (<<o, n>> :> [data |-> data, pins |-> 0, dirty |-> FALSE]) @@ @,
              !.refcount[o] = @ + 1]

\* anon_lookuppage: pframe_get, zero-filled by anon_fillpage (which pins
\* and unpins around the memset).  Returns [st, f].
AnonLookuppage(s, o, n) ==
    IF Resident(s, o, n) THEN [st |-> s, f |-> <<o, n>>]
    ELSE [st |-> PframeAlloc(s, o, n, Zeros), f |-> <<o, n>>]

\* shadow_lookuppage with forwrite = 0: the first object of the chain
\* above its last one with the page resident, else pframe_lookup on the
\* last object.
ShadowReadLookup(s, o, n) ==
    LET c   == Chain(s.shadowed, o)
        hit == SelectInSeq(Front(c), LAMBDA x : Resident(s, x, n))
    IN IF hit > 0 THEN [st |-> s, f |-> <<c[hit], n>>]
       ELSE AnonLookuppage(s, Last(c), n)

\* pframe_lookup(o, n, 0): dispatch on the object's type.
PframeLookupRead(s, o, n) ==
    IF s.kind[o] = "anon" THEN AnonLookuppage(s, o, n) ELSE ShadowReadLookup(s, o, n)

\* shadow_fillpage for the new page <<o, n>>: copy the page of the first
\* object below o that has it resident (checking every object down to the
\* last), else the page pframe_lookup finds for the recorded bottom object;
\* pin the new page.  A copy from the page itself leaves its data as the
\* allocator left it.
ShadowFillpage(s, o, n) ==
    LET c   == Tail(Chain(s.shadowed, o))
        hit == SelectInSeq(c, LAMBDA x : Resident(s, x, n))
        src == IF hit > 0 THEN [st |-> s, f |-> <<c[hit], n>>]
               ELSE PframeLookupRead(s, s.bottom[o], n)
    IN [src.st EXCEPT !.frames[<<o, n>>].data = src.st.frames[src.f].data,
                      !.frames[<<o, n>>].pins = @ + 1]

\* shadow_fillpage finds no page below o and follows mmo_bottom_obj into a
\* freed object: what pframe_lookup does there is undefined.
FillReadsFreed(s, o, n) ==
    /\ SelectInSeq(Tail(Chain(s.shadowed, o)), LAMBDA x : Resident(s, x, n)) = 0
    /\ s.bottom[o] = Dangling

\* shadow_lookuppage with forwrite = 1: the page of o itself, allocated
\* and filled by copy-on-write when it is not resident, then dirtied by
\* shadow_dirtypage.  garbage is what the new page frame held before the
\* fill.
ShadowDirtypage(s, f) == [s EXCEPT !.frames[f].dirty = TRUE]
AnonDirtypage(s, f) == [s EXCEPT !.frames[f].dirty = TRUE]

\* pframe_dirty(pf): the dirtypage of the page's object.
PframeDirty(s, f) ==
    IF s.kind[f[1]] = "anon" THEN AnonDirtypage(s, f) ELSE ShadowDirtypage(s, f)

ShadowWriteLookup(s, o, n, garbage) ==
    IF Resident(s, o, n) THEN [st |-> s, f |-> <<o, n>>]
    ELSE [st |-> ShadowDirtypage(ShadowFillpage(PframeAlloc(s, o, n, garbage), o, n),
                                 <<o, n>>),
          f |-> <<o, n>>]

\* pframe_lookup(o, n, forwrite).
PframeLookup(s, o, n, forwrite, garbage) ==
    IF s.kind[o] = "anon" THEN AnonLookuppage(s, o, n)
    ELSE IF forwrite THEN ShadowWriteLookup(s, o, n, garbage)
    ELSE ShadowReadLookup(s, o, n)

-----------------------------------------------------------------------------
(* vmmap.c                                                                *)

\* vmmap_lookup: the index of the area holding page v, 0 for none.
VmmapLookup(m, v) ==
    LET hits == {i \in 1..Len(m) : m[i].start <= v /\ v < m[i].end}
    IN IF hits = {} THEN 0 ELSE Min(hits)

\* pt_unmap_range over [lo, hi), with the TLB flush that goes with it.
PtUnmapRange(s, lo, hi) ==
    [s EXCEPT !.pt = [v \in Pages |-> IF lo <= v /\ v < hi THEN NoMap ELSE @[v]]]

\* The body of the vmmap_remove loop over the areas rs not yet visited;
\* out collects the areas that stay, in list order.  The area a split adds
\* after iter is not visited (list_iterate_begin saved the next link).
RECURSIVE RemoveLoop(_, _, _, _, _)
RemoveLoop(s, rs, lo, sum, out) ==
    IF rs = <<>> THEN [s EXCEPT !.vmas = out]
    ELSE LET r == Head(rs) IN
    IF lo > r.start
    THEN IF sum < r.end
         THEN \* Case 1: split, each half over a new shadow object
              LET a   == NewObj(s)
                  s1  == ShadowCreate(s, a)
                  b   == NewObj(s1)
                  s2  == ShadowCreate(s1, b)
                  bot == MmobjBottomObj(s2, a)
                  s3  == MmobjRef([s2 EXCEPT !.bottom[b] = bot, !.bottom[a] = bot,
                                             !.shadowed[a] = r.obj,
                                             !.shadowed[b] = r.obj], r.obj)
              IN RemoveLoop(s3, Tail(rs), lo, sum,
                    out \o << [r EXCEPT !.end = lo, !.obj = a],
                              [r EXCEPT !.start = sum, !.off = r.off + sum - r.start,
                                        !.obj = b] >>)
         ELSE IF lo < r.end /\ sum >= r.end
         THEN RemoveLoop(s, Tail(rs), lo, sum, Append(out, [r EXCEPT !.end = lo]))
         ELSE RemoveLoop(s, Tail(rs), lo, sum, Append(out, r))
    ELSE IF sum >= r.end
         THEN RemoveLoop(MmobjPut(s, r.obj), Tail(rs), lo, sum, out)
         ELSE IF sum < r.end /\ sum > r.start
         THEN RemoveLoop(s, Tail(rs), lo, sum,
                  Append(out, [r EXCEPT !.off = r.off + sum - r.start, !.start = sum]))
         ELSE RemoveLoop(s, Tail(rs), lo, sum, Append(out, r))

\* (plausible bug, used as a mutant: the page table keeps the old pages)
VmmapRemoveNoUnmap(s, lopage, npages) ==
    RemoveLoop(s, s.vmas, lopage, lopage + npages, <<>>)

\* vmmap_remove: the loop, then tlb_flush_all and pt_unmap_range.
VmmapRemove(s, lopage, npages) ==
    PtUnmapRange(RemoveLoop(s, s.vmas, lopage, lopage + npages, <<>>),
                 lopage, lopage + npages)

\* The free objects vmmap_remove takes: two when it splits an area.
SplitsArea(m, lopage, npages) ==
    \E i \in 1..Len(m) : lopage > m[i].start /\ lopage + npages < m[i].end

\* vmmap_map with file == NULL at lopage (already chosen): unmap what is
\* there, create the anon object, and for MAP_PRIVATE a shadow object over
\* it whose bottom object is the anon object; insert the area.
\* (plausible bug, used as a mutant: the old mappings are left in place)
ClearRangeNone(s, lopage, npages) == s

\* The start of vmmap_map: areas in the way of the new one are removed.
ClearRange(s, lopage, npages) ==
    IF ~VmmapIsRangeEmpty(s.vmas, lopage, npages)
    THEN VmmapRemove(s, lopage, npages) ELSE s

VmmapMap(s, lopage, npages, prot, shared) ==
    LET s1 == ClearRange(s, lopage, npages)
        o  == NewObj(s1)
        s2 == AnonCreate(s1, o)
        sh == NewObj(s2)
        s3 == IF shared THEN s2
              ELSE [ShadowCreate(s2, sh) EXCEPT !.shadowed[sh] = o,
                                                         !.bottom[sh] = o]
        area == [start |-> lopage, end |-> lopage + npages, off |-> 0,
                 obj |-> IF shared THEN o ELSE sh, prot |-> prot, shared |-> shared]
    IN [s3 EXCEPT !.vmas = VmmapInsert(@, area)]

\* vmmap_destroy: put the object of every area, in list order.
RECURSIVE PutAreas(_, _)
PutAreas(s, rs) ==
    IF rs = <<>> THEN s ELSE PutAreas(MmobjPut(s, Head(rs).obj), Tail(rs))

-----------------------------------------------------------------------------
(* Actions                                                                *)

\* do_mmap of an anonymous mapping that passed the argument checks: lopage
\* is 0 (vmmap_find_range, VMMAP_DIR_HILO) or the MAP_FIXED page.  Then
\* pt_unmap_range and tlb_flush_range over the new area.  The allocators
\* must have the objects the call takes (the bound of the model).  A
\* process whose vmmap is empty never asks find_range (see VmmapRange:
\* holder is dereferenced while NULL).
DoMmap(lopage, npages, prot, shared) ==
    /\ status = "running"
    /\ lopage = 0 \/ lopage + npages <= UserHigh
    /\ lopage = 0 => vmas # <<>>
    /\ Cardinality(FreeIds(Cur)) >=
          (IF shared THEN 1 ELSE 2)
          + (IF lopage # 0 /\ SplitsArea(vmas, lopage, npages) THEN 2 ELSE 0)
    /\ LET lo == IF lopage # 0 THEN lopage ELSE VmmapFindRange(vmas, npages, HILO)
       IN IF lo = -1
          THEN UNCHANGED vars
          ELSE /\ Apply(PtUnmapRange(VmmapMap(Cur, lo, npages, prot, shared),
                                     lo, lo + npages))
               /\ UNCHANGED <<status, readVal>>

\* do_munmap of a range that passed the argument checks.
DoMunmap(lopage, npages) ==
    /\ status = "running"
    /\ lopage + npages <= UserHigh
    /\ SplitsArea(vmas, lopage, npages) => Cardinality(FreeIds(Cur)) >= 2
    /\ Apply(VmmapRemove(Cur, lopage, npages))
    /\ UNCHANGED <<status, readVal>>

\* The page table lets an access of this cause through without a fault.
Permits(e, cause) == e # NoMap /\ (cause = "WRITE" => e.write)

\* handle_pagefault(vaddr, cause) for a page whose page-table entry does
\* not permit the access.  No area, or a protection the access lacks:
\* do_exit(EFAULT).  Else look the page up through the area's object
\* (for write iff the cause is a write); on a write pin it, pframe_dirty it
\* (the object's dirtypage sets the dirty bit) and unpin it; map it,
\* writable iff the cause is a write.
HandlePagefault(v, cause, garbage) ==
    /\ status = "running"
    /\ ~Permits(pt[v], cause)
    /\ LET i == VmmapLookup(vmas, v)
       IN IF \/ i = 0
             \/ cause = "WRITE" /\ "WRITE" \notin vmas[i].prot
             \/ cause = "READ" /\ "READ" \notin vmas[i].prot
          THEN /\ status' = "exited"
               /\ UNCHANGED <<vmas, kind, refcount, shadowed, bottom, frames, pt, readVal, badFree>>
          ELSE LET r   == vmas[i]
                   fw  == cause = "WRITE"
                   pn  == v - r.start + r.off
                   res == PframeLookup(Cur, r.obj, pn, fw, garbage)
               IN IF /\ fw /\ kind[r.obj] = "shadow" /\ ~Resident(Cur, r.obj, pn)
                     /\ FillReadsFreed(Cur, r.obj, pn)
                  THEN /\ status' = "corrupt"
                       /\ UNCHANGED <<vmas, kind, refcount, shadowed, bottom,
                                      frames, pt, readVal, badFree>>
                  ELSE /\ Apply([IF fw THEN PframeDirty(res.st, res.f) ELSE res.st
                                    EXCEPT !.pt[v] = [frame |-> res.f, write |-> fw]])
                       /\ UNCHANGED <<status, readVal>>

\* The same fault when pframe_lookup fails (the page cache cannot get a
\* page): do_exit(EFAULT).
HandlePagefaultLookupFails(v, cause) ==
    /\ status = "running"
    /\ ~Permits(pt[v], cause)
    /\ VmmapLookup(vmas, v) # 0
    /\ status' = "exited"
    /\ UNCHANGED <<vmas, kind, refcount, shadowed, bottom, frames, pt, readVal, badFree>>

\* The MMU: an access the page table permits goes to the mapped frame.
HwAccess(v, c, cause, val) ==
    /\ status = "running"
    /\ Permits(pt[v], cause)
    /\ IF cause = "READ"
       THEN /\ readVal' = frames[pt[v].frame].data[c]
            /\ UNCHANGED frames
       ELSE /\ frames' = [frames EXCEPT ![pt[v].frame].data[c] = val]
            /\ UNCHANGED readVal
    /\ UNCHANGED <<vmas, kind, refcount, shadowed, bottom, pt, status, badFree>>

\* The process exits of its own accord (do_exit).
ProcExit ==
    /\ status = "running"
    /\ status' = "exited"
    /\ UNCHANGED <<vmas, kind, refcount, shadowed, bottom, frames, pt, readVal, badFree>>

\* The exited process is cleaned up: vmmap_destroy; its page directory
\* goes with it.
VmmapDestroy ==
    /\ status = "exited"
    /\ Apply([PutAreas(Cur, vmas) EXCEPT !.vmas = <<>>,
                                         !.pt = [v \in Pages |-> NoMap]])
    /\ status' = "destroyed"
    /\ UNCHANGED readVal

\* A new process gets a fresh address space: vmmap_create.
VmmapCreate ==
    /\ status = "destroyed"
    /\ status' = "running"
    /\ UNCHANGED <<vmas, kind, refcount, shadowed, bottom, frames, pt, readVal, badFree>>

Next ==
    \/ \E lo \in {0} \cup Pages, np \in 1..(UserHigh - UserLow),
          prot \in Prots, shared \in BOOLEAN : DoMmap(lo, np, prot, shared)
    \/ \E lo \in Pages, np \in 1..(UserHigh - UserLow) : DoMunmap(lo, np)
    \/ \E v \in Pages, cause \in {"READ", "WRITE"} :
          \/ \E g \in [Cells -> Values] : HandlePagefault(v, cause, g)
          \/ HandlePagefaultLookupFails(v, cause)
    \/ \E v \in Pages, c \in Cells, cause \in {"READ", "WRITE"}, val \in Values :
          HwAccess(v, c, cause, val)
    \/ ProcExit
    \/ VmmapDestroy
    \/ VmmapCreate

Spec == Init /\ [][Next]_vars


-----------------------------------------------------------------------------
(* Properties                                                              *)

\* The objects the areas reach through mmo_shadowed.
Reachable ==
    UNION {ToSet(Chain(shadowed, vmas[i].obj)) : i \in 1..Len(vmas)}

\* Who holds a reference on o: the areas bound to it, the shadow objects
\* over it, and its resident pages.
Holders(o) ==
    Cardinality({i \in 1..Len(vmas) : vmas[i].obj = o})
    + Cardinality({x \in Live(Cur) : kind[x] = "shadow" /\ shadowed[x] = o})
    + Cardinality(FramesOf(Cur, o))

\* mmo_refcount of every live object is exactly the number of references
\* held on it (spec 3): vmmap_map, vmmap_remove's split (two shadows over
\* one object, one extra ref), the puts of vmmap_remove and vmmap_destroy,
\* and pframe allocation and freeing in *_put must keep it balanced.
RefcountExact ==
    \A o \in Live(Cur) : refcount[o] = Holders(o)

\* Nothing is freed while in use and nothing leaks: the live objects are
\* exactly those the areas reach.  anon_put and shadow_put free an object
\* when mmo_refcount falls to its resident page count plus one, and
\* shadow_put then puts the shadowed object.
NoLeak ==
    Live(Cur) = Reachable

\* The page the process sees at page v of area i, given the areas m, the
\* mmo_shadowed links sh and the resident pages fr: the first object down
\* the area's chain that has the page resident (<<>> for none: zeros).
VisibleIn(m, sh, fr, i, v) ==
    LET n == v - m[i].start + m[i].off
        c == Chain(sh, m[i].obj)
        h == SelectInSeq(c, LAMBDA x : <<x, n>> \in DOMAIN fr)
    IN IF h > 0 THEN <<c[h], n>> ELSE <<>>

\* The page table never lets the process reach a page other than the one
\* it should see: a mapped page lies in an area and maps exactly its
\* visible resident page.  A stale entry (left by vmmap_remove or do_mmap
\* not unmapping, or by a copy-on-write that does not remap) would let a
\* read return, or a write change, the wrong page.
PtCoherent ==
    \A v \in Pages : pt[v] # NoMap =>
        LET i == VmmapLookup(vmas, v)
        IN i # 0 /\ pt[v].frame = VisibleIn(vmas, shadowed, frames, i, v)

\* The vmmap stays a sorted list of disjoint non-empty areas whatever
\* sequence of mmap and munmap calls (MAP_FIXED ones included) is made.
MapSortedDisjoint ==
    /\ IsSortedMap(vmas)
    /\ \A i \in 1..Len(vmas) : vmas[i].start < vmas[i].end

\* Every page a put frees is unpinned and clean, as pframe_free requires
\* (spec: unref releases each resident page, "unpin, clean, free"): the
\* pin shadow_fillpage leaves on a copy-on-write page is undone by
\* shadow_put alone, and the dirty bits set by the write faults and by
\* shadow_lookuppage must be cleared by anon_put and shadow_put before the
\* page goes, in whatever order areas were mapped, split, faulted and put.
PagesReleasedClean == ~badFree

\* The kernel never reads or writes a freed memory object (through a
\* dangling mmo_bottom_obj or otherwise).
NoUseAfterFree == status # "corrupt"

\* What a process sees at page v.
PageData(m, sh, fr, v) ==
    LET f == VisibleIn(m, sh, fr, VmmapLookup(m, v), v)
    IN IF f = <<>> THEN Zeros ELSE fr[f].data

\* The address space of a process with status st.
MemView(m, sh, fr, st) ==
    [v \in Pages |-> IF st \in {"exited", "destroyed"} \/ VmmapLookup(m, v) = 0
                     THEN Unmapped ELSE PageData(m, sh, fr, v)]

AS == INSTANCE AddressSpace
        WITH mem <- MemView(vmas, shadowed, frames, status), lastRead <- readVal

\* A step of VmSystem seen through the view: a step of AddressSpace or a
\* stuttering step.
AbstractStep ==
    LET now  == MemView(vmas, shadowed, frames, status)
        next == MemView(vmas', shadowed', frames', status')
    IN AS!Step(now, next) \/ (next = now /\ readVal' = readVal)

\* The VM system implements the address space a process is promised:
\* mmap gives zero-filled pages, a page holds what was last written to it
\* until it is unmapped, and copy-on-write is invisible to the process.
\* This is AS!Spec, with the view of the next state taken over the primed
\* variables.
AddressSpaceRefined ==
    AS!Init /\ [][AbstractStep]_vars

=============================================================================
