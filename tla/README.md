# TLA+ models of the Weenix kernel (K1 mutex, K2 file descriptors and namespace, K3 virtual memory)

This directory holds TLA+ models of the C sources under `src/`, the TLC
configurations that check them, and `PROJECT.json`, which records:

- which definition models which source lines (`map`);
- the runs and their expected results;
- the mutants that show each property can fail;
- the findings and the hazards.

## The system

The sources are three student assignments of the Weenix teaching kernel.

| part | files | state | operations |
|---|---|---|---|
| K1 scheduling primitives | `src/K1/sched_helper.c` | a thread queue (`ktqueue_t`) | `sched_sleep_on`, `sched_cancellable_sleep_on`, `sched_wakeup_on`, `sched_broadcast_on` |
| K1 kernel mutex | `src/K1/kmutex.c` | `km_holder`, `km_waitq` | `kmutex_init`, `kmutex_lock`, `kmutex_lock_cancellable`, `kmutex_unlock` |
| thread cancellation | `src/K3/kthread.c` | `kt_cancelled`, `kt_retval` | `kthread_cancel`, `kthread_clone` |
| vmmap | `src/K3/vmmap.c` | a sorted list of vmareas `[vma_start, vma_end)` of page numbers, each with an offset, a protection, flags and a memory object | `vmmap_create/destroy`, `vmmap_insert`, `vmmap_find_range`, `vmmap_lookup`, `vmmap_map`, `vmmap_remove`, `vmmap_is_range_empty`, `vmmap_read/write`, `vmmap_clone` |
| anonymous objects | `src/K3/anon.c` | refcount, resident pages | create, ref, put, lookuppage, fillpage |
| shadow objects (copy-on-write) | `src/K3/shadow.c` | refcount, `mmo_shadowed` (the next object down the chain), `mmo_bottom_obj` | create, ref, put, lookuppage, fillpage |
| system calls | `src/K3/mmap.c` | none of their own | `do_mmap`, `do_munmap` |
| page faults | `src/K3/pagefault.c` | none of their own | `handle_pagefault` |
| VFS | `src/K2/open.c`, `vfs_syscall.c`, `namev.c` | per process `p_files`; per open file `f_refcount`, `f_mode`, `f_pos`, `f_vnode`; per vnode `vn_refcount`, `vn_len` | `do_open`, `do_read`, ..., `do_mkdir`, `do_link`, ..., `lookup`/`dir_namev`/`open_namev` path resolution |
| boot and tests | `src/K2/kmain.c` | none | test drivers |

How the VM parts interact:

- `do_mmap` calls `vmmap_map`. For a fixed address, `vmmap_map` first removes
  whatever the range held. It then creates an anonymous object and, for a
  private mapping, a shadow object on top of it.
- `do_munmap` calls `vmmap_remove`, which trims areas, drops them, or splits
  them. A split puts two fresh shadow objects on top of the original object.
- Both calls unmap the range from the page table.
- `handle_pagefault` finds the area and asks the page cache for the page
  through the area's object. It then maps the page into the page table.
  - A read goes down the shadow chain to the first resident copy.
  - A write makes a private copy in the top shadow object. `shadow_fillpage`
    copies the data from the first resident page below it, or from the
    bottom object.
- An object is freed by its last `put`. A resident page holds one reference on
  its object, so an object is freed when `refcount == nrespages + 1` at a put.

The kernel is non-preemptive: a thread runs until it blocks. Each handler is
therefore one atomic step, and in K1 the only interleaving is between the
points where a thread sleeps.

## Modules

| module | models | state (VARIABLES) | actions / operators |
|---|---|---|---|
| `KMutex` | kmutex.c, sched_helper.c, `kthread_cancel` | `holder` (`km_holder`), `waitq` (`km_waitq`), `pc` (where each thread is), `cancelled` (`kt_cancelled`), `panicked` (a KASSERT failed) | `KmutexLock`, `KmutexLockCancellable`, `Resume` (a woken thread returns from its sleep), `KmutexUnlock`, `KthreadCancel`; helpers `SchedSleepOn`, `SchedWakeupOn`, `KmutexUnlockBy` |
| `MCKMutex` | three threads `t1..t3` as model values | | |
| `VmmapRange` | `vmmap_find_range`, `vmmap_is_range_empty`, `vmmap_insert` | none: pure operators over a map, given as a sequence of `[start, end)` records | `HiloLoop`, `LohiLoop` (RECURSIVE list walks), `VmmapFindRange`, `VmmapIsRangeEmpty`, `VmmapInsert`; reference definitions `FindRangeRef`, `Fits`, `AllMaps` |
| `VmmapCopy` | `vmmap_read`, `vmmap_write` | none: pure operators over a byte memory | `ReadLoop`, `WriteLoop` (RECURSIVE page loops), `VmmapRead`, `VmmapWrite`; references `ReadRef`, `WriteRef` |
| `MCVmmapRange` | checks both modules | `m`, `npages`, `dir`, all chosen in Init and kept by Next | |
| `MCVmmapCopy` | one copy per behaviour, for `ReadCorrect` and `WriteCorrect` against the reference copies | adds `vaddr`, `count`, chosen in Init, so a counterexample names the copy | |
| `AddressSpace` | the abstract specification: what a process sees of its memory (spec 4.1, 8) | `mem` (page to cell contents, or `Unmapped`), `lastRead` | `Map`, `Unmap`, `Write`, `Read`, `Exit` |
| `VmSystem` | vmmap.c, anon.c, shadow.c, mmap.c, pagefault.c for one process | `vmas`, `kind`/`refcount`/`shadowed`/`bottom` per object id, `frames` (resident pages with their data, pin count and dirty bit), `pt` (page table), `status`, `readVal`, `badFree` (a put freed a pinned or dirty page) | see below |
| `MCVmSystem` | object ids `1..4`, cells `c1, c2`, two protections (`MCProts`) or read-write only (`MCRWProts`) | | |
| `FileDesc` | open.c, the descriptor calls of vfs_syscall.c, `lookup`/`open_namev` of namev.c | `p_files`, per file `f_refcount`/`f_mode`/`f_pos`/`f_vnode`, per vnode `vn_kind`/`vn_len`/`vn_refcount`, `ret` (the last call and its result) | `DoOpen`, `DoRead`, `DoWrite`, `DoLseek`, `DoGetdent`, `DoClose`, `DoDup`, `DoDup2`; helpers `GetEmptyFd`, `OpenNamev`, `Lookup`, `Lseek`, `CloseFd`, and one continuation operator per call a handler makes (`OpenAllocated`, `ReadFile`, `WriteAt`, `GetdentCopied`, ...) |
| `Namespace` | `lookup`, `dir_namev`, `open_namev` of namev.c; `do_mknod`, `do_mkdir`, `do_rmdir`, `do_unlink`, `do_link`, `do_rename`, `do_chdir`, `do_stat` of vfs_syscall.c | per vnode `vn_kind`, `dirents` (name to vnode, with `.` and `..`), `vn_refcount`; `cwd` (`p_cwd`); `ret` | `DoMknod`, `DoMkdir`, `DoRmdir`, `DoUnlink`, `DoLink`, `DoRename`, `DoChdir`, `DoStat`; helpers `DirNamev`, `DirNamevLoop`, `DirNamevEnd` (RECURSIVE character walk), `OpenNamev`, `Lookup`, one `...Call` per system call, split into `...At`/`...Looked`/`...Opened` parts |
| `NameTree` | the abstract specification of the namespace calls: a tree of names and a working directory | `tree` (path, a sequence of names, to kind), `wd` (a path, or `Gone` once removed) | `Mknod`, `Mkdir`, `Rmdir`, `Unlink`, `Link`, `Rename`, `Chdir`, `Stat`, `Fail`, each over the state before and after; `Resolve`/`Walk` (what a path names: `.` stays, `..` goes up, the root is its own parent) |
| `MCNamespace` | inodes `0..3` (0 the root), names of at most 2 characters over `{a, .}`, nine paths for the calls and every path of up to 4 characters for the `dir_namev` check | | |
| `MCFileDesc` | two descriptors, two `file_t`s, a directory with names `n1` (absent), `n2` (regular file), `d1` (directory) | | |

### FileDesc

Each system call is one action, written as a function of a state record
like `VmSystem`. This way `do_read` and `do_write` can call `do_lseek`, and
`do_dup2` can call `do_close`, as the code does.

The following are outside `src/` and are modelled from their contracts
(`spec_modelled` in the map):

- the file allocator: `fget(-1)`, `fget(fd)` and `fput`;
- `vput`;
- the vnode operations `read`, `write`, `readdir` and `create`. `readdir`
  returns one unit per entry for the two entries of a fresh directory
  (`.` and `..`), then 0 at the end, or an error. A regular file has no
  `readdir`, so `do_getdent` answers `ENOTDIR`.

Other abstractions:

- The `read` and `write` operations of a regular file may fail. Which one
  does is an input of the action.
- Path resolution is one directory. Whether `dir_namev` succeeds, and whether
  `create` succeeds, are inputs.
- Error codes are the values of `errno.h`.
- `bytesRead` in `do_read` is an `unsigned int`, so any non-zero result,
  including an error, takes the `bytesRead > 0` branch. `do_lseek`'s `int`
  offset turns the value back into the error. The model keeps this
  conversion by what it does.
- Each handler is split at the calls it makes (`DoRead` passes the result
  of `fget` to `ReadFile`, which passes the read operation's count to
  `ReadBytes`, and so on), as in `Namespace`, so that TLC's coverage
  profiling does not copy a callee at every use of a `LET` name.
- `ret` only records results for the action properties. `VIEW StateView`
  leaves it out of the state fingerprint: no action reads it, so this is
  sound.

### Namespace

A path is a sequence of characters: `"/"`, `"a"` or `"."`, and `NUL` stands
for the terminating `'\0'`. One turn of `dir_namev`'s do-while loop is
three mutually recursive operators. `DirNamevLoop` puts the vnode two levels
up. `DirNamevStep` measures the next name against `NAME_LEN` and looks it
up. `DirNamevNext` skips the slashes, and either loops or ends in
`DirNamevEnd`. `DirNamevEnd` holds the trailing-slash check, the `ENOENT`
for a missing middle directory, and the put of the last name's vnode. Every
`vref` and `vput` of the C code is a reference count change in the model.

Each system call is a function `...Call(s, path)` that returns the new state
and the return value. A handler is split at each call it makes. For
example, `RmdirCall` passes the result `d` of `dir_namev` to `RmdirAt`,
which passes the result `lk` of `lookup` to `RmdirLooked`. Each later part
takes the earlier results as arguments. Binding them with `LET` instead
would make TLC's coverage profiling copy the callee at every use. `do_rename` is `LinkCall` followed by `UnlinkCall`, as
in the code.

The file system under the VFS (`s5fs`) is not in `src/`. Its vnode
operations are modelled from the contracts stated by the comments of
`vfs_syscall.c`, and marked `spec_modelled`:

- `lookup` takes a reference on what it finds.
- `mkdir` and `mknod` add an entry, with `.` and `..` for a directory. They
  fail with `EEXIST`, or with `ENOSPC` when no inode is free.
- `rmdir` refuses a non-empty directory. `unlink` refuses a directory.
- `link` refuses a directory with `EPERM`. This is the case the comment of
  `do_link` lists, and the code leaves it to the file system.
- A removed directory keeps no entries, so nothing can be created in it.
- `vput` frees a vnode that has neither references nor names.

`ret` records each call's name, its arguments and its result, so that a
property can relate a step to the paths it was given.

### VmSystem

`VmSystem` writes every handler as a function from a state record (`Cur`) to a
state record, and `Apply` makes that record the next state. This lets the
helpers compose the way the C calls do. For example, `vmmap_remove` calls
`shadow_create`, `ref` and `put`, and `put` calls `put` on the shadowed object.

| action | source | what it does |
|---|---|---|
| `DoMmap(lo, np, prot, shared)` | mmap.c 34-131 with `vmmap_map` | `lo = 0` asks `vmmap_find_range` (HILO) for a range; otherwise the range is `MAP_FIXED` and `vmmap_remove` first clears it. It creates an anon object, plus a shadow for a private mapping, inserts the area in order, and unmaps the range from the page table. |
| `DoMunmap(lo, np)` | mmap.c 142-162, vmmap.c 485-562 | `RemoveLoop` walks the list with its four cases: split, trim the end, trim the start, drop. A split creates two shadow objects exactly as vmmap.c 514-528 does, including the order of the assignments to `bottom` and `shadowed`. The range is then unmapped from the page table. |
| `HandlePagefault(v, cause, g)` | pagefault.c 53-111 | It exits the process when there is no area or the protection is missing. Otherwise it looks the page up with `forwrite = (cause = WRITE)`, through `AnonLookuppage`, `ShadowReadLookup` or `ShadowWriteLookup`/`ShadowFillpage`/`ShadowDirtypage`, marks it dirty on a write (`pframe_pin`, `pframe_dirty`, `pframe_unpin`), and maps it. `g` is the content of a freshly allocated frame, which the code does not clear (it is only ever read if the fill copies a frame onto itself). |
| `HandlePagefaultLookupFails` | pagefault.c 84-88 | `pframe_lookup` fails, so the process exits. |
| `HwAccess` | the MMU | An access the page table permits reads or writes the mapped frame. |
| `ProcExit`, `VmmapDestroy`, `VmmapCreate` | do_exit, vmmap.c 110-149 | The process ends. Every area's object is put and the page table is cleared. A new address space starts empty. |

Each resident page carries its pin count and dirty bit:

- `shadow_fillpage` pins the page it fills and never unpins it;
  `anon_fillpage` pins and unpins around its memset.
- `shadow_lookuppage` dirties a page it allocates for a write, and a write
  fault dirties the page it maps.
- The last put of an object runs its release loop (`ReleasePages`).
  `anon_put` cleans each dirty page (`AnonRelease`). `shadow_put` unpins and
  cleans every page (`ShadowRelease`). Then each page is freed.
  `pframe_free` must be given an unpinned page, and a dirty page would lose
  its data, so a free of either kind sets `badFree`.

The page cache, the page table and the slab allocator are outside `src/`. They
are modelled from their contracts and marked `spec_modelled` in the map:

- `MmobjRef` and `PframeDirty` dispatch on the object's type as the ops
  tables of anon.c and shadow.c do, to `AnonRef`/`ShadowRef` and
  `AnonDirtypage`/`ShadowDirtypage`; the release loops call
  `AnonCleanpage` and `ShadowCleanpage`.
- `PframeAlloc` makes a page resident, unpinned and clean, and takes a
  reference on its object.
- `pframe_unpin` drops the pin count. `pframe_clean` clears the dirty bit
  through the object's `cleanpage`. For a shadow object, `cleanpage` looks
  the page up for write on the same object, finds the page itself, and
  copies the page onto itself.
- `PframeLookup` returns a resident page or fills a new one.
- Freeing an object (`SlabFree`) turns every `bottom` pointer that names it
  into `Dangling`.
- A fill that follows a `Dangling` pointer is a use of freed memory. It sets
  `status` to `"corrupt"`, which ends the behaviour, since what the kernel
  does after that is undefined.

Known NULL dereferences that the model must step around are kept out by guards,
each named in a comment. `DoMmap` with `lo = 0` on an empty map is one; the
HILO null dereference is recorded under "Known disagreements without a run".

## Runs

| run | cfg | expect | what it shows |
|---|---|---|---|
| `kmutex_plain_cancel` | `MCKMutex_plain_cancel.cfg` | pass | Three threads use `kmutex_lock` only, and `kthread_cancel` may hit any thread at any time. MutualExclusion, NoLostWakeup and WaitersServed hold. |
| `kmutex_cancellable` | `MCKMutex_cancellable.cfg` | pass | `kmutex_lock_cancellable` and `kmutex_lock`, without cancellation. The wait queue is exactly the set of sleepers, MutualExclusion holds, and waiters are served. |
| `kmutex_leaked_lock` | `MCKMutex_NoLeakedLock.cfg` | violation | A thread cancelled after `kmutex_unlock` handed it the mutex returns `-EINTR` while holding it. |
| `kmutex_kassert` | `MCKMutex_NoKassertFailure.cfg` | violation | `kmutex_lock_cancellable` unlocks on behalf of a cancelled holder, and `kmutex_unlock`'s KASSERT fails. |
| `vmmap_algorithms` | `MCVmmapRange_pass.cfg` | pass | It checks every sorted disjoint map of 5 user pages and every request size, in both directions. `find_range` is first fit whenever it returns, and `is_range_empty` is exact. `insert` keeps order. The copies stay within their range, `vmmap_read` never writes past `count`, and `vmmap_write` never leaves the mapped pages. |
| `vmmap_read_copy` | `MCVmmapCopy_read.cfg` | violation | `ReadCorrect`: with page 1 mapped and two-byte pages, `vmmap_read` of 2 bytes at address 2 ends exactly at the page end; its loop runs to `ADDR_TO_PN(vaddr+count)` = page 2, which no area maps, and dereferences the NULL area (vmmap.c 641). |
| `vmmap_write_copy` | `MCVmmapCopy_write.cfg` | violation | `WriteCorrect`: with pages 1 and 2 mapped, `vmmap_write` of 3 bytes at address 2 fills page 1 and copies `PAGE_OFFSET(vaddr-1+count)` = 0 bytes into page 2, so address 4 keeps its old value (vmmap.c 716). |
| `vm_safety` | `MCVmSystem_safety.cfg` | pass | It covers every sequence of mmap (read-write mappings), munmap, faults, accesses, exit and re-creation in 3 user pages. Every live object's refcount equals its holders, no object leaks, the page table maps only the frame a fresh fault would find, and the map stays sorted and disjoint. No put frees a page that is still pinned or dirty (`PagesReleasedClean`). |
| `vm_refinement` | `MCVmSystem_AddressSpaceRefined.cfg` | violation | With 3 user pages, `VmSystem` does not implement `AddressSpace`. mmap a private area of 3 pages, munmap the middle page (the split gives both new shadows `first_shad` itself as bottom object, vmmap.c 522), then write-fault on page 1: `shadow_fillpage` finds no page below and looks the page up on the bottom object, which is the new page itself (shadow.c 285), so the page keeps what the frame held instead of zeros. |
| `vm_split_use_after_free` | `MCVmSystem_NoUseAfterFree.cfg` | violation | A split munmap sets the new shadows' `mmo_bottom_obj` to `first_shad` itself (vmmap.c 522), a shadow object, where the spec says the bottom is non-shadow. After an munmap of the left part frees it, a write fault on the right part reads the freed object. |
| `ns_namespace` | `MCNamespace_pass.cfg` | pass | It covers every sequence of mknod, mkdir, rmdir, unlink, link, rename, chdir and stat over nine paths and four inodes. Between calls, a vnode's only references are the root's and `p_cwd`'s (`RefcountsBalanced`). The directories stay a tree whose entries name live vnodes (`NamespaceIsTree`). A call that fails changes nothing (`FailedCallNoEffect`). `Namespace` implements `NameTree` (`NamespaceRefinesNameTree`, see Refinement). In every reachable state, `dir_namev` agrees with a name-level reference on all 121 paths of up to four characters, including the references it leaves (`DirNamevMatchesRef`). |
| `fd_descriptors` | `MCFileDesc_pass.cfg` | pass | It covers every sequence of open, read, write, lseek, getdent, close, dup and dup2 with two descriptors, two files and files of up to 2 bytes. Every file's refcount equals its descriptors, and every vnode's refcount equals its open files. A failed open leaves the tables unchanged, and an `O_APPEND` write lands at the end of the file. |

### Refinement

`VmSystem` instantiates `AddressSpace` with the refinement mapping `MemView`.
`MemView` gives, for each user page:

- `Unmapped` if no area maps the page, or if the process is not running;
- otherwise the data of the first resident page on the area's shadow chain;
- zeros if no page on the chain is resident.

`AddressSpaceRefined` checks `Init` and `[][AbstractStep]_vars` against the
abstract steps, with `readVal` as `lastRead`. It holds while no area has
been split (with two user pages no munmap can split one), and the
`vm_refinement` run shows it broken by the split, so it is a violation
run rather than a passing one.

`Namespace` instantiates `NameTree` (`NT`) with the refinement mapping
`AbsTree`/`AbsWd`. `NamedPaths` walks the directory entries down from the
root (skipping `.` and `..`), so a node's path is the names on its way
down; a file with two links has two paths. The working directory is the
path of `p_cwd` while it is in the tree, and `Gone` after `rmdir` removed
it. `NamespaceRefinesNameTree` is `NT!Init /\ [][CallStep]_vars`, and is
stronger than `NT`'s next-state relation: a call that returns 0 must
perform the `NameTree` operation of its own name on the nodes that
`NT!Resolve` gives for its own path arguments, from the working directory
before the call. A failing call must be `NT!Fail`. `Resolve` is
independent of `dir_namev`: it works on the names of the path and the
abstract tree, not on vnodes and their `..` entries. So the property ties
together the walk, each handler's lookups, the file system's operations
and `do_chdir`'s switch of `p_cwd`. With the refinement the namespace run
takes about a minute under TLC's coverage profiling.

### Bounds, and why they are enough

- **KMutex:** three threads. That is the least number for which FIFO order, a
  handoff to a queued thread, and a third thread arriving during a handoff
  can all occur.
- **Range algorithms:** every map of 5 pages, i.e. every sorted disjoint set of
  areas: empty, full, gaps at both ends, gaps of exactly `npages`. The copies
  use pages of 2 bytes, which is the smallest size where a copy can start or
  end in the middle of a page. Each byte holds its own address, so a
  misplaced byte shows.
- **VmSystem safety:** user pages 1..3, object ids 1..4, one cell, one
  value and read-write mappings only.
  - Three pages are needed for a split, which needs an area of 3 pages with a
    hole in the middle.
  - A split of a private area uses all four ids: anon, shadow, and two new
    shadows.
  - Data values do not affect refcounts or the page table, so one value is
    enough.
  - A read-only mapping differs from a read-write one only at a fault,
    which then exits the process. Leaving it out keeps the run under five
    minutes now that pages carry pin counts and dirty bits; no passing run
    takes that exit.
  - The run covers 155,154 distinct states.
- **FileDesc:** two descriptors and two `file_t`s are enough for the
  following to happen:
  - `EMFILE` and `ENOMEM`;
  - `dup`/`dup2` onto an open descriptor;
  - a second open of the same file.

  `MaxLen = 2` is the bound on lengths and offsets. The write and lseek
  actions are guarded by it. With it, a file can be extended, read to its
  end, and sought past its end. The directory `d1`'s two
  entries let `getdent` read an entry, reach the end, and fail. 23,664
  distinct states.
- **VmSystem refinement:** two cells and two values, so a write is
  distinguishable from zero-fill and from another cell; three pages, the
  fewest with which munmap splits an area. TLC finds the violation at depth 4.
- **Namespace:** four inodes: the root and three more. Three are enough
  for a directory with a subdirectory and a sibling, for `ENOSPC`, and for
  a second name of a file. Names have at most `NAME_LEN = 2` characters,
  so `aaa` is too long, and `.` and `..` are names. The nine paths for the
  calls are the empty path, `a`, `aa`, `/a/`, `a/a`, `a//.`, `..`, `/` and
  `aaa`. Together they cover relative and absolute paths, a nested name, a
  doubled and a trailing slash, `.` and `..` as the last name, a path with
  no name, and `ENAMETOOLONG`. With `chdir` into `a`, the relative paths
  reach the second level. TLC reaches every return value of every call,
  including a removed working directory. The run covers 1,759 distinct
  states.

### Fairness

`KMutex` assumes weak fairness of `Resume(t)` and `KmutexUnlock(t)` for every
thread:

- Weenix's scheduler runs every runnable thread eventually, since the run queue
  is FIFO.
- A thread that holds the mutex releases it eventually; every caller in the
  kernel unlocks what it locks.

Nothing is assumed about threads asking for the mutex or about cancellation.
The VM models check only safety, since no liveness is claimed of them.

### Deadlock checking

Deadlock checking is off in two places:

- in `MCKMutex_NoLeakedLock.cfg`, because a KASSERT failure halts the kernel;
- in `MCVmSystem_safety.cfg`, because `"corrupt"` (use of freed memory) ends a
  behaviour.

Every other state of the safety run has a successor.

### Mutants

Every property of a passing run is paired with a plausible bug in the code it
is about (PROJECT.json `mutants`), and TLC finds that mutant violates the
property. The bugs are:

- LIFO wake-up;
- a woken thread not dequeued;
- ownership passed through NULL;
- unlock without wake-up;
- a strict `<` in find_range;
- a closed interval in is_range_empty;
- insertion after rather than before;
- whole-page copies;
- `vaddr+count` instead of `vaddr-1+count`;
- a frame made resident without a reference;
- an object freed one put late;
- munmap without a page-table unmap;
- MAP_FIXED without clearing the range;
- a shadow page freed without the unpin of `shadow_put`;
- dup without a reference;
- `open_namev`'s EISDIR path without `vput`;
- a failed open that keeps its descriptor;
- `O_APPEND` ignored;
- `dir_namev` not putting the last name's vnode;
- leading slashes not skipped;
- `do_rmdir` without its `.` check;
- `do_rename` unlinking before it links;
- `do_chdir` returning 0 without switching `p_cwd` (caught only by the
  refinement: the reference counts stay balanced).

### Known disagreements without a run

`FindRangeNoNullDeref` in `MCVmmapRange` states the spec's promise that
`vmmap_find_range` returns a page or -1. TLC finds it violated by the
initial state with the empty map, `npages = 1` and `HILO` when the
`vmmap_algorithms` cfg is given `INVARIANT FindRangeNoNullDeref`: the loop
never sets `holder`, and vmmap.c 227 reads `holder->vma_start`. It has no
run of its own because the project keeps twelve runs.

`ReadAdvancesPos` in `FileDesc` states the `read(2)` contract: the file
position moves by the number of bytes returned. TLC finds it violated when
the checked configuration has that property:

1. `open` a regular file.
2. `lseek` past its end.
3. `read`: the read returns 0 and `do_read` seeks to `SEEK_END`, so the
   position moves back to the end of the file.

A failed read operation has a similar effect, through the unsigned
`bytesRead` (vfs_syscall.c 81):

- its error code is added to `f_pos`;
- or, if that would make it negative, `do_read` returns `-EINVAL` instead of
  the error.

PROJECT.json lists this under hazards.


## What is not modelled, and why

- **`do_mount`, `do_umount`, `lookup_name` and `lookup_dirpath`:** they are
  compiled out (`__MOUNTING__`, `__GETCWD__`) and are only stubs.
- **Namespace calls of several processes:** the file system may block on
  the disk inside a call, for example between the link and the unlink of
  `do_rename`. That file system is not in `src/`, so each call is atomic
  and there is one process.
- **`FileDesc` over the directory tree:** `FileDesc` still resolves names in
  one directory. Its properties are about descriptors, not about paths.
- **`kmain.c`:** boot and test drivers only.
- **`vmmap_clone` and fork:** `vmmap_clone` only copies the bounds of the
  areas into a new map, with no objects, and nothing in `src/` calls it.
  `do_fork`, which would give the areas their objects, is not in this
  repository.
- **Thread lifecycle (`kthread_create`, `kthread_destroy`, `kthread_exit`,
  `kthread_clone`):** they allocate stacks and contexts and hand the exit to
  `proc.c`, which is not in `src/`. The specification places the thread
  lifecycle outside its scope. The multi-threaded code of `kthread.c` is
  compiled out (`__MTP__`).
- **File-backed mappings:** `vmmap_map` with a vnode, and `mmap` of a file,
  need the vnode's `mmap` operation, which is outside `src/`.
- **Page-out:** the page daemon is outside `src/`, so the unpinned
  anonymous page (`anon.c` 159) is a hazard without a property. Pins and
  dirty bits themselves are modelled (see `VmSystem`).
- **Slab reuse:** a write after `slab_obj_free` (`shadow.c` 151, `anon.c` 124)
  changes memory the model does not keep.
- **Argument arithmetic of `do_mmap` and `do_munmap`:** the 32-bit wrap of
  `ad + len`, unaligned addresses and the `-EINVAL` checks. The model draws
  ranges already inside user space.
- **`sched_broadcast_on`:** it has no caller in the modelled code.

## Plan for later work

The following are not yet modelled, in the order planned:

1. `FileDesc` over the directory tree of `Namespace`, composing the two.
