------------------------------ MODULE Namespace ------------------------------
(***************************************************************************)
(* The namespace half of the VFS for one process: path resolution          *)
(* (lookup, dir_namev and open_namev of src/K2/namev.c) and the system     *)
(* calls that change or inspect the directory tree (do_mknod, do_mkdir,    *)
(* do_rmdir, do_unlink, do_link, do_rename, do_chdir and do_stat of        *)
(* src/K2/vfs_syscall.c).                                                  *)
(*                                                                         *)
(* A path is a sequence of characters, "/" or a name character; the       *)
(* terminating '\0' is NUL.  Every vnode has a kind, a table of directory  *)
(* entries (name -> vnode, "." and ".." included for a directory) and a    *)
(* count of in-memory references.  The file system below the VFS is not    *)
(* in src/; its vnode operations are modelled from the contracts the       *)
(* comments of vfs_syscall.c state:                                        *)
(*   - lookup returns the named vnode with a reference taken, or ENOENT;   *)
(*   - mkdir, mknod and create add an entry (a new directory gets "." and  *)
(*     ".."), fail with EEXIST, or with ENOSPC when no inode is free, and  *)
(*     refuse a directory that has been removed (it has no entries left);  *)
(*   - rmdir removes an empty directory (ENOTEMPTY otherwise), unlink a    *)
(*     non-directory, link adds a name for a non-directory (EPERM for a    *)
(*     directory);                                                         *)
(*   - vput drops a reference; a vnode without references and without a   *)
(*     name is freed.                                                      *)
(* The kernel is not preemptive and the model's file system never blocks, *)
(* so each system call is one atomic action.                               *)
(***************************************************************************)
EXTENDS Integers, Sequences, FiniteSets, FiniteSetsExt, Functions, TLC

CONSTANTS
    Vnodes,      \* the vnodes (inodes) of the file system
    Root,        \* vfs_root_vn
    NoVnode,     \* a NULL vnode pointer
    NAME_LEN,    \* the longest name a directory entry may have
    MAXPATHLEN,  \* the longest path do_link accepts
    Paths,       \* the paths the process passes to the system calls
    Modes,       \* the modes it passes to mknod
    CheckPaths,  \* the paths dir_namev is compared with its reference on
    GonePath     \* NameTree's Gone: the working directory once removed

ASSUME Root \in Vnodes /\ NoVnode \notin Vnodes /\ Vnodes \subseteq Nat

\* errno.h
EPERM        == -1
ENOENT       == -2
EEXIST       == -17
ENOTDIR      == -20
EISDIR       == -21
EINVAL       == -22
ENOSPC       == -28
ENAMETOOLONG == -36
ENOTEMPTY    == -39

NUL    == "NUL"
Dot    == <<".">>
DotDot == <<".", ".">>
NoEntries == [n \in {} |-> NoVnode]

VARIABLES
    vn_kind,      \* per vnode: "free", "dir", "reg", "chr" or "blk"
    dirents,      \* per vnode: its directory entries, name -> vnode
    vn_refcount,  \* per vnode: the in-memory references to it
    cwd,          \* curproc->p_cwd
    ret           \* the last system call, its arguments and its result

vars == <<vn_kind, dirents, vn_refcount, cwd, ret>>

\* At boot the root directory holds "." and ".."; vfs_root_vn and the
\* process's p_cwd each hold a reference on it.
Init ==
    /\ vn_kind = [v \in Vnodes |-> IF v = Root THEN "dir" ELSE "free"]
    /\ dirents = [v \in Vnodes |-> IF v = Root THEN (Dot :> Root @@ DotDot :> Root)
                                   ELSE NoEntries]
    /\ vn_refcount = [v \in Vnodes |-> IF v = Root THEN 2 ELSE 0]
    /\ cwd = Root
    /\ ret = [call |-> "none", args |-> <<>>, val |-> 0]

(* As in FileDesc, a handler is a function of a state record so that the  *)
(* calls it makes compose; Apply makes the record the next state.          *)
Cur == [kind |-> vn_kind, ents |-> dirents, ref |-> vn_refcount, cwd |-> cwd]

Apply(s, call, args, val) ==
    /\ vn_kind' = s.kind
    /\ dirents' = s.ents
    /\ vn_refcount' = s.ref
    /\ cwd' = s.cwd
    /\ ret' = [call |-> call, args |-> args, val |-> val]

R(s, rc) == [s |-> s, rc |-> rc]

-----------------------------------------------------------------------------
(* Vnode references and the file system's vnode operations (contracts)    *)

IsDir(s, v) == s.kind[v] = "dir"
NamesIn(s, d) == DOMAIN s.ents[d] \ {Dot, DotDot}
Linked(s, v) == v = Root \/ \E d \in Vnodes : \E n \in NamesIn(s, d) : s.ents[d][n] = v
\* a removed directory keeps no entries, not even "."
Alive(s, d) == Dot \in DOMAIN s.ents[d]

Reclaim(s, v) ==
    IF s.ref[v] = 0 /\ ~Linked(s, v)
    THEN [s EXCEPT !.kind[v] = "free", !.ents[v] = NoEntries]
    ELSE s

Vref(s, v) == [s EXCEPT !.ref[v] = @ + 1]
Vput(s, v) == Reclaim([s EXCEPT !.ref[v] = @ - 1], v)

AddEntry(s, d, name, v) == [s EXCEPT !.ents[d] = (name :> v) @@ @]
DelEntry(s, d, name) == [s EXCEPT !.ents[d] = Restrict(@, DOMAIN @ \ {name})]

FsLookup(s, d, name) ==
    IF name \in DOMAIN s.ents[d]
    THEN [s |-> Vref(s, s.ents[d][name]), rc |-> 0, v |-> s.ents[d][name]]
    ELSE [s |-> s, rc |-> ENOENT, v |-> NoVnode]

\* mkdir, mknod and create: a new inode of the given kind named name in d.
FsMake(s, d, name, kind) ==
    LET free == {v \in Vnodes : s.kind[v] = "free"}
    IN IF ~Alive(s, d) THEN [s |-> s, rc |-> ENOENT, v |-> NoVnode]
       ELSE IF name \in DOMAIN s.ents[d] THEN [s |-> s, rc |-> EEXIST, v |-> NoVnode]
       ELSE IF free = {} THEN [s |-> s, rc |-> ENOSPC, v |-> NoVnode]
       ELSE LET v == Min(free)
                new == [s EXCEPT !.kind[v] = kind,
                                 !.ents[v] = IF kind = "dir"
                                             THEN (Dot :> v @@ DotDot :> d)
                                             ELSE NoEntries]
            IN [s |-> AddEntry(new, d, name, v), rc |-> 0, v |-> v]

FsCreate(s, d, name) ==
    LET c == FsMake(s, d, name, "reg")
    IN IF c.rc = 0 THEN [c EXCEPT !.s = Vref(c.s, c.v)] ELSE c

FsRmdir(s, d, name) ==
    IF name \notin DOMAIN s.ents[d] THEN R(s, ENOENT)
    ELSE LET c == s.ents[d][name]
         IN IF ~IsDir(s, c) THEN R(s, ENOTDIR)
            ELSE IF NamesIn(s, c) # {} THEN R(s, ENOTEMPTY)
            ELSE R(Reclaim([DelEntry(s, d, name) EXCEPT !.ents[c] = NoEntries], c), 0)

FsUnlink(s, d, name) ==
    IF name \notin DOMAIN s.ents[d] THEN R(s, ENOENT)
    ELSE LET c == s.ents[d][name]
         IN IF IsDir(s, c) THEN R(s, EPERM)
            ELSE R(Reclaim(DelEntry(s, d, name), c), 0)

FsLink(s, from, d, name) ==
    IF ~Alive(s, d) THEN R(s, ENOENT)
    ELSE IF name \in DOMAIN s.ents[d] THEN R(s, EEXIST)
    ELSE IF IsDir(s, from) THEN R(s, EPERM)
    ELSE R(AddEntry(s, d, name, from), 0)

-----------------------------------------------------------------------------
(* namev.c                                                                 *)

\* lookup: a vnode without a lookup operation is not a directory.
Lookup(s, dir, name) ==
    IF ~IsDir(s, dir) THEN [s |-> s, rc |-> ENOTDIR, v |-> NoVnode]
    ELSE FsLookup(s, dir, name)

Ch(p, i) == IF i <= Len(p) THEN p[i] ELSE NUL

RECURSIVE SkipSlashes(_, _)
SkipSlashes(p, i) == IF Ch(p, i) = "/" THEN SkipSlashes(p, i + 1) ELSE i

RECURSIVE NameEnd(_, _)
NameEnd(p, i) == IF Ch(p, i) \in {"/", NUL} THEN i ELSE NameEnd(p, i + 1)

Res(s, rc, dir, name) == [s |-> s, rc |-> rc, dir |-> dir, name |-> name]

\* (plausible bug, used as a mutant: the last name's vnode is not put)
DirNamevEndKeepBase(s, p, prev, base, i, offset, nameLength, rc) ==
    IF p[i - 1] = "/" /\ ~IsDir(s, base)
    THEN Res(Vput(Vput(s, prev), base), ENOTDIR, NoVnode, <<>>)
    ELSE IF Ch(p, i) # NUL THEN Res(Vput(s, prev), ENOENT, NoVnode, <<>>)
    ELSE Res(s, 0, prev, SubSeq(p, offset, offset + nameLength - 1))

\* dir_namev after the loop: prev is the parent, base the vnode the last
\* name looked up to (prev itself when that lookup failed with ENOENT),
\* i the index after the trailing slashes.
DirNamevEnd(s, p, prev, base, i, offset, nameLength, rc) ==
    IF p[i - 1] = "/" /\ ~IsDir(s, base)
    THEN Res(Vput(Vput(s, prev), base), ENOTDIR, NoVnode, <<>>)
    ELSE IF Ch(p, i) # NUL THEN Res(Vput(s, prev), ENOENT, NoVnode, <<>>)
    ELSE Res(IF rc = 0 THEN Vput(s, base) ELSE s, 0, prev,
             SubSeq(p, offset, offset + nameLength - 1))

\* One turn of dir_namev's do-while loop, starting at index i: put the
\* vnode two levels up (DirNamevLoop), find the end e of the next name
\* (DirNamevStep), look it up in base and go on or leave (DirNamevNext).
\* Each result is handed to the next part as an argument.
RECURSIVE DirNamevLoop(_, _, _, _, _)
RECURSIVE DirNamevStep(_, _, _, _, _)
RECURSIVE DirNamevNext(_, _, _, _, _, _)
DirNamevLoop(s, p, prev, base, i) ==
    IF Ch(p, i) = NUL /\ prev = NoVnode THEN Res(s, 0, base, Dot)
    ELSE DirNamevStep(IF prev # NoVnode THEN Vput(s, prev) ELSE s, p, base, i, NameEnd(p, i))

DirNamevStep(s, p, base, i, e) ==
    IF e - i > NAME_LEN THEN Res(Vput(s, base), ENAMETOOLONG, NoVnode, <<>>)
    ELSE DirNamevNext(Lookup(s, base, SubSeq(p, i, e - 1)), p, base, i, e, SkipSlashes(p, e))

DirNamevNext(lk, p, base, i, e, j) ==
    LET next == IF lk.rc = 0 THEN lk.v ELSE base
    IN IF lk.rc = ENOTDIR \/ (lk.rc < 0 /\ lk.rc # ENOENT)
       THEN Res(Vput(lk.s, base), lk.rc, NoVnode, <<>>)
       ELSE IF Ch(p, j) # NUL /\ lk.rc >= 0
       THEN DirNamevLoop(lk.s, p, base, next, j)
       ELSE DirNamevEnd(lk.s, p, base, next, j, i, e - i, lk.rc)

\* (plausible bug, used as a mutant: leading slashes are not skipped)
DirNamevNoLeadingSkip(s, p) ==
    IF Len(p) = 0 THEN Res(s, EINVAL, NoVnode, <<>>)
    ELSE LET b == IF p[1] = "/" THEN Root ELSE s.cwd
         IN DirNamevLoop(Vref(s, b), p, NoVnode, b, 1)

\* dir_namev(path, ..., NULL, &res): every caller here passes base NULL.
DirNamev(s, p) ==
    IF Len(p) = 0 THEN Res(s, EINVAL, NoVnode, <<>>)
    ELSE LET b == IF p[1] = "/" THEN Root ELSE s.cwd
         IN DirNamevLoop(Vref(s, b), p, NoVnode, b, SkipSlashes(p, 1))

(* In the handlers below, d is what dir_namev returned, lk what lookup    *)
(* returned and o what open_namev returned; each handler is split at the  *)
(* calls it makes, the later part taking the earlier results.             *)

\* open_namev after the lookup of the last name in d.dir
OpenNamevLooked(d, lk, flags) ==
    IF lk.rc < 0
    THEN IF "CREAT" \in flags /\ lk.rc = ENOENT
         THEN LET c == FsCreate(lk.s, d.dir, d.name)
              IN [s |-> Vput(c.s, d.dir), rc |-> c.rc, v |-> c.v]
         ELSE [s |-> Vput(lk.s, d.dir), rc |-> lk.rc, v |-> NoVnode]
    ELSE IF {"WRONLY", "RDWR"} \cap flags # {} /\ IsDir(lk.s, lk.v)
    THEN [s |-> Vput(Vput(lk.s, lk.v), d.dir), rc |-> EISDIR, v |-> NoVnode]
    ELSE [s |-> Vput(lk.s, d.dir), rc |-> 0, v |-> lk.v]

OpenNamevAt(d, flags) ==
    IF d.rc < 0 THEN [s |-> d.s, rc |-> d.rc, v |-> NoVnode]
    ELSE OpenNamevLooked(d, Lookup(d.s, d.dir, d.name), flags)

OpenNamev(s, p, flags) == OpenNamevAt(DirNamev(s, p), flags)

-----------------------------------------------------------------------------
(* vfs_syscall.c: each call is a function of the state giving [s, rc]     *)

\* do_mknod and do_mkdir differ only in the mode check and the operation.
MakeLooked(d, lk, kind) ==
    IF lk.rc = 0 THEN R(Vput(Vput(lk.s, lk.v), d.dir), EEXIST)
    ELSE IF lk.rc = ENOTDIR THEN R(Vput(lk.s, d.dir), ENOTDIR)
    ELSE LET m == FsMake(lk.s, d.dir, d.name, kind)
         IN R(Vput(m.s, d.dir), m.rc)

MakeAt(d, kind) ==
    IF d.rc # 0 THEN R(d.s, d.rc)
    ELSE MakeLooked(d, Lookup(d.s, d.dir, d.name), kind)

MakeCall(s, p, kind) == MakeAt(DirNamev(s, p), kind)

MknodCall(s, p, mode) ==
    IF mode \notin {"chr", "blk"} THEN R(s, EINVAL) ELSE MakeCall(s, p, mode)

MkdirCall(s, p) == MakeCall(s, p, "dir")

RmdirLooked(d, lk) ==
    IF lk.rc # 0 THEN R(Vput(lk.s, d.dir), lk.rc)
    ELSE IF IsDir(lk.s, lk.v)
    THEN LET r == FsRmdir(lk.s, d.dir, d.name)
         IN R(Vput(Vput(r.s, lk.v), d.dir), r.rc)
    ELSE R(Vput(Vput(lk.s, lk.v), d.dir), ENOTDIR)

\* (plausible bug, used as a mutant: "." is passed to the file system)
RmdirAtNoDotCheck(d) ==
    IF d.rc < 0 THEN R(d.s, d.rc)
    ELSE IF ~IsDir(d.s, d.dir) THEN R(Vput(d.s, d.dir), ENOTDIR)
    ELSE IF d.name = DotDot THEN R(Vput(d.s, d.dir), ENOTEMPTY)
    ELSE RmdirLooked(d, Lookup(d.s, d.dir, d.name))

RmdirAt(d) ==
    IF d.rc < 0 THEN R(d.s, d.rc)
    ELSE IF ~IsDir(d.s, d.dir) THEN R(Vput(d.s, d.dir), ENOTDIR)
    ELSE IF d.name = Dot THEN R(Vput(d.s, d.dir), EINVAL)
    ELSE IF d.name = DotDot THEN R(Vput(d.s, d.dir), ENOTEMPTY)
    ELSE RmdirLooked(d, Lookup(d.s, d.dir, d.name))

RmdirCall(s, p) == RmdirAt(DirNamev(s, p))

UnlinkLooked(d, lk) ==
    IF lk.rc # 0 THEN R(Vput(lk.s, d.dir), lk.rc)
    ELSE IF IsDir(lk.s, lk.v) THEN R(Vput(Vput(lk.s, lk.v), d.dir), EPERM)
    ELSE LET u == FsUnlink(lk.s, d.dir, d.name)
         IN R(Vput(Vput(u.s, lk.v), d.dir), u.rc)

UnlinkAt(d) ==
    IF d.rc < 0 THEN R(d.s, d.rc)
    ELSE IF ~IsDir(d.s, d.dir) THEN R(Vput(d.s, d.dir), ENOTDIR)
    ELSE UnlinkLooked(d, Lookup(d.s, d.dir, d.name))

UnlinkCall(s, p) == UnlinkAt(DirNamev(s, p))

\* do_link: o is the vnode of from, d the directory and name of to.
LinkLooked(o, d, lk) ==
    IF lk.rc # 0
    THEN LET l == FsLink(lk.s, o.v, d.dir, d.name)
         IN R(Vput(Vput(l.s, o.v), d.dir), l.rc)
    ELSE R(Vput(Vput(Vput(lk.s, lk.v), o.v), d.dir), EEXIST)

\* the ENOTDIR return after dir_namev puts neither vnode
LinkAt(o, d) ==
    IF d.rc < 0 THEN R(Vput(d.s, o.v), d.rc)
    ELSE IF ~IsDir(d.s, d.dir) THEN R(d.s, ENOTDIR)
    ELSE LinkLooked(o, d, Lookup(d.s, d.dir, d.name))

LinkOpened(o, to) ==
    IF o.rc < 0 THEN R(o.s, o.rc) ELSE LinkAt(o, DirNamev(o.s, to))

LinkCall(s, from, to) ==
    IF Len(from) > MAXPATHLEN \/ Len(to) > MAXPATHLEN THEN R(s, ENAMETOOLONG)
    ELSE LinkOpened(OpenNamev(s, from, {}), to)

\* (plausible bug, used as a mutant: the old name is unlinked first)
RenameUnlinked(u, old, new) == IF u.rc < 0 THEN u ELSE LinkCall(u.s, old, new)
RenameCallUnlinkFirst(s, old, new) == RenameUnlinked(UnlinkCall(s, old), old, new)

\* do_rename after do_link returned l
RenameLinked(l, old) == IF l.rc < 0 THEN l ELSE UnlinkCall(l.s, old)

RenameCall(s, old, new) == RenameLinked(LinkCall(s, old, new), old)

\* (plausible bug, used as a mutant: p_cwd is not switched)
ChdirOpenedNoSwitch(o) ==
    IF o.rc < 0 THEN R(o.s, o.rc)
    ELSE IF IsDir(o.s, o.v) THEN R(Vput(o.s, o.v), 0)
    ELSE R(Vput(o.s, o.v), ENOTDIR)

ChdirOpened(o) ==
    IF o.rc < 0 THEN R(o.s, o.rc)
    ELSE IF IsDir(o.s, o.v) THEN R([Vput(o.s, o.s.cwd) EXCEPT !.cwd = o.v], 0)
    ELSE R(Vput(o.s, o.v), ENOTDIR)

ChdirCall(s, p) == ChdirOpened(OpenNamev(s, p, {}))

\* the file system's stat fills the buffer and returns 0
StatOpened(o) == IF o.rc < 0 THEN R(o.s, o.rc) ELSE R(Vput(o.s, o.v), 0)

StatCall(s, p) == StatOpened(OpenNamev(s, p, {}))

-----------------------------------------------------------------------------
(* Actions: one per system call                                            *)

Do(call, args, r) == Apply(r.s, call, args, r.rc)

DoMknod(p, mode) == Do("mknod", <<p, mode>>, MknodCall(Cur, p, mode))
DoMkdir(p)       == Do("mkdir", <<p>>, MkdirCall(Cur, p))
DoRmdir(p)       == Do("rmdir", <<p>>, RmdirCall(Cur, p))
DoUnlink(p)      == Do("unlink", <<p>>, UnlinkCall(Cur, p))
DoLink(p, q)     == Do("link", <<p, q>>, LinkCall(Cur, p, q))
DoRename(p, q)   == Do("rename", <<p, q>>, RenameCall(Cur, p, q))
DoChdir(p)       == Do("chdir", <<p>>, ChdirCall(Cur, p))
DoStat(p)        == Do("stat", <<p>>, StatCall(Cur, p))

Next ==
    \/ \E p \in Paths, m \in Modes : DoMknod(p, m)
    \/ \E p \in Paths : DoMkdir(p) \/ DoRmdir(p) \/ DoUnlink(p)
                       \/ DoChdir(p) \/ DoStat(p)
    \/ \E p, q \in Paths : DoLink(p, q) \/ DoRename(p, q)

Spec == Init /\ [][Next]_vars

\* ret only records the last result; no action reads it.
StateView == <<vn_kind, dirents, vn_refcount, cwd>>

-----------------------------------------------------------------------------
(* Properties                                                              *)

\* the entries other than "." and ".." that name v
Links(v) == {dn \in UNION {{<<d, n>> : n \in NamesIn(Cur, d)} : d \in Vnodes} :
                dirents[dn[1]][dn[2]] = v}

RECURSIVE ReachesRoot(_, _)
ReachesRoot(v, k) ==
    \/ v = Root
    \/ k > 0 /\ DotDot \in DOMAIN dirents[v] /\ ReachesRoot(dirents[v][DotDot], k - 1)

\* dir_namev as its comment describes it, on the names of the path (the
\* maximal runs of characters other than "/"): walk every name but the
\* last from the root or the working directory; a name longer than
\* NAME_LEN is ENAMETOOLONG, a walk through a non-directory ENOTDIR and a
\* missing directory ENOENT; the result is the last directory and name,
\* or the start directory and "." when the path has no name, and a path
\* ending in "/" must name a directory if it names anything.
RECURSIVE PathNames(_, _, _)
PathNames(p, i, cur) ==
    IF i > Len(p) THEN IF cur = <<>> THEN <<>> ELSE <<cur>>
    ELSE IF p[i] = "/"
         THEN (IF cur = <<>> THEN <<>> ELSE <<cur>>) \o PathNames(p, i + 1, <<>>)
         ELSE PathNames(p, i + 1, Append(cur, p[i]))

RECURSIVE WalkRef(_, _, _, _)
WalkRef(s, d, names, trailing) ==
    LET c == Head(names)
    IN IF Len(c) > NAME_LEN THEN [rc |-> ENAMETOOLONG]
       ELSE IF ~IsDir(s, d) THEN [rc |-> ENOTDIR]
       ELSE IF Len(names) = 1
            THEN IF trailing /\ c \in DOMAIN s.ents[d] /\ ~IsDir(s, s.ents[d][c])
                 THEN [rc |-> ENOTDIR]
                 ELSE [rc |-> 0, dir |-> d, name |-> c]
       ELSE IF c \notin DOMAIN s.ents[d] THEN [rc |-> ENOENT]
       ELSE WalkRef(s, s.ents[d][c], Tail(names), trailing)

DirNamevRef(s, p) ==
    IF p = <<>> THEN [rc |-> EINVAL]
    ELSE LET start == IF p[1] = "/" THEN Root ELSE s.cwd
             names == PathNames(p, 1, <<>>)
         IN IF names = <<>> THEN [rc |-> 0, dir |-> start, name |-> Dot]
            ELSE WalkRef(s, start, names, p[Len(p)] = "/")

\* The character walk of dir_namev (leading, doubled and trailing
\* slashes, the lookup of the last name, its five exits) computes what
\* its comment promises on every path of CheckPaths, in every reachable
\* state: the same error, or the same parent and name with exactly one
\* reference taken on the parent and none left anywhere else.
DirNamevMatchesRef ==
    \A p \in CheckPaths :
        LET d == DirNamev(Cur, p)
            r == DirNamevRef(Cur, p)
        IN /\ d.rc = r.rc
           /\ d.rc = 0 => d.dir = r.dir /\ d.name = r.name /\ d.s = Vref(Cur, d.dir)
           /\ d.rc # 0 => d.s = Cur

\* Every system call returns with the reference counts it found: a vnode
\* is referenced by vfs_root_vn (the root) and by p_cwd, and by nothing
\* else between calls.  dir_namev takes and puts a reference at every
\* step of its walk and has five ways out, and each caller puts what it
\* got on each of its own error paths; one put too many or too few on any
\* of them breaks this.
RefcountsBalanced ==
    \A v \in Vnodes :
        vn_refcount[v] = (IF v = cwd THEN 1 ELSE 0) + (IF v = Root THEN 1 ELSE 0)

\* The directories form a tree rooted at vfs_root_vn whose entries name
\* live vnodes: a directory other than the root has exactly one name, its
\* "." is itself and its ".." the directory holding that name, and ".."
\* leads to the root; an allocated vnode is named or referenced.  do_rmdir
\* must refuse "." and ".." itself (vfs_syscall.c), and do_link never
\* checks that from is a directory although its comment lists EPERM for
\* that case, so a directory keeps one name only while the file system's
\* link refuses directories.
NamespaceIsTree ==
    /\ \A d \in Vnodes : \A n \in DOMAIN dirents[d] : vn_kind[dirents[d][n]] # "free"
    /\ vn_kind[cwd] # "free"
    /\ \A v \in Vnodes : vn_kind[v] # "free" => Linked(Cur, v) \/ vn_refcount[v] > 0
    /\ \A v \in Vnodes \ {Root} :
         vn_kind[v] = "dir" /\ Links(v) # {} =>
            /\ Cardinality(Links(v)) = 1
            /\ Alive(Cur, v) /\ dirents[v][Dot] = v
            /\ DotDot \in DOMAIN dirents[v]
            /\ dirents[v][DotDot] = (CHOOSE l \in Links(v) : TRUE)[1]
            /\ ReachesRoot(v, Cardinality(Vnodes))

\* A namespace call that returns an error leaves the tree, the reference
\* counts and the working directory as they were.  do_rename is do_link
\* followed by do_unlink, and its comment admits that a failed unlink
\* leaves both names; the failure paths of each call put exactly the
\* references they took.
FailedCallNoEffect ==
    [][ret'.val < 0 => UNCHANGED <<vn_kind, dirents, vn_refcount, cwd>>]_vars

-----------------------------------------------------------------------------
(* Refinement: the namespace as NameTree sees it.  A node's path is the   *)
(* names on the way down from the root; the working directory is the     *)
(* path of p_cwd while p_cwd is in the tree, Gone after rmdir removed it. *)

\* the pairs <<path, vnode>> of the tree below d, d reached by path at
RECURSIVE NamedPaths(_, _, _, _)
NamedPaths(s, d, at, k) ==
    {<<at, d>>} \cup
        IF k = 0 \/ ~IsDir(s, d) THEN {}
        ELSE UNION {NamedPaths(s, s.ents[d][n], Append(at, n), k - 1) : n \in NamesIn(s, d)}

AbsTreeOf(np, s) == [p \in {x[1] : x \in np} |-> s.kind[(CHOOSE x \in np : x[1] = p)[2]]]

AbsWdOf(np, s) ==
    IF \E x \in np : x[2] = s.cwd THEN (CHOOSE x \in np : x[2] = s.cwd)[1] ELSE GonePath

AbsTree(s) == AbsTreeOf(NamedPaths(s, Root, <<>>, Cardinality(Vnodes)), s)
AbsWd(s) == AbsWdOf(NamedPaths(s, Root, <<>>, Cardinality(Vnodes)), s)

NT == INSTANCE NameTree WITH tree <- AbsTree(Cur), wd <- AbsWd(Cur), Gone <- GonePath

\* the node a path argument names in NameTree, from the working directory w
Target(w, p) == NT!Resolve(w, p # <<>> /\ p[1] = "/", PathNames(p, 1, <<>>))

\* a call returning 0 performed the operation of its name on the nodes its
\* arguments name; a failing call changed nothing
CallStepOn(t, w, t2, w2) ==
    LET a == ret'.args
    IN IF ret'.val # 0 THEN NT!Fail(t, w, t2, w2)
       ELSE /\ ret'.call = "mknod"  => NT!Mknod(t, w, t2, w2, Target(w, a[1]), a[2])
            /\ ret'.call = "mkdir"  => NT!Mkdir(t, w, t2, w2, Target(w, a[1]))
            /\ ret'.call = "rmdir"  => NT!Rmdir(t, w, t2, w2, Target(w, a[1]))
            /\ ret'.call = "unlink" => NT!Unlink(t, w, t2, w2, Target(w, a[1]))
            /\ ret'.call = "link"   => NT!Link(t, w, t2, w2, Target(w, a[1]), Target(w, a[2]))
            /\ ret'.call = "rename" => NT!Rename(t, w, t2, w2, Target(w, a[1]), Target(w, a[2]))
            /\ ret'.call = "chdir"  => NT!Chdir(t, w, t2, w2, Target(w, a[1]))
            /\ ret'.call = "stat"   => NT!Stat(t, w, t2, w2, Target(w, a[1]))

CallStep == CallStepOn(AbsTree(Cur), AbsWd(Cur), AbsTree(Cur'), AbsWd(Cur'))

\* The namespace implements NameTree: every call that returns 0 performs,
\* on the tree of names, exactly the operation it is named for on the
\* nodes its path arguments name from the working directory ("." and ".."
\* included, nothing else touched), and every failing call none.  It ties
\* dir_namev's walk, the lookups of each handler, the file system's
\* operations and do_chdir's switch of p_cwd together: a call that reports
\* success for the wrong name, or without its effect, breaks it.
NamespaceRefinesNameTree == NT!Init /\ [][CallStep]_vars

=============================================================================
