------------------------------ MODULE FileDesc ------------------------------
(***************************************************************************)
(* The file-descriptor layer of the VFS (src/K2/open.c, src/K2/vfs_syscall.c *)
(* do_read ... do_lseek, and open_namev/lookup of src/K2/namev.c) for one  *)
(* process.  p_files maps a descriptor to an open file (file_t); a file    *)
(* counts its references in f_refcount and holds one reference on its     *)
(* vnode.  Path resolution is abstracted to one directory whose Names     *)
(* each name one vnode: a regular file, a directory, or nothing yet.      *)
(* The file allocator (fget(-1)/fref/fput of fs/file.c) and the vnode     *)
(* operations (lookup, create, read, write of the file system) are not in *)
(* src/ and are modelled from their contracts:                           *)
(*   - fget(-1) returns a fresh file with f_refcount 1, or NULL;          *)
(*   - fget(fd) returns p_files[fd] with its refcount incremented;        *)
(*   - fput drops one reference and, at zero, vputs the vnode and frees;  *)
(*   - lookup and create return the vnode with a reference taken;         *)
(*   - read returns the bytes between f_pos and vn_len, up to nbytes, and *)
(*     write extends the file; either may fail with an error.             *)
(* The kernel is not preemptive and none of these calls blocks in the     *)
(* model, so every system call is one atomic action.                      *)
(***************************************************************************)
EXTENDS Naturals, Integers, FiniteSets, FiniteSetsExt

CONSTANTS
    NFILES,     \* the size of p_files
    FileIds,    \* the file_t structures the allocator can hand out
    Names,      \* the names of the directory; each names one vnode
    InitKind,   \* what each name is at boot: "none", "reg" or "dir"
    MaxLen,     \* bound on the file lengths and offsets explored
    NoFile,     \* a NULL file_t pointer
    NoVnode     \* a NULL vnode pointer

ASSUME FileIds \subseteq Nat /\ InitKind \in [Names -> {"none", "reg", "dir"}]

Fds == 0..(NFILES - 1)

\* errno.h
ENOENT == -2
EIO    == -5
EBADF  == -9
ENOMEM == -12
ENOTDIR == -20
EISDIR == -21
EINVAL == -22
EMFILE == -24
ENOSPC == -28

VARIABLES
    p_files,        \* curproc->p_files
    f_refcount,     \* per file: 0 when the file is not allocated
    f_mode,         \* per file: a subset of {"READ", "WRITE", "APPEND"}
    f_pos,          \* per file
    f_vnode,        \* per file: a name or NoVnode
    vn_kind,        \* per name: "none", "reg" or "dir"
    vn_len,         \* per name
    vn_refcount,    \* per name: the in-memory references to its vnode
    ret             \* the last system call, its descriptor and its result

vars == <<p_files, f_refcount, f_mode, f_pos, f_vnode, vn_kind, vn_len,
          vn_refcount, ret>>

TypeOK ==
    /\ p_files \in [Fds -> FileIds \cup {NoFile}]
    /\ f_refcount \in [FileIds -> Nat]
    /\ f_mode \in [FileIds -> SUBSET {"READ", "WRITE", "APPEND"}]
    /\ f_pos \in [FileIds -> 0..MaxLen]
    /\ f_vnode \in [FileIds -> Names \cup {NoVnode}]
    /\ vn_kind \in [Names -> {"none", "reg", "dir"}]
    /\ vn_len \in [Names -> 0..MaxLen]
    /\ vn_refcount \in [Names -> Nat]

Init ==
    /\ p_files = [fd \in Fds |-> NoFile]
    /\ f_refcount = [f \in FileIds |-> 0]
    /\ f_mode = [f \in FileIds |-> {}]
    /\ f_pos = [f \in FileIds |-> 0]
    /\ f_vnode = [f \in FileIds |-> NoVnode]
    /\ vn_kind = InitKind
    /\ vn_len = [v \in Names |-> 0]
    /\ vn_refcount = [v \in Names |-> 0]
    /\ ret = [call |-> "none", fd |-> -1, val |-> 0]

(* As in VmSystem, a handler is a function of a state record, so that     *)
(* the calls it makes compose; Apply makes the record the next state.     *)
Cur == [p_files |-> p_files, f_refcount |-> f_refcount, f_mode |-> f_mode,
        f_pos |-> f_pos, f_vnode |-> f_vnode, vn_kind |-> vn_kind,
        vn_len |-> vn_len, vn_refcount |-> vn_refcount]

Apply(s, call, fd, val) ==
    /\ p_files' = s.p_files
    /\ f_refcount' = s.f_refcount
    /\ f_mode' = s.f_mode
    /\ f_pos' = s.f_pos
    /\ f_vnode' = s.f_vnode
    /\ vn_kind' = s.vn_kind
    /\ vn_len' = s.vn_len
    /\ vn_refcount' = s.vn_refcount
    /\ ret' = [call |-> call, fd |-> fd, val |-> val]

-----------------------------------------------------------------------------
(* fs/file.c and the vnode reference count (contracts)                     *)

\* fget(-1): the lowest free file_t, fresh, with one reference; NoFile
\* when the allocator is exhausted.
FgetNew(s) ==
    LET free == {f \in FileIds : s.f_refcount[f] = 0}
    IN IF free = {} THEN [s |-> s, f |-> NoFile]
       ELSE LET f == Min(free)
            IN [s |-> [s EXCEPT !.f_refcount[f] = 1, !.f_mode[f] = {},
                                !.f_pos[f] = 0, !.f_vnode[f] = NoVnode],
                f |-> f]

\* fget(fd) for fd in range.
Fget(s, fd) ==
    IF s.p_files[fd] = NoFile THEN [s |-> s, f |-> NoFile]
    ELSE [s |-> [s EXCEPT !.f_refcount[s.p_files[fd]] = @ + 1],
          f |-> s.p_files[fd]]

Vput(s, v) == [s EXCEPT !.vn_refcount[v] = @ - 1]

\* fput: the last reference puts the vnode and frees the file (its fields
\* are reset so that a free file_t has one representation).
Fput(s, f) ==
    IF s.f_refcount[f] > 1 THEN [s EXCEPT !.f_refcount[f] = @ - 1]
    ELSE LET freed == [s EXCEPT !.f_refcount[f] = 0, !.f_mode[f] = {},
                                !.f_pos[f] = 0, !.f_vnode[f] = NoVnode]
         IN IF s.f_vnode[f] = NoVnode THEN freed ELSE Vput(freed, s.f_vnode[f])

-----------------------------------------------------------------------------
(* namev.c                                                                 *)

\* lookup(dir, name): the directory's lookup operation; the vnode comes
\* back with a reference taken.  (The directory of the model is one, so
\* the -ENOTDIR branch for a non-directory dir is not reached.)
Lookup(s, name) ==
    IF s.vn_kind[name] = "none" THEN [s |-> s, code |-> ENOENT, vn |-> NoVnode]
    ELSE [s |-> [s EXCEPT !.vn_refcount[name] = @ + 1], code |-> 0, vn |-> name]

\* (plausible bug, used as a mutant: the EISDIR branch forgets to put the
\* vnode lookup returned)
OpenLookedNoPut(s, name, flags, createOk, l) ==
    IF l.code < 0
    THEN IF "CREAT" \in flags /\ l.code = ENOENT
         THEN IF createOk
              THEN [s |-> [s EXCEPT !.vn_kind[name] = "reg", !.vn_len[name] = 0,
                                    !.vn_refcount[name] = @ + 1],
                    code |-> 0, vn |-> name]
              ELSE [s |-> s, code |-> ENOSPC, vn |-> NoVnode]
         ELSE [s |-> s, code |-> l.code, vn |-> NoVnode]
    ELSE IF {"WRONLY", "RDWR"} \cap flags # {} /\ s.vn_kind[name] = "dir"
         THEN [s |-> l.s, code |-> EISDIR, vn |-> NoVnode]
         ELSE [s |-> l.s, code |-> 0, vn |-> name]

\* open_namev once lookup answered l: ENOENT with O_CREAT creates a
\* regular file through the parent's create operation (createOk says
\* whether it succeeds); opening a directory for writing puts the vnode
\* and fails with -EISDIR.
OpenLooked(s, name, flags, createOk, l) ==
    IF l.code < 0
    THEN IF "CREAT" \in flags /\ l.code = ENOENT
         THEN IF createOk
              THEN [s |-> [s EXCEPT !.vn_kind[name] = "reg", !.vn_len[name] = 0,
                                    !.vn_refcount[name] = @ + 1],
                    code |-> 0, vn |-> name]
              ELSE [s |-> s, code |-> ENOSPC, vn |-> NoVnode]
         ELSE [s |-> s, code |-> l.code, vn |-> NoVnode]
    ELSE IF {"WRONLY", "RDWR"} \cap flags # {} /\ s.vn_kind[name] = "dir"
         THEN [s |-> Vput(l.s, name), code |-> EISDIR, vn |-> NoVnode]
         ELSE [s |-> l.s, code |-> 0, vn |-> name]

\* open_namev(pathname, flag, &res_vnode, NULL).  dirOk is whether
\* dir_namev resolves the parent directory (its reference on the parent is
\* put before open_namev returns, so it is left out).
OpenNamev(s, name, flags, dirOk, createOk) ==
    IF ~dirOk THEN [s |-> s, code |-> ENOENT, vn |-> NoVnode]
    ELSE OpenLooked(s, name, flags, createOk, Lookup(s, name))

-----------------------------------------------------------------------------
(* open.c                                                                  *)

\* get_empty_fd: the lowest free descriptor, or -EMFILE.
GetEmptyFd(s) ==
    LET free == {fd \in Fds : s.p_files[fd] = NoFile}
    IN IF free = {} THEN EMFILE ELSE Min(free)

\* The access mode do_open derives from oflags, a set of the flags set
\* (O_RDONLY is 0, so oflags & O_RDONLY is never set).
ReadAndWrite(flags) == "RDWR" \in flags /\ "WRONLY" \notin flags
WriteOnly(flags)    == "WRONLY" \in flags /\ "RDWR" \notin flags
ReadOnly(flags)     == flags \in {{}, {"CREAT"}}

OpenMode(flags) ==
    (IF "APPEND" \in flags THEN {"APPEND"} ELSE {})
    \cup (IF WriteOnly(flags) THEN {"WRITE"}
          ELSE IF ReadAndWrite(flags) THEN {"READ", "WRITE"}
          ELSE IF ReadOnly(flags) THEN {"READ"} ELSE {})

\* (plausible bug, used as a mutant: when open_namev fails the descriptor
\* is not given back)
OpenResolvedKeepFd(fd, f, n) ==
    IF n.code < 0 THEN Apply(n.s, "open", -1, n.code)
    ELSE Apply([n.s EXCEPT !.f_pos[f] = 0, !.f_refcount[f] = 1, !.f_vnode[f] = n.vn],
               "open", fd, fd)

\* The end of do_open once open_namev answered n: on failure the
\* descriptor is cleared and the file put; else the file takes the vnode.
OpenResolved(fd, f, n) ==
    IF n.code < 0
    THEN Apply(Fput([n.s EXCEPT !.p_files[fd] = NoFile], f), "open", -1, n.code)
    ELSE Apply([n.s EXCEPT !.f_pos[f] = 0, !.f_refcount[f] = 1, !.f_vnode[f] = n.vn],
               "open", fd, fd)

\* With the fresh file f in descriptor fd and its mode set (state s): an
\* oflags of no access mode puts it back, else open_namev.
OpenFilled(flags, name, dirOk, createOk, fd, f, s) ==
    IF ~(WriteOnly(flags) \/ ReadAndWrite(flags) \/ ReadOnly(flags))
    THEN Apply([Fput(s, f) EXCEPT !.p_files[fd] = NoFile], "open", -1, EINVAL)
    ELSE OpenResolved(fd, f, OpenNamev(s, name, flags, dirOk, createOk))

\* fget(-1) answered g: -ENOMEM, or the file goes into descriptor fd.
OpenAllocated(flags, name, dirOk, createOk, fd, g) ==
    IF g.f = NoFile THEN Apply(Cur, "open", -1, ENOMEM)
    ELSE OpenFilled(flags, name, dirOk, createOk, fd, g.f,
                    [g.s EXCEPT !.p_files[fd] = g.f, !.f_mode[g.f] = OpenMode(flags)])

\* do_open(filename, oflags): the checks of oflags, a descriptor, a fresh
\* file in it, its mode, then open_namev.
DoOpen(flags, name, dirOk, createOk) ==
    IF \/ ReadOnly(flags) /\ WriteOnly(flags)
       \/ ReadAndWrite(flags) /\ (ReadOnly(flags) \/ WriteOnly(flags))
    THEN Apply(Cur, "open", -1, EINVAL)
    ELSE IF GetEmptyFd(Cur) = EMFILE THEN Apply(Cur, "open", -1, EMFILE)
    ELSE OpenAllocated(flags, name, dirOk, createOk, GetEmptyFd(Cur), FgetNew(Cur))

-----------------------------------------------------------------------------
(* vfs_syscall.c                                                           *)

\* The read operation of a regular file's vnode at pos: the bytes up to
\* vn_len, at most n, or an error.
VnRead(s, v, pos, n, fail) ==
    IF fail THEN EIO
    ELSE IF pos >= s.vn_len[v] THEN 0
    ELSE Min({n, s.vn_len[v] - pos})

\* The write operation: n bytes at pos, extending the file; or an error.
VnWrite(s, v, pos, n, fail) ==
    IF fail THEN [s |-> s, r |-> ENOSPC]
    ELSE [s |-> [s EXCEPT !.vn_len[v] = Max({@, pos + n})], r |-> n]

\* do_lseek(fd, offset, whence) as a function of the state: the state
\* after it and its result.  whence is "SET", "CUR", "END" or "BAD".
Lseek(s, fd, offset, whence) ==
    IF fd \notin Fds THEN [s |-> s, val |-> EBADF]
    ELSE LET g == Fget(s, fd)
             f == g.f
         IN IF f = NoFile THEN [s |-> s, val |-> EBADF]
            ELSE IF whence \notin {"SET", "CUR", "END"}
            THEN [s |-> Fput(g.s, f), val |-> EINVAL]
            ELSE LET newPos == CASE whence = "SET" -> offset
                                 [] whence = "CUR" -> g.s.f_pos[f] + offset
                                 [] OTHER -> g.s.vn_len[g.s.f_vnode[f]] + offset
                 IN IF newPos < 0 THEN [s |-> Fput(g.s, f), val |-> EINVAL]
                    ELSE [s |-> Fput([g.s EXCEPT !.f_pos[f] = newPos], f),
                          val |-> newPos]

DoLseek(fd, offset, whence) ==
    LET l == Lseek(Cur, fd, offset, whence)
    IN /\ l.val <= MaxLen
       /\ Apply(l.s, "lseek", fd, l.val)

\* do_read once the read operation returned bytesRead.  bytesRead is an
\* unsigned int: a negative result r of the read operation is held as
\* r + 2^32, which is > 0, and do_lseek's int offset turns it back into r.
\* So every r # 0 moves f_pos by r.  A read of 0 bytes with nbytes # 0
\* seeks to the end of the file.
ReadDone(f, fd, bytesRead, seek) ==
    Apply(Fput(seek.s, f), "read", fd, IF seek.val < 0 THEN seek.val ELSE bytesRead)

ReadBytes(s, f, fd, nbytes, bytesRead) ==
    ReadDone(f, fd, bytesRead,
             IF bytesRead # 0 THEN Lseek(s, fd, bytesRead, "CUR")
             ELSE IF nbytes # 0 THEN Lseek(s, fd, 0, "END")
             ELSE [s |-> s, val |-> 0])

\* do_read once fget(fd) answered g.
ReadFile(g, fd, nbytes, fail) ==
    IF g.f = NoFile THEN Apply(Cur, "read", fd, EBADF)
    ELSE IF "READ" \notin g.s.f_mode[g.f] THEN Apply(Fput(g.s, g.f), "read", fd, EBADF)
    ELSE IF g.s.vn_kind[g.s.f_vnode[g.f]] = "dir"
    THEN Apply(Fput(g.s, g.f), "read", fd, EISDIR)
    ELSE ReadBytes(g.s, g.f, fd, nbytes,
                   VnRead(g.s, g.s.f_vnode[g.f], g.s.f_pos[g.f], nbytes, fail))

\* do_read(fd, buf, nbytes).
DoRead(fd, nbytes, fail) ==
    IF fd \notin Fds THEN Apply(Cur, "read", fd, EBADF)
    ELSE ReadFile(Fget(Cur, fd), fd, nbytes, fail)

\* do_write once the write operation answered w: a positive count moves
\* f_pos by it; seekResult is the O_APPEND seek's result otherwise.
WriteSeeked(f, fd, r, seek) ==
    Apply(Fput(seek.s, f), "write", fd, IF seek.val < 0 THEN seek.val ELSE r)

WriteBytes(f, fd, appVal, w) ==
    WriteSeeked(f, fd, w.r, IF w.r > 0 THEN Lseek(w.s, fd, w.r, "CUR")
                            ELSE [s |-> w.s, val |-> appVal])

\* The write operation at f_pos as it is after the O_APPEND seek app.
\* The KASSERT that f_pos <= vn_len after a write of a regular file holds
\* by the write operation's contract (the file is extended to pos+n).
WriteAt(f, fd, nbytes, fail, app) ==
    /\ app.s.f_pos[f] + nbytes <= MaxLen
    /\ WriteBytes(f, fd, app.val,
                  VnWrite(app.s, app.s.f_vnode[f], app.s.f_pos[f], nbytes, fail))

\* (plausible bug, used as a mutant: O_APPEND is ignored)
WriteFileNoAppend(g, fd, nbytes, fail) ==
    IF g.f = NoFile THEN Apply(Cur, "write", fd, EBADF)
    ELSE IF "WRITE" \notin g.s.f_mode[g.f] THEN Apply(Fput(g.s, g.f), "write", fd, EBADF)
    ELSE IF g.s.vn_kind[g.s.f_vnode[g.f]] = "dir"
    THEN Apply(Fput(g.s, g.f), "write", fd, EISDIR)
    ELSE WriteAt(g.f, fd, nbytes, fail, [s |-> g.s, val |-> 0])

\* do_write once fget(fd) answered g: with FMODE_APPEND, first seek to
\* the end.
WriteFile(g, fd, nbytes, fail) ==
    IF g.f = NoFile THEN Apply(Cur, "write", fd, EBADF)
    ELSE IF "WRITE" \notin g.s.f_mode[g.f] THEN Apply(Fput(g.s, g.f), "write", fd, EBADF)
    ELSE IF g.s.vn_kind[g.s.f_vnode[g.f]] = "dir"
    THEN Apply(Fput(g.s, g.f), "write", fd, EISDIR)
    ELSE WriteAt(g.f, fd, nbytes, fail,
                 IF "APPEND" \in g.s.f_mode[g.f] THEN Lseek(g.s, fd, 0, "END")
                 ELSE [s |-> g.s, val |-> 0])

\* do_write(fd, buf, nbytes).
DoWrite(fd, nbytes, fail) ==
    IF fd \notin Fds THEN Apply(Cur, "write", fd, EBADF)
    ELSE WriteFile(Fget(Cur, fd), fd, nbytes, fail)

\* do_close on a valid descriptor: fput and clear the slot.
CloseFd(s, fd) == [Fput(s, s.p_files[fd]) EXCEPT !.p_files[fd] = NoFile]

DoClose(fd) ==
    IF fd \in Fds /\ p_files[fd] # NoFile THEN Apply(CloseFd(Cur, fd), "close", fd, 0)
    ELSE Apply(Cur, "close", fd, EBADF)

\* (plausible bug, used as a mutant: the new descriptor takes no reference)
DoDupNoRef(fd) ==
    IF fd \in Fds /\ p_files[fd] # NoFile
    THEN LET nextFD == GetEmptyFd(Cur)
         IN IF nextFD < 0 THEN Apply(Cur, "dup", fd, nextFD)
            ELSE Apply([Cur EXCEPT !.p_files[nextFD] = p_files[fd]], "dup", fd, nextFD)
    ELSE Apply(Cur, "dup", fd, EBADF)

\* do_dup(fd): fget for the new reference, then the lowest free slot; the
\* reference is put back when there is none.
DoDup(fd) ==
    IF fd \in Fds /\ p_files[fd] # NoFile
    THEN LET g == Fget(Cur, fd)
             nextFD == GetEmptyFd(g.s)
         IN IF nextFD < 0 THEN Apply(Fput(g.s, g.f), "dup", fd, nextFD)
            ELSE Apply([g.s EXCEPT !.p_files[nextFD] = g.s.p_files[fd]], "dup", fd, nextFD)
    ELSE Apply(Cur, "dup", fd, EBADF)

\* do_dup2(ofd, nfd): close nfd if it is open and not ofd, then make it
\* refer to ofd's file with a new reference.
DoDup2(ofd, nfd) ==
    IF ofd \in Fds /\ nfd \in Fds /\ p_files[ofd] # NoFile
    THEN IF ofd # nfd
         THEN LET s1 == IF p_files[nfd] # NoFile THEN CloseFd(Cur, nfd) ELSE Cur
                  g == Fget(s1, ofd)
              IN Apply([g.s EXCEPT !.p_files[nfd] = g.f], "dup2", nfd, nfd)
         ELSE Apply(Cur, "dup2", ofd, ofd)
    ELSE Apply(Cur, "dup2", nfd, EBADF)

\* do_getdent(fd, dirp).  The readdir operation of a directory vnode
\* (a contract: the file systems are not in src/) returns the size of the
\* entry at pos, here one unit per entry, for the DirEntries entries of a
\* fresh directory ("." and ".."), 0 at its end, or an error; a regular
\* file's vnode has no readdir.  A positive result moves f_pos by it
\* through a nested do_lseek, and the call returns sizeof(dirent_t).
DirEntries == 2
DirentSize == 1
VnReaddir(pos, fail) == IF fail THEN EIO ELSE IF pos < DirEntries THEN 1 ELSE 0

GetdentSeeked(f, fd, seek) ==
    Apply(Fput(seek.s, f), "getdent", fd, IF seek.val < 0 THEN seek.val ELSE DirentSize)

GetdentCopied(s, f, fd, bytesCopied) ==
    IF bytesCopied <= 0 THEN Apply(Fput(s, f), "getdent", fd, bytesCopied)
    ELSE GetdentSeeked(f, fd, Lseek(s, fd, bytesCopied, "CUR"))

GetdentFile(g, fd, fail) ==
    IF g.f = NoFile THEN Apply(Cur, "getdent", fd, EBADF)
    ELSE IF g.s.vn_kind[g.s.f_vnode[g.f]] # "dir"
    THEN Apply(Fput(g.s, g.f), "getdent", fd, ENOTDIR)
    ELSE GetdentCopied(g.s, g.f, fd, VnReaddir(g.s.f_pos[g.f], fail))

DoGetdent(fd, fail) ==
    IF fd \notin Fds THEN Apply(Cur, "getdent", fd, EBADF)
    ELSE GetdentFile(Fget(Cur, fd), fd, fail)

-----------------------------------------------------------------------------

FdArgs  == Fds \cup {NFILES}            \* descriptors, valid or not
Sizes   == {0, 1, MaxLen}               \* nbytes
Offsets == {-1, 1, MaxLen}              \* lseek offsets
\* oflags: each access mode (and both of O_WRONLY and O_RDWR), with and
\* without O_APPEND and O_CREAT where they change the outcome.
Flags   == {{}, {"CREAT"}, {"WRONLY"}, {"WRONLY", "CREAT"}, {"RDWR"},
            {"WRONLY", "RDWR"}, {"APPEND"}, {"WRONLY", "APPEND"},
            {"RDWR", "APPEND", "CREAT"}}

Next ==
    \/ \E flags \in Flags, name \in Names, dirOk, createOk \in BOOLEAN :
          DoOpen(flags, name, dirOk, createOk)
    \/ \E fd \in FdArgs, n \in Sizes, fail \in BOOLEAN :
          DoRead(fd, n, fail) \/ DoWrite(fd, n, fail)
    \/ \E fd \in FdArgs, fail \in BOOLEAN : DoGetdent(fd, fail)
    \/ \E fd \in FdArgs, off \in Offsets, whence \in {"SET", "CUR", "END", "BAD"} :
          DoLseek(fd, off, whence)
    \/ \E fd \in FdArgs : DoClose(fd) \/ DoDup(fd)
    \/ \E ofd, nfd \in FdArgs : DoDup2(ofd, nfd)

Spec == Init /\ [][Next]_vars

\* The state without ret.  No action reads ret, so states that differ only
\* in ret have the same successors, and TLC may identify them (VIEW); the
\* properties read only ret', the result of the step being checked.
StateView == <<p_files, f_refcount, f_mode, f_pos, f_vnode, vn_kind, vn_len,
               vn_refcount>>

-----------------------------------------------------------------------------
(* Properties                                                              *)

\* Between system calls every open file counts exactly the descriptors
\* that refer to it: do_dup and do_dup2 take a reference for the slot they
\* fill, do_close and the error paths of do_open and do_dup put what they
\* took, and do_read, do_write and do_lseek put every fget, including the
\* ones of the do_lseek calls inside them.  A count too high leaks the
\* file and its vnode; too low frees a file a descriptor still names.
FileRefcountExact ==
    \A f \in FileIds : f_refcount[f] = Cardinality({fd \in Fds : p_files[fd] = f})

\* Every vnode's reference count is the number of open files on it:
\* open_namev's lookup or create reference passes to the file, and every
\* path that does not keep it (EISDIR, a failed open) puts it.
VnodeRefcountExact ==
    \A v \in Names :
        vn_refcount[v] = Cardinality({f \in FileIds : f_refcount[f] > 0 /\ f_vnode[f] = v})

\* A failed do_open leaves nothing behind: the descriptor it filled is
\* cleared, the file it took is put and the vnode reference released.
FailedOpenNoEffect ==
    [][ret'.call = "open" /\ ret'.val < 0 =>
           UNCHANGED <<p_files, f_refcount, vn_refcount>>]_vars

\* A successful write through an O_APPEND file adds its bytes at the end
\* of the file, whatever f_pos was before (another descriptor may have
\* moved it or written meanwhile).
AppendWritesAtEnd ==
    [][ret'.call = "write" /\ ret'.val > 0 /\ "APPEND" \in f_mode[p_files[ret'.fd]] =>
           LET v == f_vnode[p_files[ret'.fd]]
           IN vn_len'[v] = vn_len[v] + ret'.val]_vars

\* do_read moves the file position by exactly the number of bytes it
\* returns (read(2): "the file position is advanced by this number"), and
\* leaves it where it was when it returns 0 or an error.
ReadAdvancesPos ==
    [][ret'.call = "read" /\ ret'.fd \in Fds /\ p_files[ret'.fd] # NoFile =>
           LET f == p_files[ret'.fd]
           IN f_pos'[f] = f_pos[f] + (IF ret'.val > 0 THEN ret'.val ELSE 0)]_vars

=============================================================================
