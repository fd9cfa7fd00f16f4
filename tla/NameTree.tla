------------------------------ MODULE NameTree ------------------------------
(***************************************************************************)
(* What the namespace system calls promise a process (spec, VFS system     *)
(* calls): a tree of names, each a directory or a file of some kind, and  *)
(* a working directory.  A path names the node reached from the root (a   *)
(* leading "/") or from the working directory by its names, "." staying  *)
(* and ".." going up (the root is its own parent).  A call either fails   *)
(* and changes nothing, or performs its operation on the node its path     *)
(* names.  Once the working directory is removed it is Gone: no relative  *)
(* path names anything.  Namespace is shown to implement this.            *)
(***************************************************************************)
EXTENDS Sequences, Functions, TLC

CONSTANTS Gone   \* the working directory after rmdir removed it

VARIABLES
    tree,  \* path (a sequence of names) -> "dir", "reg", "chr" or "blk"
    wd     \* the working directory: a path of tree, or Gone

Init == tree = (<<>> :> "dir") /\ wd = <<>>

Parent(p) == SubSeq(p, 1, Len(p) - 1)

\* the paths that name a node directly below the directory p
Children(t, p) == {c \in DOMAIN t : c # <<>> /\ Parent(c) = p}

\* p may be given a name: it has none, and its parent is a directory
Fresh(t, p) ==
    p \notin {<<>>, Gone} /\ p \notin DOMAIN t /\ Parent(p) \in DOMAIN t /\ t[Parent(p)] = "dir"

IsFile(t, p) == p \in DOMAIN t /\ t[p] # "dir"

Without(t, p) == Restrict(t, DOMAIN t \ {p})

\* the path reached by walking names from at
RECURSIVE Walk(_, _)
Walk(at, names) ==
    IF names = <<>> THEN at
    ELSE LET n == Head(names)
         IN Walk(IF n = <<".">> THEN at
                 ELSE IF n = <<".", ".">> THEN (IF at = <<>> THEN at ELSE Parent(at))
                 ELSE Append(at, n),
                 Tail(names))

\* what a path of the given names names, from the root or from w
Resolve(w, absolute, names) ==
    IF absolute THEN Walk(<<>>, names)
    ELSE IF w = Gone THEN Gone
    ELSE Walk(w, names)

(* Each operation is stated over the tree and working directory before    *)
(* (t, w) and after (t2, w2) it.                                          *)

Mknod(t, w, t2, w2, p, k) ==
    k \in {"chr", "blk"} /\ Fresh(t, p) /\ t2 = (p :> k) @@ t /\ w2 = w

Mkdir(t, w, t2, w2, p) ==
    Fresh(t, p) /\ t2 = (p :> "dir") @@ t /\ w2 = w

\* an empty directory other than the root; the working directory may go
Rmdir(t, w, t2, w2, p) ==
    /\ p # <<>> /\ p \in DOMAIN t /\ t[p] = "dir" /\ Children(t, p) = {}
    /\ t2 = Without(t, p)
    /\ w2 = IF w = p THEN Gone ELSE w

Unlink(t, w, t2, w2, p) ==
    IsFile(t, p) /\ t2 = Without(t, p) /\ w2 = w

Link(t, w, t2, w2, p, q) ==
    IsFile(t, p) /\ Fresh(t, q) /\ t2 = (q :> t[p]) @@ t /\ w2 = w

Rename(t, w, t2, w2, p, q) ==
    IsFile(t, p) /\ Fresh(t, q) /\ t2 = Without((q :> t[p]) @@ t, p) /\ w2 = w

Chdir(t, w, t2, w2, p) ==
    p \in DOMAIN t /\ t[p] = "dir" /\ t2 = t /\ w2 = p

Stat(t, w, t2, w2, p) ==
    p \in DOMAIN t /\ t2 = t /\ w2 = w

Fail(t, w, t2, w2) == t2 = t /\ w2 = w

\* any step of a process whose paths are made of the names in Names
Step(t, w, t2, w2, Names) ==
    LET Targets == DOMAIN t \cup {Append(d, n) : d \in DOMAIN t, n \in Names}
    IN \/ Fail(t, w, t2, w2)
       \/ \E p \in Targets :
            \/ \E k \in {"chr", "blk"} : Mknod(t, w, t2, w2, p, k)
            \/ Mkdir(t, w, t2, w2, p) \/ Rmdir(t, w, t2, w2, p)
            \/ Unlink(t, w, t2, w2, p) \/ Chdir(t, w, t2, w2, p)
            \/ Stat(t, w, t2, w2, p)
            \/ \E q \in Targets : Link(t, w, t2, w2, p, q) \/ Rename(t, w, t2, w2, p, q)

=============================================================================
