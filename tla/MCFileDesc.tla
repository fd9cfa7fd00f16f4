------------------------------ MODULE MCFileDesc ------------------------------
(* Model-checking instance of FileDesc: two descriptors and two file_t     *)
(* structures (so do_dup, do_dup2 and EMFILE/ENOMEM all happen), and a     *)
(* directory holding a name not yet created, a regular file and a          *)
(* subdirectory.                                                           *)
EXTENDS FileDesc

CONSTANTS n1, n2, d1

MCNames == {n1, n2, d1}
MCInitKind == [v \in MCNames |-> CASE v = n1 -> "none"
                                   [] v = n2 -> "reg"
                                   [] v = d1 -> "dir"]
=============================================================================
