\* do_open, do_read, do_write, do_lseek, do_close, do_dup and do_dup2 of
\* one process with two descriptors.
CONSTANTS
    n1 = n1
    n2 = n2
    d1 = d1
    NoFile = NoFile
    NoVnode = NoVnode
    Names <- MCNames
    InitKind <- MCInitKind
    NFILES = 2
    FileIds = {1, 2}
    MaxLen = 2
SPECIFICATION Spec
VIEW StateView
INVARIANT FileRefcountExact
INVARIANT VnodeRefcountExact
PROPERTY FailedOpenNoEffect
PROPERTY AppendWritesAtEnd
