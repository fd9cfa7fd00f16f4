\* do_mknod, do_mkdir, do_rmdir, do_unlink, do_link, do_rename, do_chdir and
\* do_stat of one process over a file system with four inodes.
CONSTANTS
    Vnodes = {0, 1, 2, 3}
    Root = 0
    NoVnode <- MCNoVnode
    NAME_LEN = 2
    MAXPATHLEN = 1024
    Paths <- MCPaths
    Modes = {"chr", "reg"}
    CheckPaths <- MCCheckPaths
    GonePath = GonePath
SPECIFICATION Spec
VIEW StateView
INVARIANT RefcountsBalanced
INVARIANT NamespaceIsTree
INVARIANT DirNamevMatchesRef
PROPERTY FailedCallNoEffect
PROPERTY NamespaceRefinesNameTree
