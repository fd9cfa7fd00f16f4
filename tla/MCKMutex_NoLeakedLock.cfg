\* kmutex_lock and kmutex_lock_cancellable with kthread_cancel.
CONSTANTS
    t1 = t1
    t2 = t2
    t3 = t3
    NoThread = NoThread
    Threads <- MCThreads
    UseCancellable = TRUE
    CancelOn = TRUE
SPECIFICATION Spec
INVARIANT NoLeakedLock
\* A failed KASSERT halts the kernel, which is a legitimate end state here.
CHECK_DEADLOCK FALSE
