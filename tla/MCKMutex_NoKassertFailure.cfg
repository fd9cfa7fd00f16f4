\* kmutex_lock and kmutex_lock_cancellable with kthread_cancel.
CONSTANTS
    t1 = t1
    t2 = t2
    t3 = t3
    NoThread = NoThread
    Threads <- MCThreads
    UseCancellable = TRUE
    CancelOn = TRUE
SPECIFICATION Spec
INVARIANT NoKassertFailure
