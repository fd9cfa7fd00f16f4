\* kmutex_lock only, with kthread_cancel of any thread at any time.
CONSTANTS
    t1 = t1
    t2 = t2
    t3 = t3
    NoThread = NoThread
    Threads <- MCThreads
    UseCancellable = FALSE
    CancelOn = TRUE
SPECIFICATION Spec
INVARIANT NoLostWakeup
INVARIANT MutualExclusion
PROPERTY WaitersServed
