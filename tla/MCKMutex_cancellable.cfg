\* kmutex_lock and kmutex_lock_cancellable, no cancellation.
CONSTANTS
    t1 = t1
    t2 = t2
    t3 = t3
    NoThread = NoThread
    Threads <- MCThreads
    UseCancellable = TRUE
    CancelOn = FALSE
SPECIFICATION Spec
INVARIANT QueueMatchesSleepers
INVARIANT MutualExclusion
PROPERTY WaitersServed
