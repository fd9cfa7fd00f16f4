------------------------------- MODULE KMutex -------------------------------
(***************************************************************************)
(* The kernel mutex of src/K1/kmutex.c over the wait-queue primitives of   *)
(* src/K1/sched_helper.c, with thread cancellation (kthread_cancel,        *)
(* src/K3/kthread.c).  Threads run cooperatively: a step of a thread runs  *)
(* until it blocks on a queue, so every action below is atomic.            *)
(*                                                                         *)
(* pc[t] is where thread t is in its use of the mutex:                     *)
(*   "idle"    not inside kmutex_lock*, does not believe it holds mtx      *)
(*   "sleep"   blocked in sched_sleep_on (kmutex_lock)                     *)
(*   "sleep_c" blocked in sched_cancellable_sleep_on                       *)
(*   "run"     woken from "sleep", runnable, not yet returned              *)
(*   "run_c"   woken from "sleep_c" (by unlock or by cancel), runnable     *)
(*   "cs"      returned from a lock call with success, uses mtx            *)
(* A failed KASSERT halts the kernel: panicked is set and nothing moves.   *)
(***************************************************************************)
EXTENDS Naturals, Sequences, SequencesExt

CONSTANTS
    Threads,        \* the kernel threads that use the mutex
    NoThread,       \* km_holder == NULL
    UseCancellable, \* do callers use kmutex_lock_cancellable as well
    CancelOn        \* may kthread_cancel be called on these threads

ASSUME NoThread \notin Threads
ASSUME UseCancellable \in BOOLEAN /\ CancelOn \in BOOLEAN

VARIABLES
    holder,     \* mtx->km_holder
    waitq,      \* mtx->km_waitq, head first
    pc,         \* where each thread is (see above)
    cancelled,  \* kt_cancelled of each thread
    panicked    \* a KASSERT has failed

vars == <<holder, waitq, pc, cancelled, panicked>>

Sleeping == {"sleep", "sleep_c"}
Waiting  == Sleeping \cup {"run", "run_c"}

TypeOK ==
    /\ holder \in Threads \cup {NoThread}
    /\ waitq \in Seq(Threads)
    /\ pc \in [Threads -> {"idle", "cs"} \cup Waiting]
    /\ cancelled \in [Threads -> BOOLEAN]
    /\ panicked \in BOOLEAN

Init ==
    /\ holder = NoThread
    /\ waitq = <<>>
    /\ pc = [t \in Threads |-> "idle"]
    /\ cancelled = [t \in Threads |-> FALSE]
    /\ panicked = FALSE

Panic == /\ panicked' = TRUE
         /\ UNCHANGED <<holder, waitq, pc, cancelled>>

-----------------------------------------------------------------------------
(* sched_helper.c.  The thread state kt_state is folded into pc.           *)

\* sched_sleep_on / sched_cancellable_sleep_on: enqueue at the tail.
SchedSleepOn(t, state) ==
    /\ waitq' = Append(waitq, t)
    /\ pc' = [pc EXCEPT ![t] = state]

\* sched_wakeup_on: dequeue the head and make it runnable; the result is
\* the thread woken.  Its woken state depends on how it slept.
WokenState(s) == IF s = "sleep" THEN "run" ELSE "run_c"

\* (plausible bugs, used as mutants: LIFO wake-up; the head is woken but
\* never taken off the queue)
SchedWakeupOnLifo == <<Last(waitq), Front(waitq)>>
SchedWakeupOnNoDequeue == <<Head(waitq), waitq>>

SchedWakeupOn == <<Head(waitq), Tail(waitq)>>

-----------------------------------------------------------------------------
(* kmutex.c                                                                *)

\* (plausible bugs, used as mutants: ownership passes through FREE before
\* the woken thread runs; the waiters are not woken at all)
KmutexUnlockViaFree(t, pcAfter) ==
    IF waitq = <<>>
    THEN /\ holder' = NoThread
         /\ pc' = pcAfter
         /\ UNCHANGED <<waitq, cancelled, panicked>>
    ELSE /\ holder' = NoThread
         /\ waitq' = Tail(waitq)
         /\ pc' = [pcAfter EXCEPT ![Head(waitq)] = WokenState(pcAfter[Head(waitq)])]
         /\ UNCHANGED <<cancelled, panicked>>

KmutexUnlockNoWake(t, pcAfter) ==
    /\ holder' = NoThread
    /\ pc' = pcAfter
    /\ UNCHANGED <<waitq, cancelled, panicked>>

\* The body of kmutex_unlock run by thread t, leaving pc[t] to the caller.
\* KASSERT(curthr == mtx->km_holder) fails for any other t.
KmutexUnlockBy(t, pcAfter) ==
    IF holder # t THEN Panic
    ELSE IF waitq = <<>>
         THEN /\ holder' = NoThread
              /\ pc' = pcAfter
              /\ UNCHANGED <<waitq, cancelled, panicked>>
         ELSE LET w == SchedWakeupOn
              IN /\ holder' = w[1]
                 /\ waitq' = w[2]
                 /\ pc' = [pcAfter EXCEPT ![w[1]] = WokenState(pcAfter[w[1]])]
                 /\ UNCHANGED <<cancelled, panicked>>

\* kmutex_lock called by t.
KmutexLock(t) ==
    /\ ~panicked
    /\ pc[t] = "idle"
    /\ IF holder = t THEN Panic
       ELSE IF holder # NoThread
            THEN /\ SchedSleepOn(t, "sleep")
                 /\ UNCHANGED <<holder, cancelled, panicked>>
            ELSE /\ holder' = t
                 /\ pc' = [pc EXCEPT ![t] = "cs"]
                 /\ UNCHANGED <<waitq, cancelled, panicked>>

\* kmutex_lock_cancellable called by t, up to the point where it sleeps or
\* returns.  With the mutex held by a cancelled thread the code calls
\* kmutex_unlock on the holder's behalf.  sched_cancellable_sleep_on
\* returns -EINTR at once when t is already cancelled.
KmutexLockCancellable(t) ==
    /\ ~panicked
    /\ UseCancellable
    /\ pc[t] = "idle"
    /\ IF holder = t THEN Panic
       ELSE IF holder = NoThread
            THEN /\ holder' = t
                 /\ pc' = [pc EXCEPT ![t] = "cs"]
                 /\ UNCHANGED <<waitq, cancelled, panicked>>
            ELSE IF cancelled[holder]
                 THEN KmutexUnlockBy(t, pc)
                 ELSE IF cancelled[t]
                      THEN /\ UNCHANGED vars
                      ELSE /\ SchedSleepOn(t, "sleep_c")
                           /\ UNCHANGED <<holder, cancelled, panicked>>

\* A woken thread is scheduled and returns from its sleep.  From a
\* cancellable sleep it returns -EINTR when it has been cancelled, and
\* kmutex_lock_cancellable passes that status straight to its caller.
Resume(t) ==
    /\ ~panicked
    /\ pc[t] \in {"run", "run_c"}
    /\ pc' = [pc EXCEPT ![t] = IF pc[t] = "run_c" /\ cancelled[t]
                                THEN "idle" ELSE "cs"]
    /\ UNCHANGED <<holder, waitq, cancelled, panicked>>

\* kmutex_unlock called by the thread that got the mutex.
KmutexUnlock(t) ==
    /\ ~panicked
    /\ pc[t] = "cs"
    /\ KmutexUnlockBy(t, [pc EXCEPT ![t] = "idle"])

\* kthread_cancel(t) from another thread: set kt_cancelled, and
\* sched_cancel wakes t only from a cancellable sleep, removing it from
\* the queue it sleeps on.
KthreadCancel(t) ==
    /\ ~panicked
    /\ CancelOn
    /\ ~cancelled[t]
    /\ cancelled' = [cancelled EXCEPT ![t] = TRUE]
    /\ IF pc[t] = "sleep_c"
       THEN /\ waitq' = RemoveFirst(waitq, t)
            /\ pc' = [pc EXCEPT ![t] = "run_c"]
       ELSE UNCHANGED <<waitq, pc>>
    /\ UNCHANGED <<holder, panicked>>

Next ==
    \E t \in Threads :
        \/ KmutexLock(t)
        \/ KmutexLockCancellable(t)
        \/ Resume(t)
        \/ KmutexUnlock(t)
        \/ KthreadCancel(t)

\* The scheduler runs every runnable thread eventually, and a thread that
\* got the mutex eventually releases it.  Nothing forces a thread to ask
\* for the mutex or to be cancelled.
Fairness ==
    \A t \in Threads : WF_vars(Resume(t)) /\ WF_vars(KmutexUnlock(t))

Spec == Init /\ [][Next]_vars /\ Fairness

-----------------------------------------------------------------------------
(* Properties                                                              *)

\* Mutual exclusion as the callers rely on it: a thread that returned from
\* kmutex_lock or kmutex_lock_cancellable with success is the holder.  It
\* depends on kmutex_unlock handing km_holder to the woken thread itself,
\* which never re-checks the mutex after sched_sleep_on returns.
MutualExclusion ==
    \A t \in Threads : pc[t] = "cs" => holder = t

\* The wait queue holds exactly the threads blocked on the mutex, each
\* once: a woken or cancelled thread has left it (sched_wakeup_on and
\* sched_cancel), a blocked one is still in it.
QueueMatchesSleepers ==
    /\ IsInjective(waitq)
    /\ ToSet(waitq) = {t \in Threads : pc[t] \in Sleeping}

\* No lost wake-up: whenever the mutex is free nobody is blocked on it.
\* kmutex_unlock empties km_holder only when the queue is empty, and
\* kmutex_lock only sleeps when km_holder is set.
NoLostWakeup ==
    holder = NoThread => waitq = <<>>

\* The mutex is never held by a thread that does not believe it holds it:
\* after kmutex_lock_cancellable returns -EINTR the caller does not own
\* the mutex (kmutex.c comment: "if you are cancelled while holding mtx,
\* you should unlock mtx").
NoLeakedLock ==
    \A t \in Threads : holder = t => pc[t] \in {"cs", "run", "run_c"}

\* No KASSERT of kmutex.c fails.
NoKassertFailure == ~panicked

\* Every thread that blocks on the mutex eventually leaves the wait:
\* wake-ups are FIFO, so a waiter cannot be overtaken for ever.
WaitersServed ==
    \A t \in Threads : (pc[t] \in Waiting) ~> (pc[t] \notin Waiting)

=============================================================================
