------------------------------ MODULE LoopSync ------------------------------
(***************************************************************************)
(* The thread synchronisation of a pomp loop: pomp_loop_sync_lock and       *)
(* pomp_loop_sync_unlock (pomp_loop_sync.c), the two entry points that use  *)
(* them from any thread (pomp_loop_lock, pomp_loop_unlock) and the          *)
(* processing of the loop that uses them around its blocking wait           *)
(* (pomp_loop_do_wait_and_process, with the wakeup eventfd of               *)
(* pomp_loop_linux.c).                                                      *)
(*                                                                         *)
(* Everything a thread does between taking sync->mutex and releasing it, or *)
(* sleeping on a condition, is one action. The fields of loop->owner are    *)
(* written outside of the mutex, so these writes are actions of their own.  *)
(***************************************************************************)
EXTENDS Integers, FiniteSets

CONSTANTS
    Threads,    \* the threads of the program
    Looper,     \* the one that calls pomp_loop_wait_and_process
    Creator,    \* the one that called pomp_loop_new
    NoThread,   \* the zeroed pthread_t
    Strays,     \* threads that may call pomp_loop_unlock without owning the loop
    MaxDepth,   \* bound on the recursion of pomp_loop_lock
    MaxCalls    \* bound on the number of calls of pomp_loop_lock by a thread

ASSUME ThreadsAssumption ==
    /\ IsFiniteSet(Threads)
    /\ Looper \in Threads
    /\ Creator \in Threads
    /\ Strays \subseteq Threads
    /\ NoThread \notin Threads
ASSUME BoundsAssumption == MaxDepth \in Nat /\ MaxCalls \in Nat

VARIABLES
    owner, count, waiters,  \* struct pomp_loop_sync
    onCount, onWaiters,     \* threads asleep on cond_count, on cond_waiters
    wakeup,                 \* the wakeup eventfd is readable
    waiter, current,        \* loop->owner.waiter, loop->owner.current
    pc,                     \* where each thread is
    processing,             \* is the thread inside wait_and_process?
    depth,                  \* acquisitions granted to a thread and not given back
    calls                   \* calls of pomp_loop_lock made so far

sync == <<owner, count, waiters, onCount, onWaiters>>
vars == <<sync, wakeup, waiter, current, pc, processing, depth, calls>>

(***************************************************************************)
(* Where a thread can be.                                                   *)
(*   "out"       in its own code, outside of wait_and_process               *)
(*   "waiters"   in sync_lock, waiting for the other waiters to be served   *)
(*   "count"     in sync_lock, waiting for the owner to release the loop    *)
(*   "locked"    sync_lock returned to pomp_loop_lock                       *)
(*   "entered"   sync_lock returned to wait_and_process                     *)
(*   "poll"      in epoll_wait                                              *)
(*   "wakeup"    epoll_wait reported the wakeup eventfd                     *)
(*   "callbacks" dispatching events: the callbacks are the thread's code    *)
(*   "unlock"    about to call sync_unlock                                  *)
(***************************************************************************)
Places == {"out", "waiters", "count", "locked", "entered", "poll", "wakeup",
           "callbacks", "unlock"}

Waiting(t) == pc[t] \in {"waiters", "count"}

\* Where a thread runs its own code, from which it calls the functions of the loop.
Home(t) == IF processing[t] THEN "callbacks" ELSE "out"

\* The acquisitions that are not the caller's own: the one of wait_and_process.
Reserved(t) == IF processing[t] THEN 1 ELSE 0

Init ==
    /\ owner = NoThread /\ count = 0 /\ waiters = 0
    /\ onCount = {} /\ onWaiters = {}
    /\ wakeup = FALSE
    /\ waiter = NoThread /\ current = Creator
    /\ pc = [t \in Threads |-> "out"]
    /\ processing = [t \in Threads |-> FALSE]
    /\ depth = [t \in Threads |-> 0]
    /\ calls = [t \in Threads |-> 0]

-----------------------------------------------------------------------------
(***************************************************************************)
(* pomp_loop_sync_lock and pomp_loop_sync_unlock                            *)
(***************************************************************************)

\* pthread_cond_signal on the threads asleep in before: one of them is woken.
Signal(before, after) ==
    IF before = {} THEN after = before ELSE \E t \in before : after = before \ {t}

\* The loop is granted to t; n is the new recursion count.
Grant(t, n, willblock) ==
    /\ owner' = t
    /\ count' = n
    /\ depth' = [depth EXCEPT ![t] = @ + 1]
    /\ pc' = [pc EXCEPT ![t] = IF willblock THEN "entered" ELSE "locked"]

\* Mutant of SleepOnCount: the owner is not asked to leave its wait.
SleepOnCountNoWakeup(t, w) ==
    /\ count # 0
    /\ waiters' = w
    /\ onCount' = onCount \cup {t}
    /\ pc' = [pc EXCEPT ![t] = "count"]
    /\ UNCHANGED <<owner, count, onWaiters, wakeup, depth>>

\* The loop is taken: the owner is asked to leave its wait, and t sleeps until the
\* release. w counts the waiters, t included.
SleepOnCount(t, w) ==
    /\ count # 0
    /\ wakeup' = TRUE
    /\ waiters' = w
    /\ onCount' = onCount \cup {t}
    /\ pc' = [pc EXCEPT ![t] = "count"]
    /\ UNCHANGED <<owner, count, onWaiters, depth>>

\* Mutant of TakeLoop: the loop thread is let out of its courtesy wait only when
\* nobody waits, although it is counted itself.
TakeLoopOffByOne(t, willblock, w) ==
    /\ count = 0
    /\ waiters' = w - 1
    /\ IF w - 1 < 1 THEN Signal(onWaiters, onWaiters') ELSE UNCHANGED onWaiters
    /\ Grant(t, 1, willblock)
    /\ UNCHANGED <<onCount, wakeup>>

\* The loop is free: t takes it and may let the loop thread out of its courtesy wait.
TakeLoop(t, willblock, w) ==
    /\ count = 0
    /\ waiters' = w - 1
    /\ IF w - 1 <= 1 THEN Signal(onWaiters, onWaiters') ELSE UNCHANGED onWaiters
    /\ Grant(t, 1, willblock)
    /\ UNCHANGED <<onCount, wakeup>>

WaitForOwner(t, willblock, w) == SleepOnCount(t, w) \/ TakeLoop(t, willblock, w)

\* Mutant of WaitForWaiters: the loop thread competes like the other threads.
WaitForWaitersNot(t, willblock, w) == WaitForOwner(t, willblock, w)

\* A caller that is going to block lets the other waiters go first.
SleepOnWaiters(t, w) ==
    /\ w > 1
    /\ waiters' = w
    /\ onWaiters' = onWaiters \cup {t}
    /\ pc' = [pc EXCEPT ![t] = "waiters"]
    /\ UNCHANGED <<owner, count, onCount, wakeup, depth>>

WaitForWaiters(t, willblock, w) ==
    \/ willblock /\ SleepOnWaiters(t, w)
    \/ (willblock => w <= 1) /\ WaitForOwner(t, willblock, w)

SyncLock(t, willblock) ==
    \/ /\ owner # t
       /\ WaitForWaiters(t, willblock, waiters + 1)
    \/ /\ owner = t
       /\ Grant(t, count + 1, willblock)
       /\ UNCHANGED <<waiters, onCount, onWaiters, wakeup>>

\* The thread sleeping on cond_waiters was woken and has the mutex again.
ResumeWaiters(t) ==
    /\ pc[t] = "waiters" /\ t \notin onWaiters
    /\ WaitForWaiters(t, TRUE, waiters)
    /\ UNCHANGED <<waiter, current, processing, calls>>

\* The thread sleeping on cond_count was woken and has the mutex again.
ResumeCount(t) ==
    /\ pc[t] = "count" /\ t \notin onCount
    /\ WaitForOwner(t, processing[t], waiters)
    /\ UNCHANGED <<waiter, current, processing, calls>>

\* pthread_cond_wait may return without a signal.
SpuriousWakeup(t) ==
    /\ t \in onCount \cup onWaiters
    /\ onCount' = onCount \ {t}
    /\ onWaiters' = onWaiters \ {t}
    /\ UNCHANGED <<owner, count, waiters, wakeup, waiter, current, pc,
                   processing, depth, calls>>

\* Mutant of SyncUnlock: nobody is told that the loop is free.
SyncUnlockSilent(t) ==
    /\ pc[t] = "unlock" /\ owner = t
    /\ pc' = [pc EXCEPT ![t] = Home(t)]
    /\ count' = count - 1
    /\ depth' = [depth EXCEPT ![t] = @ - 1]
    /\ owner' = IF count = 1 THEN NoThread ELSE owner
    /\ UNCHANGED <<waiters, onCount, onWaiters, wakeup, waiter, current, processing, calls>>

\* Mutant of SyncUnlock: the recursion of the lock is forgotten.
SyncUnlockAll(t) ==
    /\ pc[t] = "unlock" /\ owner = t
    /\ pc' = [pc EXCEPT ![t] = Home(t)]
    /\ count' = 0 /\ owner' = NoThread
    /\ depth' = [depth EXCEPT ![t] = @ - 1]
    /\ Signal(onCount, onCount')
    /\ UNCHANGED <<waiters, onWaiters, wakeup, waiter, current, processing, calls>>

SyncUnlock(t) ==
    /\ pc[t] = "unlock"
    /\ pc' = [pc EXCEPT ![t] = Home(t)]
    /\ \/ /\ owner # t      \* -EPERM
          /\ UNCHANGED <<owner, count, onCount, depth>>
       \/ /\ owner = t
          /\ count' = count - 1
          /\ depth' = [depth EXCEPT ![t] = @ - 1]
          /\ IF count = 1
             THEN owner' = NoThread /\ Signal(onCount, onCount')
             ELSE UNCHANGED <<owner, onCount>>
    /\ UNCHANGED <<waiters, onWaiters, wakeup, waiter, current, processing, calls>>

-----------------------------------------------------------------------------
(***************************************************************************)
(* pomp_loop_lock and pomp_loop_unlock                                      *)
(***************************************************************************)
Lock(t) ==
    /\ pc[t] = Home(t)
    /\ depth[t] < MaxDepth /\ calls[t] < MaxCalls
    /\ SyncLock(t, FALSE)
    /\ calls' = [calls EXCEPT ![t] = @ + 1]
    /\ UNCHANGED <<waiter, current, processing>>

LockReturn(t) ==
    /\ pc[t] = "locked"
    /\ current' = t
    /\ pc' = [pc EXCEPT ![t] = Home(t)]
    /\ UNCHANGED <<sync, wakeup, waiter, processing, depth, calls>>

CallUnlock(t) ==
    /\ pc[t] = Home(t)
    /\ current' = waiter
    /\ pc' = [pc EXCEPT ![t] = "unlock"]
    /\ UNCHANGED <<sync, wakeup, waiter, processing, depth, calls>>

\* A thread gives back one of its own acquisitions.
Unlock(t) == depth[t] > Reserved(t) /\ CallUnlock(t)

\* A thread that does not own the loop calls pomp_loop_unlock.
StrayUnlock(t) == t \in Strays /\ depth[t] = 0 /\ CallUnlock(t)

-----------------------------------------------------------------------------
(***************************************************************************)
(* pomp_loop_do_wait_and_process, called by a thread that has not locked    *)
(* the loop itself and not from a callback of the loop                      *)
(***************************************************************************)
WaitAndProcess ==
    /\ pc[Looper] = "out" /\ depth[Looper] = 0
    /\ SyncLock(Looper, TRUE)
    /\ processing' = [processing EXCEPT ![Looper] = TRUE]
    /\ UNCHANGED <<waiter, current, calls>>

TakeOwnership ==
    /\ pc[Looper] = "entered"
    /\ waiter' = Looper /\ current' = Looper
    /\ pc' = [pc EXCEPT ![Looper] = "poll"]
    /\ UNCHANGED <<sync, wakeup, processing, depth, calls>>

\* epoll_wait reports the wakeup eventfd.
PollWakeup ==
    /\ pc[Looper] = "poll" /\ wakeup
    /\ pc' = [pc EXCEPT ![Looper] = "wakeup"]
    /\ UNCHANGED <<sync, wakeup, waiter, current, processing, depth, calls>>

\* epoll_wait reports other events only, or times out.
PollOther ==
    /\ pc[Looper] = "poll"
    /\ pc' = [pc EXCEPT ![Looper] = "callbacks"]
    /\ UNCHANGED <<sync, wakeup, waiter, current, processing, depth, calls>>

\* pomp_loop_wakeup_cb reads the eventfd.
WakeupCb ==
    /\ pc[Looper] = "wakeup"
    /\ wakeup' = FALSE
    /\ pc' = [pc EXCEPT ![Looper] = "callbacks"]
    /\ UNCHANGED <<sync, waiter, current, processing, depth, calls>>

\* The callbacks have returned and given back what they had locked.
ProcessReturn ==
    /\ pc[Looper] = "callbacks" /\ depth[Looper] = 1
    /\ current' = Creator
    /\ processing' = [processing EXCEPT ![Looper] = FALSE]
    /\ pc' = [pc EXCEPT ![Looper] = "unlock"]
    /\ UNCHANGED <<sync, wakeup, waiter, depth, calls>>

-----------------------------------------------------------------------------
\* Steps that follow from calls already made.
Progress(t) == ResumeWaiters(t) \/ ResumeCount(t) \/ SyncUnlock(t) \/ LockReturn(t)

Processing == TakeOwnership \/ PollWakeup \/ WakeupCb \/ ProcessReturn

Next ==
    \/ \E t \in Threads :
          \/ Lock(t) \/ LockReturn(t) \/ Unlock(t) \/ StrayUnlock(t)
          \/ SyncUnlock(t) \/ ResumeWaiters(t) \/ ResumeCount(t)
          \/ SpuriousWakeup(t)
    \/ WaitAndProcess \/ TakeOwnership \/ PollWakeup \/ PollOther
    \/ WakeupCb \/ ProcessReturn

Spec == Init /\ [][Next]_vars

(***************************************************************************)
(* A thread that can run is scheduled and gets the mutex in the end, and a  *)
(* thread that has locked the loop unlocks it. Nothing obliges a thread to  *)
(* call the loop, an event other than the wakeup to come, or a condition    *)
(* wait to return without a signal.                                         *)
(***************************************************************************)
Fairness ==
    /\ \A t \in Threads : WF_vars(Progress(t)) /\ WF_vars(Unlock(t))
    /\ WF_vars(Processing)

FairSpec == Spec /\ Fairness

-----------------------------------------------------------------------------
(***************************************************************************)
(* Properties                                                               *)
(***************************************************************************)

\* The variables hold values that the fields and the threads can have.
TypeOK ==
    /\ owner \in Threads \cup {NoThread} /\ count \in Nat /\ waiters \in Nat
    /\ onCount \subseteq Threads /\ onWaiters \subseteq Threads
    /\ wakeup \in BOOLEAN
    /\ waiter \in {NoThread, Looper} /\ current \in Threads \cup {NoThread}
    /\ pc \in [Threads -> Places]
    /\ processing \in [Threads -> BOOLEAN]
    /\ depth \in [Threads -> Nat]
    /\ calls \in [Threads -> Nat]

\* pomp_loop_lock and wait_and_process never let two threads in together: while a
\* thread holds the lock no other thread holds it or processes the events of the loop.
MutualExclusion ==
    \A t, u \in Threads : depth[t] > 0 /\ depth[u] > 0 => t = u

\* pomp_loop_sync_unlock wakes one sleeper only, and any thread may take the loop before
\* it: still, whenever the loop is free and a thread sleeps on cond_count, a thread
\* that has already been woken is on its way to take the loop.
NoLostRelease ==
    count = 0 /\ onCount # {} => \E t \in Threads : pc[t] = "count" /\ t \notin onCount

\* The loop thread never blocks in epoll_wait against a thread that sleeps until the
\* loop is released: the wakeup that this thread wrote before it slept is not lost to
\* an earlier pomp_loop_wakeup_cb.
WakeupPending == pc[Looper] = "poll" /\ onCount # {} => wakeup

\* The thread that runs the callbacks is the one pomp_loop_check_owner accepts,
\* whatever the callbacks have locked and unlocked and whatever other threads called.
CallbackOwner == pc[Looper] = "callbacks" => current = Looper

\* The loop is a recursive lock between the threads.
LockSpec == INSTANCE RecursiveLock WITH held <- depth
RefinesLock == LockSpec!Spec

\* Every call of pomp_loop_lock returns: the loop thread, which takes the loop back as
\* soon as it has released it, cannot keep it from a thread that waits for it.
LockReturns == \A t \in Threads : pc[t] = "count" ~> depth[t] > 0

\* The loop thread is not kept out for ever once the other threads stop locking.
ProcessingStarts == pc[Looper] = "waiters" ~> pc[Looper] = "poll"

=============================================================================
