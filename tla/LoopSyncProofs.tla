--------------------------- MODULE LoopSyncProofs ---------------------------
(***************************************************************************)
(* Proofs about LoopSync for every set of threads and every bound.          *)
(***************************************************************************)
EXTENDS LoopSync, FiniteSetTheorems, TLAPS

\* A leaf that names no prover is for Zenon.
USE Zenon

WaitingSet == {t \in Threads : Waiting(t)}

\* The owner is the only thread with acquisitions, and count is their number.
HolderInv ==
    /\ owner = NoThread <=> count = 0
    /\ \A t \in Threads : depth[t] = IF owner = t THEN count ELSE 0

\* What the place of a thread says about its calls.
PlaceInv ==
    /\ \A t \in onCount : pc[t] = "count"
    /\ \A t \in onWaiters : pc[t] = "waiters"
    /\ \A t \in Threads :
          /\ Waiting(t) => owner # t
          /\ pc[t] \in {"locked", "entered", "poll", "wakeup", "callbacks"} => owner = t
          /\ pc[t] \in {"waiters", "entered", "poll", "wakeup", "callbacks"}
                => processing[t]
          /\ processing[t] => t = Looper /\ pc[t] # "out"
          /\ processing[t] /\ pc[t] \in {"locked", "unlock"} => owner = t /\ count > 1

\* waiters counts the threads inside the wait loops of sync_lock.
WaitersInv == waiters = Cardinality(WaitingSet)

\* From the moment the loop thread has found no other waiter until its wait, every
\* thread that fell asleep has written a wakeup that is still there.
WakeupInv ==
    /\ processing[Looper]
    /\ pc[Looper] \in {"count", "entered", "poll"}
    /\ onCount \ {Looper} # {}
    => wakeup

\* While the loop thread processes, the ownership fields name it.
OwnerInv ==
    processing[Looper] /\ pc[Looper] \notin {"waiters", "count", "entered"}
    => waiter = Looper /\ current = Looper

IInv == /\ TypeOK /\ HolderInv /\ PlaceInv /\ WaitersInv
        /\ NoLostRelease /\ WakeupInv /\ OwnerInv

-----------------------------------------------------------------------------
(***************************************************************************)
(* The waiting threads and their number                                     *)
(***************************************************************************)

\* The waiting threads form a finite set with a natural number of elements, which is
\* what sync->waiters (uint32_t) counts.
LEMMA WaitingFinite == IsFiniteSet(WaitingSet) /\ Cardinality(WaitingSet) \in Nat
  <1>1. WaitingSet \subseteq Threads
    BY DEF WaitingSet
  <1>2. IsFiniteSet(WaitingSet)
    BY <1>1, ThreadsAssumption, FS_Subset
  <1>. QED  BY <1>2, FS_CardinalityType

\* A thread that starts to wait in sync_lock adds one to the number of waiting threads.
LEMMA WaitingAdd ==
  ASSUME TypeOK, NEW t \in Threads, ~Waiting(t),
         NEW p \in {"waiters", "count"}, pc' = [pc EXCEPT ![t] = p]
  PROVE  Cardinality(WaitingSet)' = Cardinality(WaitingSet) + 1
  <1>1. WaitingSet' = WaitingSet \cup {t} /\ t \notin WaitingSet
    BY DEF WaitingSet, Waiting, TypeOK
  <1>. QED  BY <1>1, WaitingFinite, FS_AddElement

\* A thread that leaves the waits of sync_lock takes one from it.
LEMMA WaitingRemove ==
  ASSUME TypeOK, NEW t \in Threads, Waiting(t),
         NEW p \in Places \ {"waiters", "count"}, pc' = [pc EXCEPT ![t] = p]
  PROVE  Cardinality(WaitingSet)' = Cardinality(WaitingSet) - 1
  <1>1. WaitingSet' = WaitingSet \ {t} /\ t \in WaitingSet
    BY DEF WaitingSet, Waiting, TypeOK
  <1>2. Cardinality(WaitingSet \ {t}) = Cardinality(WaitingSet) - 1
    BY <1>1, WaitingFinite, FS_RemoveElement
  <1>. QED  BY <1>1, <1>2

\* Any other step of a thread leaves the set of waiting threads alone.
LEMMA WaitingSame ==
  ASSUME TypeOK, NEW t \in Threads, NEW p \in Places,
         pc' = [pc EXCEPT ![t] = p], Waiting(t) <=> p \in {"waiters", "count"}
  PROVE  WaitingSet' = WaitingSet
  BY DEF WaitingSet, Waiting, TypeOK

\* Where the loop thread finds waiters equal to 1 it is the only waiting thread.
LEMMA WaitingAlone ==
  ASSUME WaitersInv, NEW t \in Threads, Waiting(t), waiters <= 1,
         NEW u \in Threads, Waiting(u)
  PROVE  u = t
  <1>1. t \in WaitingSet /\ u \in WaitingSet
    BY DEF WaitingSet
  <1>2. SUFFICES ASSUME u # t PROVE FALSE
    OBVIOUS
  <1>3. Cardinality(WaitingSet \ {t}) = Cardinality(WaitingSet) - 1
    BY <1>1, WaitingFinite, FS_RemoveElement
  <1>4. IsFiniteSet(WaitingSet \ {t}) /\ WaitingSet \ {t} # {}
    BY <1>1, <1>2, WaitingFinite, FS_Subset
  <1>5. Cardinality(WaitingSet \ {t}) # 0 /\ Cardinality(WaitingSet \ {t}) \in Nat
    BY <1>4, FS_EmptySet, FS_CardinalityType
  <1>. QED  BY SMT, <1>3, <1>5, WaitingFinite DEF WaitersInv

\* No thread waits where waiters is zero.
LEMMA WaitingNone ==
  ASSUME WaitersInv, waiters = 0
  PROVE  \A u \in Threads : ~Waiting(u)
  <1>1. WaitingSet = {}
    BY WaitingFinite, FS_EmptySet DEF WaitersInv
  <1>. QED  BY <1>1 DEF WaitingSet

-----------------------------------------------------------------------------
(***************************************************************************)
(* The outcomes of sync_lock                                                *)
(***************************************************************************)

\* The number of waiters once t counts among them.
Counted(t, w) == w = IF Waiting(t) THEN waiters ELSE waiters + 1

\* What a step of sync_lock by t leaves alone or may set outside of the sync fields.
CallerFrame(t) ==
    /\ UNCHANGED <<waiter, current>>
    /\ calls' \in [Threads -> Nat]
    /\ \/ processing' = processing
       \/ t = Looper /\ processing' = [processing EXCEPT ![t] = TRUE]

\* The processing flags keep their type whatever sync_lock was called for.
LEMMA FrameType ==
  ASSUME TypeOK, NEW t \in Threads, CallerFrame(t)
  PROVE  processing' \in [Threads -> BOOLEAN]
  BY DEF TypeOK, CallerFrame

\* Going to sleep on cond_count keeps the invariant: the wakeup is written first.
LEMMA SleepOnCountStep ==
  ASSUME IInv, NEW t \in Threads, NEW w, owner # t, Counted(t, w), t \notin onWaiters,
         ~Waiting(t) => pc[t] = "out", SleepOnCount(t, w), CallerFrame(t)
  PROVE  IInv'
  <1>. USE DEF IInv, SleepOnCount, CallerFrame
  <1>1. TypeOK'
    <2>1. processing' \in [Threads -> BOOLEAN]
      BY FrameType
    <2>2. waiters' \in Nat
      BY SMT DEF Counted, TypeOK
    <2>. QED  BY <2>1, <2>2 DEF TypeOK, Places
  <1>2. HolderInv'
    BY DEF HolderInv
  <1>3. PlaceInv'
    BY SMT DEF TypeOK, PlaceInv, Waiting
  <1>4. WaitersInv'
    BY WaitingAdd, WaitingSame DEF WaitersInv, Counted, Places
  <1>5. NoLostRelease' /\ WakeupInv'
    BY DEF NoLostRelease, WakeupInv
  <1>6. OwnerInv'
    BY SMT DEF OwnerInv, TypeOK, PlaceInv, Waiting
  <1>. QED  BY <1>1, <1>2, <1>3, <1>4, <1>5, <1>6

\* Going to sleep on cond_waiters keeps the invariant: only the loop thread does so.
LEMMA SleepOnWaitersStep ==
  ASSUME IInv, NEW w, owner # Looper, Counted(Looper, w), Looper \notin onCount,
         pc[Looper] \in {"out", "waiters"}, processing'[Looper],
         SleepOnWaiters(Looper, w), CallerFrame(Looper)
  PROVE  IInv'
  <1>. USE ThreadsAssumption DEF IInv, SleepOnWaiters, CallerFrame
  <1>1. TypeOK'
    <2>1. processing' \in [Threads -> BOOLEAN]
      BY FrameType
    <2>2. waiters' \in Nat
      BY SMT DEF Counted, TypeOK
    <2>. QED  BY <2>1, <2>2 DEF TypeOK, Places
  <1>2. HolderInv'
    BY DEF HolderInv
  <1>3. PlaceInv'
    BY SMT DEF TypeOK, PlaceInv, Waiting
  <1>4. WaitersInv'
    BY WaitingAdd, WaitingSame DEF WaitersInv, Counted, Places, Waiting
  <1>5. NoLostRelease'
    BY DEF NoLostRelease, TypeOK
  <1>6. WakeupInv' /\ OwnerInv'
    BY DEF WakeupInv, OwnerInv, TypeOK
  <1>. QED  BY <1>1, <1>2, <1>3, <1>4, <1>5, <1>6

\* Taking the free loop keeps the invariant. The loop thread takes it for its wait
\* either as the only waiter, or out of its sleep on cond_count, where it was the only
\* waiter when it fell asleep.
LEMMA TakeLoopStep ==
  ASSUME IInv, NEW t \in Threads, NEW willblock \in BOOLEAN, NEW w, Counted(t, w),
         t \notin onCount, t \notin onWaiters, ~Waiting(t) => pc[t] = "out",
         TakeLoop(t, willblock, w), CallerFrame(t),
         willblock <=> processing'[t],
         willblock => w <= 1 \/ (pc[t] = "count" /\ processing[t])
  PROVE  IInv'
  <1>. USE DEF IInv, TakeLoop, Grant, CallerFrame
  <1>1. onWaiters' \subseteq onWaiters /\ owner = NoThread
    BY DEF Signal, HolderInv
  <1>2. Waiting(t) => waiters >= 1
    <2>1. SUFFICES ASSUME Waiting(t), waiters = 0 PROVE FALSE
      BY SMT DEF TypeOK
    <2>. QED  BY <2>1, WaitingNone
  <1>3. TypeOK'
    <2>1. processing' \in [Threads -> BOOLEAN]
      BY FrameType
    <2>2. waiters' \in Nat
      BY SMT, <1>2 DEF Counted, TypeOK
    <2>3. pc' \in [Threads -> Places]
      BY DEF TypeOK, Places
    <2>4. depth' \in [Threads -> Nat]
      BY SMT DEF TypeOK
    <2>. QED  BY <1>1, <2>1, <2>2, <2>3, <2>4 DEF TypeOK
  <1>4. HolderInv'
    BY SMT, <1>1, ThreadsAssumption DEF HolderInv, TypeOK
  <1>5. PlaceInv'
    BY SMT, <1>1, ThreadsAssumption DEF TypeOK, PlaceInv, Waiting
  <1>6. WaitersInv'
    <2>. DEFINE p == IF willblock THEN "entered" ELSE "locked"
    <2>1. p \in Places \ {"waiters", "count"} /\ pc' = [pc EXCEPT ![t] = p]
      BY DEF Places
    <2>. HIDE DEF p
    <2>2. CASE Waiting(t)
      BY <2>1, <2>2, WaitingRemove DEF WaitersInv, Counted
    <2>3. CASE ~Waiting(t)
      <3>1. WaitingSet' = WaitingSet
        BY <2>1, <2>3, WaitingSame
      <3>2. waiters' = waiters
        BY SMT, <2>3 DEF Counted, TypeOK
      <3>. QED  BY <3>1, <3>2 DEF WaitersInv
    <2>. QED  BY <2>2, <2>3
  <1>7. NoLostRelease'
    BY SMT DEF NoLostRelease
  <1>8. WakeupInv'
    <2>1. SUFFICES ASSUME t = Looper, willblock, onCount \ {Looper} # {} PROVE wakeup
      BY <1>1, ThreadsAssumption DEF WakeupInv, PlaceInv, TypeOK, Waiting
    <2>2. CASE pc[t] = "count" /\ processing[t]
      BY <2>1, <2>2 DEF WakeupInv
    <2>3. CASE w <= 1
      <3>1. PICK u \in onCount : u # t
        BY <2>1
      <3>2. Waiting(u) /\ u \in Threads
        BY <3>1 DEF PlaceInv, Waiting, TypeOK
      <3>3. CASE Waiting(t)
        BY <3>1, <3>2, <3>3, <2>3, WaitingAlone DEF Counted
      <3>4. CASE ~Waiting(t)
        BY SMT, <3>2, <3>4, <2>3, WaitingNone DEF Counted, TypeOK
      <3>. QED  BY <3>3, <3>4
    <2>. QED  BY <2>1, <2>2, <2>3
  <1>9. OwnerInv'
    BY <1>1, ThreadsAssumption DEF OwnerInv, TypeOK, PlaceInv, Waiting
  <1>. QED  BY <1>3, <1>4, <1>5, <1>6, <1>7, <1>8, <1>9

-----------------------------------------------------------------------------
(***************************************************************************)
(* Every step keeps the invariant                                           *)
(***************************************************************************)

\* pomp_loop_lock, first part: up to the first sleep or the grant.
LEMMA LockStep ==
  ASSUME IInv, NEW t \in Threads, Lock(t)
  PROVE  IInv'
  <1>. USE DEF IInv
  <1>1. calls' \in [Threads -> Nat] /\ CallerFrame(t)
    BY SMT DEF Lock, TypeOK, CallerFrame
  <1>2. t \notin onCount /\ t \notin onWaiters /\ ~Waiting(t)
    BY DEF Lock, Home, PlaceInv, Waiting
  <1>3. CASE owner # t
    <2>1. pc[t] = "out" /\ ~processing[t] /\ processing' = processing
      BY <1>3 DEF Lock, Home, PlaceInv
    <2>2. Counted(t, waiters + 1)
      BY <1>2 DEF Counted
    <2>3. SleepOnCount(t, waiters + 1) \/ TakeLoop(t, FALSE, waiters + 1)
      BY <1>3 DEF Lock, SyncLock, WaitForWaiters, WaitForOwner
    <2>4. CASE SleepOnCount(t, waiters + 1)
      BY <1>1, <1>2, <1>3, <2>1, <2>2, <2>4, SleepOnCountStep
    <2>5. CASE TakeLoop(t, FALSE, waiters + 1)
      BY <1>1, <1>2, <2>1, <2>2, <2>5, TakeLoopStep
    <2>. QED  BY <2>3, <2>4, <2>5
  <1>4. CASE owner = t
    <2>. USE <1>4 DEF Lock, SyncLock, Grant
    <2>1. TypeOK'
      BY SMT, <1>1 DEF TypeOK, Places
    <2>2. HolderInv'
      BY SMT, ThreadsAssumption DEF HolderInv, TypeOK
    <2>3. PlaceInv'
      BY SMT, ThreadsAssumption DEF PlaceInv, HolderInv, TypeOK, Waiting
    <2>4. WaitersInv'
      <3>1. WaitingSet' = WaitingSet
        BY <1>2, WaitingSame DEF Places
      <3>. QED  BY <3>1 DEF WaitersInv
    <2>5. NoLostRelease'
      BY SMT DEF NoLostRelease, TypeOK
    <2>6. WakeupInv' /\ OwnerInv'
      BY SMT, ThreadsAssumption DEF WakeupInv, OwnerInv, TypeOK, Home
    <2>. QED  BY <2>1, <2>2, <2>3, <2>4, <2>5, <2>6
  <1>. QED  BY <1>3, <1>4

\* wait_and_process, first part: up to the first sleep or the grant.
LEMMA WaitAndProcessStep ==
  ASSUME IInv, WaitAndProcess
  PROVE  IInv'
  <1>. USE ThreadsAssumption DEF IInv
  <1>1. CallerFrame(Looper) /\ processing'[Looper]
    BY DEF WaitAndProcess, TypeOK, CallerFrame
  <1>2. Looper \notin onCount /\ Looper \notin onWaiters /\ ~Waiting(Looper)
    BY DEF WaitAndProcess, PlaceInv, Waiting
  <1>3. owner # Looper
    BY DEF WaitAndProcess, HolderInv
  <1>4. Counted(Looper, waiters + 1) /\ pc[Looper] = "out"
    BY <1>2 DEF Counted, WaitAndProcess
  <1>5. WaitForWaiters(Looper, TRUE, waiters + 1)
    BY <1>3 DEF WaitAndProcess, SyncLock
  <1>6. CASE SleepOnWaiters(Looper, waiters + 1)
    BY <1>1, <1>2, <1>3, <1>4, <1>6, SleepOnWaitersStep
  <1>7. CASE SleepOnCount(Looper, waiters + 1)
    BY <1>1, <1>2, <1>3, <1>4, <1>7, SleepOnCountStep
  <1>8. CASE waiters + 1 <= 1 /\ TakeLoop(Looper, TRUE, waiters + 1)
    BY <1>1, <1>2, <1>4, <1>8, TakeLoopStep
  <1>. QED  BY <1>5, <1>6, <1>7, <1>8 DEF WaitForWaiters, WaitForOwner

\* A thread woken on cond_waiters.
LEMMA ResumeWaitersStep ==
  ASSUME IInv, NEW t \in Threads, ResumeWaiters(t)
  PROVE  IInv'
  <1>. USE ThreadsAssumption DEF IInv
  <1>1. t = Looper /\ processing[t] /\ processing' = processing
    BY DEF ResumeWaiters, PlaceInv
  <1>2. CallerFrame(t) /\ Waiting(t) /\ t \notin onCount /\ t \notin onWaiters
    BY DEF ResumeWaiters, TypeOK, CallerFrame, Waiting, PlaceInv
  <1>3. owner # t /\ Counted(t, waiters) /\ pc[t] = "waiters"
    BY <1>2 DEF Counted, PlaceInv, ResumeWaiters
  <1>4. CASE SleepOnWaiters(t, waiters)
    BY <1>1, <1>2, <1>3, <1>4, SleepOnWaitersStep
  <1>5. CASE SleepOnCount(t, waiters)
    BY <1>1, <1>2, <1>3, <1>5, SleepOnCountStep
  <1>6. CASE waiters <= 1 /\ TakeLoop(t, TRUE, waiters)
    BY <1>1, <1>2, <1>3, <1>6, TakeLoopStep
  <1>. QED  BY <1>4, <1>5, <1>6 DEF ResumeWaiters, WaitForWaiters, WaitForOwner

\* A thread woken on cond_count.
LEMMA ResumeCountStep ==
  ASSUME IInv, NEW t \in Threads, ResumeCount(t)
  PROVE  IInv'
  <1>. USE ThreadsAssumption DEF IInv
  <1>1. processing' = processing /\ processing[t] \in BOOLEAN /\ pc[t] = "count"
    BY DEF ResumeCount, TypeOK
  <1>2. CallerFrame(t) /\ Waiting(t) /\ t \notin onCount /\ t \notin onWaiters
    BY DEF ResumeCount, TypeOK, CallerFrame, Waiting, PlaceInv
  <1>3. owner # t /\ Counted(t, waiters)
    BY <1>2 DEF Counted, PlaceInv
  <1>4. CASE SleepOnCount(t, waiters)
    BY <1>1, <1>2, <1>3, <1>4, SleepOnCountStep
  <1>5. CASE TakeLoop(t, processing[t], waiters)
    BY <1>1, <1>2, <1>3, <1>5, TakeLoopStep
  <1>. QED  BY <1>4, <1>5 DEF ResumeCount, WaitForOwner

\* A condition wait that returns without a signal.
LEMMA SpuriousWakeupStep ==
  ASSUME IInv, NEW t \in Threads, SpuriousWakeup(t)
  PROVE  IInv'
  <1>. USE DEF IInv, SpuriousWakeup
  <1>1. TypeOK' /\ HolderInv' /\ PlaceInv'
    BY DEF TypeOK, HolderInv, PlaceInv, Waiting
  <1>2. WaitersInv'
    BY DEF WaitersInv, WaitingSet, Waiting
  <1>3. NoLostRelease'
    BY DEF NoLostRelease, PlaceInv, TypeOK
  <1>4. WakeupInv' /\ OwnerInv'
    BY DEF WakeupInv, OwnerInv
  <1>. QED  BY <1>1, <1>2, <1>3, <1>4

\* pomp_loop_sync_unlock: the release of the last acquisition wakes a sleeper, which
\* is then the woken thread that NoLostRelease asks for.
LEMMA SyncUnlockStep ==
  ASSUME IInv, NEW t \in Threads, SyncUnlock(t)
  PROVE  IInv'
  <1>. USE ThreadsAssumption DEF IInv, SyncUnlock
  <1>1. onCount' \subseteq onCount
    BY DEF Signal
  <1>2. owner = t => count \in Nat /\ count >= 1 /\ depth[t] = count
    BY SMT DEF HolderInv, TypeOK
  <1>3. TypeOK'
    <2>1. pc' \in [Threads -> Places]
      BY DEF TypeOK, Home, Places
    <2>2. depth' \in [Threads -> Nat] /\ count' \in Nat
      BY SMT, <1>2 DEF TypeOK
    <2>. QED  BY <1>1, <2>1, <2>2 DEF TypeOK
  <1>4. HolderInv'
    BY SMT, <1>2 DEF HolderInv, TypeOK
  <1>5. PlaceInv'
    BY SMT, <1>1, <1>2 DEF PlaceInv, TypeOK, Waiting, Home
  <1>6. WaitersInv'
    <2>1. WaitingSet' = WaitingSet
      BY WaitingSame DEF Waiting, Home, Places
    <2>. QED  BY <2>1 DEF WaitersInv
  <1>7. NoLostRelease'
    <2>1. CASE owner # t
      BY <2>1 DEF NoLostRelease, TypeOK, Home
    <2>2. CASE owner = t /\ count # 1
      BY SMT, <1>2, <2>2 DEF NoLostRelease
    <2>3. CASE owner = t /\ count = 1
      <3>1. SUFFICES ASSUME onCount' # {}
                     PROVE  \E u \in Threads : pc'[u] = "count" /\ u \notin onCount'
        BY DEF NoLostRelease
      <3>2. PICK u \in onCount : onCount' = onCount \ {u}
        BY <2>3, <3>1 DEF Signal
      <3>3. u # t /\ u \in Threads /\ pc[u] = "count"
        BY DEF PlaceInv, TypeOK
      <3>. QED  BY <3>2, <3>3 DEF TypeOK
    <2>. QED  BY <2>1, <2>2, <2>3
  <1>8. WakeupInv'
    BY <1>1 DEF WakeupInv, TypeOK, Home
  <1>9. OwnerInv'
    BY DEF OwnerInv, TypeOK, Home
  <1>. QED  BY <1>3, <1>4, <1>5, <1>6, <1>7, <1>8, <1>9

\* The steps outside of the mutex write only loop->owner, the eventfd and the place of
\* the thread.
LEMMA LocalStep ==
  ASSUME IInv, NEW t \in Threads,
         LockReturn(t) \/ Unlock(t) \/ StrayUnlock(t) \/ TakeOwnership \/ PollWakeup
            \/ PollOther \/ WakeupCb \/ ProcessReturn
  PROVE  IInv'
  <1>. USE ThreadsAssumption
           DEF IInv, sync, LockReturn, Unlock, StrayUnlock, CallUnlock, TakeOwnership,
               PollWakeup, PollOther, WakeupCb, ProcessReturn
  <1>1. TypeOK'
    <2>1. pc' \in [Threads -> Places]
      BY SMT DEF TypeOK, Home, Places
    <2>2. processing' \in [Threads -> BOOLEAN]
      BY DEF TypeOK
    <2>. QED  BY <2>1, <2>2 DEF TypeOK
  <1>2. HolderInv'
    BY DEF HolderInv
  <1>3. PlaceInv'
    <2>1. CASE LockReturn(t)
      BY <2>1 DEF PlaceInv, TypeOK, Waiting, Home
    <2>2. CASE Unlock(t)
      BY SMT, <2>2 DEF PlaceInv, TypeOK, Waiting, Home, Reserved, HolderInv
    <2>3. CASE StrayUnlock(t)
      BY SMT, <2>3 DEF PlaceInv, TypeOK, Waiting, Home, HolderInv
    <2>4. CASE TakeOwnership \/ PollWakeup \/ PollOther \/ WakeupCb
      BY SMT, <2>4 DEF PlaceInv, TypeOK, Waiting
    <2>5. CASE ProcessReturn
      BY <2>5 DEF PlaceInv, TypeOK, Waiting
    <2>. QED  BY <2>1, <2>2, <2>3, <2>4, <2>5
  <1>4. WaitersInv'
    <2>1. WaitingSet' = WaitingSet
      BY DEF WaitingSet, Waiting, TypeOK, Home
    <2>. QED  BY <2>1 DEF WaitersInv
  <1>5. NoLostRelease'
    BY DEF NoLostRelease, TypeOK, Home
  <1>6. WakeupInv'
    BY DEF WakeupInv, TypeOK, Home
  <1>7. OwnerInv'
    <2>1. CASE LockReturn(t)
      <3>1. t # Looper /\ processing[Looper] => Waiting(Looper)
        BY <2>1 DEF PlaceInv, TypeOK, Waiting, Places
      <3>. QED  BY <2>1, <3>1 DEF OwnerInv, TypeOK, Home, Waiting
    <2>2. CASE Unlock(t) \/ StrayUnlock(t)
      BY <2>2 DEF OwnerInv, TypeOK, Home
    <2>3. CASE TakeOwnership \/ PollWakeup \/ PollOther \/ WakeupCb \/ ProcessReturn
      BY <2>3 DEF OwnerInv, TypeOK
    <2>. QED  BY <2>1, <2>2, <2>3
  <1>. QED  BY <1>1, <1>2, <1>3, <1>4, <1>5, <1>6, <1>7

\* IInv is inductive.
LEMMA Inductive == IInv /\ [Next]_vars => IInv'
  <1>. SUFFICES ASSUME IInv, [Next]_vars PROVE IInv'
    OBVIOUS
  <1>1. CASE UNCHANGED vars
    BY <1>1 DEF vars, sync, IInv, TypeOK, HolderInv, PlaceInv, WaitersInv, WaitingSet,
                Waiting, NoLostRelease, WakeupInv, OwnerInv
  <1>2. CASE WaitAndProcess
    BY <1>2, WaitAndProcessStep
  <1>3. CASE TakeOwnership \/ PollWakeup \/ PollOther \/ WakeupCb \/ ProcessReturn
    BY <1>3, LocalStep, ThreadsAssumption
  <1>4. ASSUME NEW t \in Threads, Lock(t) PROVE IInv'
    BY <1>4, LockStep
  <1>5. ASSUME NEW t \in Threads, LockReturn(t) \/ Unlock(t) \/ StrayUnlock(t)
        PROVE  IInv'
    BY <1>5, LocalStep
  <1>6. ASSUME NEW t \in Threads, SyncUnlock(t) PROVE IInv'
    BY <1>6, SyncUnlockStep
  <1>7. ASSUME NEW t \in Threads, ResumeWaiters(t) PROVE IInv'
    BY <1>7, ResumeWaitersStep
  <1>8. ASSUME NEW t \in Threads, ResumeCount(t) PROVE IInv'
    BY <1>8, ResumeCountStep
  <1>9. ASSUME NEW t \in Threads, SpuriousWakeup(t) PROVE IInv'
    BY <1>9, SpuriousWakeupStep
  <1>. QED  BY <1>1, <1>2, <1>3, <1>4, <1>5, <1>6, <1>7, <1>8, <1>9 DEF Next

\* IInv holds of a loop just created and enabled for thread synchronisation.
LEMMA Initial == Init => IInv
  <1>. SUFFICES ASSUME Init PROVE IInv
    OBVIOUS
  <1>1. TypeOK
    BY ThreadsAssumption DEF Init, TypeOK, Places
  <1>2. HolderInv /\ PlaceInv /\ NoLostRelease /\ WakeupInv /\ OwnerInv
    BY ThreadsAssumption
       DEF Init, HolderInv, PlaceInv, NoLostRelease, WakeupInv, OwnerInv, Waiting
  <1>3. WaitersInv
    <2>1. WaitingSet = {}
      BY DEF Init, WaitingSet, Waiting
    <2>. QED  BY <2>1, FS_EmptySet DEF WaitersInv, Init
  <1>. QED  BY <1>1, <1>2, <1>3 DEF IInv

\* Every reachable state of the synchronisation satisfies the inductive invariant.
THEOREM Invariance == Spec => []IInv
  BY Initial, Inductive, PTL DEF Spec

-----------------------------------------------------------------------------
(***************************************************************************)
(* What the invariant gives                                                 *)
(***************************************************************************)

\* The fields of the synchronisation keep their types; in particular neither count nor
\* waiters (both uint32_t) ever goes below zero.
THEOREM TypeCorrect == Spec => []TypeOK
  <1>1. IInv => TypeOK
    BY DEF IInv
  <1>. QED  BY <1>1, Invariance, PTL

\* pomp_loop_lock excludes every other locker and the processing of events.
THEOREM Exclusion == Spec => []MutualExclusion
  <1>1. IInv => MutualExclusion
    BY SMT DEF IInv, HolderInv, MutualExclusion
  <1>. QED  BY <1>1, Invariance, PTL

\* The release of the loop by pomp_loop_sync_unlock is never lost.
THEOREM ReleaseNotLost == Spec => []NoLostRelease
  <1>1. IInv => NoLostRelease
    BY DEF IInv
  <1>. QED  BY <1>1, Invariance, PTL

\* The loop thread never blocks in its wait against a thread asleep in pomp_loop_lock:
\* the pomp_loop_wakeup made before the sleep is still pending.
THEOREM WakeupNotLost == Spec => []WakeupPending
  <1>1. IInv => WakeupPending
    BY ThreadsAssumption DEF IInv, WakeupInv, WakeupPending, PlaceInv
  <1>. QED  BY <1>1, Invariance, PTL

\* Callbacks run in the thread that owner.current names.
THEOREM CallbackOwnership == Spec => []CallbackOwner
  <1>1. IInv => CallbackOwner
    BY ThreadsAssumption DEF IInv, OwnerInv, CallbackOwner, PlaceInv
  <1>. QED  BY <1>1, Invariance, PTL

\* The synchronisation of the loop implements a recursive lock.
THEOREM Refinement == Spec => RefinesLock
  <1>1. Init => LockSpec!Init
    BY DEF Init, LockSpec!Init
  <1>2. IInv /\ [Next]_vars => [LockSpec!Next]_depth
    <2>. SUFFICES ASSUME IInv, [Next]_vars PROVE LockSpec!Next \/ depth' = depth
      BY DEF LockSpec!Next
    <2>. USE ThreadsAssumption DEF IInv, LockSpec!Next
    <2>1. ASSUME NEW t \in Threads, NEW n, NEW b, Grant(t, n, b), owner \in {t, NoThread}
          PROVE  LockSpec!Acquire(t)
      BY <2>1 DEF Grant, HolderInv, LockSpec!Acquire
    <2>2. ASSUME NEW t \in Threads, NEW w, NEW b, WaitForOwner(t, b, w)
          PROVE  LockSpec!Acquire(t) \/ depth' = depth
      BY <2>1, <2>2 DEF WaitForOwner, SleepOnCount, TakeLoop, HolderInv
    <2>3. ASSUME NEW t \in Threads, NEW w, NEW b, WaitForWaiters(t, b, w)
          PROVE  LockSpec!Acquire(t) \/ depth' = depth
      BY <2>2, <2>3 DEF WaitForWaiters, SleepOnWaiters
    <2>4. ASSUME NEW t \in Threads, NEW b, SyncLock(t, b)
          PROVE  LockSpec!Acquire(t) \/ depth' = depth
      BY <2>1, <2>3, <2>4 DEF SyncLock
    <2>5. ASSUME NEW t \in Threads, SyncUnlock(t)
          PROVE  LockSpec!Release(t) \/ depth' = depth
      BY SMT, <2>5 DEF SyncUnlock, HolderInv, TypeOK, LockSpec!Release
    <2>6. CASE UNCHANGED vars
      BY <2>6 DEF vars
    <2>7. CASE Next
      BY <2>2, <2>3, <2>4, <2>5, <2>7
         DEF Next, Lock, LockReturn, Unlock, StrayUnlock, CallUnlock, ResumeWaiters,
             ResumeCount, SpuriousWakeup, WaitAndProcess, TakeOwnership, PollWakeup,
             PollOther, WakeupCb, ProcessReturn
    <2>. QED  BY <2>6, <2>7
  <1>. QED  BY <1>1, <1>2, Invariance, PTL DEF Spec, RefinesLock, LockSpec!Spec
=============================================================================
