--------------------------- MODULE RecursiveLock ---------------------------
(***************************************************************************)
(* What pomp_loop_lock, pomp_loop_unlock and the processing of the loop     *)
(* promise together, with no mutex, no condition variable and no wakeup:    *)
(* held[t] is the number of acquisitions of the loop that thread t has been *)
(* granted and has not given back. A thread is granted the loop only while  *)
(* no other thread has it.                                                  *)
(***************************************************************************)
EXTENDS Integers

CONSTANT Threads

VARIABLE held

Init == held = [t \in Threads |-> 0]

Acquire(t) ==
    /\ \A u \in Threads \ {t} : held[u] = 0
    /\ held' = [held EXCEPT ![t] = @ + 1]

Release(t) ==
    /\ held[t] > 0
    /\ held' = [held EXCEPT ![t] = @ - 1]

Next == \E t \in Threads : Acquire(t) \/ Release(t)

Spec == Init /\ [][Next]_held
=============================================================================
