------------------------------ MODULE Watchdog ------------------------------
(***************************************************************************)
(* The watchdog of a pomp loop (pomp_watchdog.c): a thread that calls a     *)
(* function when the dispatch of a batch of events takes too long. The      *)
(* thread that owns the loop enables and disables it, from its own code or  *)
(* from a callback, and brackets every batch with pomp_watchdog_enter and   *)
(* pomp_watchdog_leave (pomp_loop_linux.c).                                 *)
(*                                                                         *)
(* What happens under watchdog->mutex is one action, but for the call of    *)
(* the function, during which the thread keeps the mutex.                   *)
(***************************************************************************)
EXTENDS Integers

CONSTANTS
    Delays,         \* the delays given to pomp_loop_watchdog_enable
    Monotonic,      \* POMP_HAVE_WATCHDOG_MONOTONIC: the condition uses the clock of
                    \* the deadlines; otherwise it finds that they are always over
    DisableInside,  \* do callbacks of the loop call pomp_loop_watchdog_disable?
    MaxTime,        \* bound on the clock
    MaxBlocks,      \* bound on the batches, below the wrap of the 32-bit counter
    MaxStarts       \* bound on the threads created

ASSUME DelaysAssumption == Delays \subseteq Nat \ {0}
ASSUME SetupAssumption ==
    /\ Monotonic \in BOOLEAN /\ DisableInside \in BOOLEAN
    /\ MaxTime \in Nat /\ MaxBlocks \in Nat /\ MaxStarts \in Nat

VARIABLES
    now,            \* CLOCK_MONOTONIC
    started, should_stop, delay, cb, counter, monitoring, next_timeout,
                    \* the fields of struct pomp_watchdog; cb: is it set?
    place,          \* where the owner of the loop is: in its own code ("home"), in a
                    \* batch ("block") or done with the loop ("gone")
    call,           \* the function of the watchdog it is in
    thread,         \* where the watchdog's thread is
    seen,           \* its local variables: counter and timeout
    block,          \* the batch in progress: when it began, the delay it was given (0 if
                    \* none), and the calls of the function since
    starts          \* the number of threads created so far

fields == <<started, should_stop, delay, cb, counter, monitoring, next_timeout>>
vars == <<now, fields, place, call, thread, seen, block, starts>>

Init ==
    /\ now = 0
    /\ started = FALSE /\ should_stop = FALSE /\ delay = 0 /\ cb = FALSE
    /\ counter = 0 /\ monitoring = FALSE /\ next_timeout = 0
    /\ place = "home" /\ call = "none" /\ thread = "none"
    /\ seen = [counter |-> 0, timeout |-> 0]
    /\ block = [at |-> 0, delay |-> 0, fired |-> 0]
    /\ starts = 0

\* The mutex is free: the thread keeps it while it calls the function.
Free == thread # "notify"

\* The owner of the loop runs its own code.
AtHome == call = "none" /\ place \in {"home", "block"}

check_timeout(timeout) == now >= timeout
get_absolute_timeout(d) == now + d

\* pthread_cond_signal: the thread, if it waits, leaves the wait.
Signal == thread' = IF thread \in {"wait", "timedwait"} THEN "head" ELSE thread

-----------------------------------------------------------------------------
(***************************************************************************)
(* pomp_watchdog_start                                                      *)
(***************************************************************************)

\* The watchdog is started already: only the settings change.
Update(d) ==
    /\ AtHome /\ started /\ Free
    /\ delay' = d /\ cb' = TRUE
    /\ UNCHANGED <<now, started, should_stop, counter, monitoring, next_timeout, place,
                   call, thread, seen, block, starts>>

\* The thread is created first...
Start ==
    /\ AtHome /\ ~started
    /\ starts < MaxStarts
    /\ starts' = starts + 1
    /\ thread' = "head"
    /\ call' = "start"
    /\ UNCHANGED <<now, fields, place, seen, block>>

\* ... and the settings follow, without the mutex.
StartEnd(d) ==
    /\ call = "start"
    /\ started' = TRUE /\ delay' = d /\ cb' = TRUE
    /\ call' = "none"
    /\ UNCHANGED <<now, should_stop, counter, monitoring, next_timeout, place, thread,
                   seen, block, starts>>

-----------------------------------------------------------------------------
(***************************************************************************)
(* pomp_watchdog_stop, called to disable the watchdog or, when the loop is  *)
(* destroyed, by pomp_watchdog_clear. When the watchdog is not started it   *)
(* only clears what is clear already.                                       *)
(***************************************************************************)

\* Mutant of Stop: the thread is woken up but not told to stop.
StopUntold(why) ==
    /\ AtHome /\ started /\ Free
    /\ Signal
    /\ call' = why
    /\ UNCHANGED <<now, fields, place, seen, block, starts>>

Stop(why) ==
    /\ AtHome /\ started /\ Free
    /\ should_stop' = TRUE
    /\ Signal
    /\ call' = why
    /\ UNCHANGED <<now, started, delay, cb, counter, monitoring, next_timeout, place,
                   seen, block, starts>>

Disable == (place = "block" => DisableInside) /\ Stop("disable")

Clear == place = "home" /\ Stop("clear")

\* pthread_join returns. pomp_watchdog_clear sets all the fields to zero; disable leaves
\* counter, monitoring and next_timeout as they are.
Joined ==
    /\ call \in {"disable", "clear"} /\ thread = "none"
    /\ should_stop' = FALSE /\ started' = FALSE /\ delay' = 0 /\ cb' = FALSE
    /\ call' = "none"
    /\ IF call = "clear"
       THEN counter' = 0 /\ monitoring' = FALSE /\ next_timeout' = 0 /\ place' = "gone"
       ELSE UNCHANGED <<counter, monitoring, next_timeout, place>>
    /\ UNCHANGED <<now, thread, seen, block, starts>>

-----------------------------------------------------------------------------
(***************************************************************************)
(* pomp_watchdog_enter and pomp_watchdog_leave, around a batch of events    *)
(***************************************************************************)

Enter ==
    /\ AtHome /\ place = "home" /\ (started => Free)
    /\ counter < MaxBlocks
    /\ IF started
       THEN /\ counter' = counter + 1
            /\ monitoring' = TRUE
            /\ next_timeout' = get_absolute_timeout(delay)
            /\ Signal
       ELSE UNCHANGED <<counter, monitoring, next_timeout, thread>>
    /\ place' = "block"
    /\ block' = [at |-> now, delay |-> delay, fired |-> 0]
    /\ UNCHANGED <<now, started, should_stop, delay, cb, call, seen, starts>>

Leave ==
    /\ AtHome /\ place = "block" /\ (started => Free)
    /\ IF started
       THEN monitoring' = FALSE /\ next_timeout' = 0 /\ Signal
       ELSE UNCHANGED <<monitoring, next_timeout, thread>>
    /\ place' = "home"
    /\ UNCHANGED <<now, started, should_stop, delay, cb, counter, call, seen, block, starts>>

-----------------------------------------------------------------------------
(***************************************************************************)
(* pomp_watchdog_thread_cb: the head of its loop, its two waits, and what   *)
(* it does when the second one times out.                                   *)
(***************************************************************************)
ThreadHead ==
    /\ thread = "head"
    /\ IF should_stop
       THEN thread' = "none" /\ UNCHANGED seen
       ELSE /\ seen' = [counter |-> counter, timeout |-> next_timeout]
            /\ thread' = IF monitoring THEN "timedwait" ELSE "wait"
    /\ UNCHANGED <<now, fields, place, call, block, starts>>

\* pthread_cond_timedwait gives ETIMEDOUT; the mutex is still to be taken again.
ThreadTimeout ==
    /\ thread = "timedwait"
    /\ Monotonic => check_timeout(seen.timeout)
    /\ thread' = "timedout"
    /\ UNCHANGED <<now, fields, place, call, seen, block, starts>>

\* Mutants of ThreadCheck: the deadline must be passed, not only reached; the batch is not
\* looked at again.
ThreadCheckLate ==
    /\ thread = "timedout"
    /\ IF monitoring /\ counter = seen.counter /\ now > seen.timeout
       THEN /\ thread' = "notify"
            /\ block' = [block EXCEPT !.fired = @ + 1]
       ELSE thread' = "head" /\ UNCHANGED block
    /\ UNCHANGED <<now, fields, place, call, seen, starts>>

ThreadCheckAnyBlock ==
    /\ thread = "timedout"
    /\ IF monitoring /\ check_timeout(seen.timeout)
       THEN /\ thread' = "notify"
            /\ block' = [block EXCEPT !.fired = @ + 1]
       ELSE thread' = "head" /\ UNCHANGED block
    /\ UNCHANGED <<now, fields, place, call, seen, starts>>

\* The start of notify_watchdog_expired.
ThreadCheck ==
    /\ thread = "timedout"
    /\ IF monitoring /\ counter = seen.counter /\ check_timeout(seen.timeout)
       THEN /\ thread' = "notify"
            /\ block' = [block EXCEPT !.fired = @ + 1]
       ELSE thread' = "head" /\ UNCHANGED block
    /\ UNCHANGED <<now, fields, place, call, seen, starts>>

\* Mutant of ThreadNotified: the batch goes on being monitored.
ThreadNotifiedAgain ==
    /\ thread = "notify"
    /\ thread' = "head"
    /\ UNCHANGED <<now, fields, place, call, seen, block, starts>>

\* The function returns.
ThreadNotified ==
    /\ thread = "notify"
    /\ monitoring' = FALSE
    /\ thread' = "head"
    /\ UNCHANGED <<now, started, should_stop, delay, cb, counter, next_timeout, place, call,
                   seen, block, starts>>

SpuriousWakeup ==
    /\ thread \in {"wait", "timedwait"}
    /\ thread' = "head"
    /\ UNCHANGED <<now, fields, place, call, seen, block, starts>>

Tick ==
    /\ now < MaxTime
    /\ now' = now + 1
    /\ UNCHANGED <<fields, place, call, thread, seen, block, starts>>

-----------------------------------------------------------------------------
ThreadStep == ThreadHead \/ ThreadTimeout \/ ThreadCheck \/ ThreadNotified

Next ==
    \/ Start \/ \E d \in Delays : Update(d) \/ StartEnd(d)
    \/ Disable \/ Clear \/ Joined \/ Enter \/ Leave
    \/ ThreadStep \/ SpuriousWakeup \/ Tick

Spec == Init /\ [][Next]_vars

\* The watchdog's thread is scheduled and its function returns; spurious wakeups do not
\* keep a wait from timing out for ever; a join returns once the thread is over. Time need
\* not pass, the batches need not end.
Fairness == WF_vars(ThreadStep) /\ SF_vars(ThreadTimeout) /\ WF_vars(Joined)

FairSpec == Spec /\ Fairness

-----------------------------------------------------------------------------
(***************************************************************************)
(* Properties                                                               *)
(***************************************************************************)

\* The variables hold values that the watchdog and its two threads can have.
TypeOK ==
    /\ now \in 0 .. MaxTime
    /\ started \in BOOLEAN /\ should_stop \in BOOLEAN /\ cb \in BOOLEAN
    /\ monitoring \in BOOLEAN
    /\ delay \in Delays \cup {0} /\ counter \in 0 .. MaxBlocks /\ next_timeout \in Nat
    /\ place \in {"home", "block", "gone"}
    /\ call \in {"none", "start", "disable", "clear"}
    /\ thread \in {"none", "head", "wait", "timedwait", "timedout", "notify"}
    /\ seen \in [counter : 0 .. MaxBlocks, timeout : Nat]
    /\ block \in [at : 0 .. MaxTime, delay : Delays \cup {0}, fired : Nat]
    /\ starts \in 0 .. MaxStarts

\* The function is called only when a batch of events is in progress that took longer
\* than the delay in force when it began: not for a batch that is over, nor for one that
\* began since the thread's wait timed out, nor for a delay set meanwhile
\* (pomp_test_loop.c: "will take effect at next processing").
ExpiryIsReal ==
    thread = "notify" =>
        place = "block" /\ block.delay > 0 /\ now >= block.at + block.delay

\* The function is called at most once for a batch (pomp_test_loop.c: "watchdog should
\* trigger only once").
OncePerBlock == block.fired <= 1

\* The function is set whenever it is called: pomp_watchdog_start sets it after it
\* creates the thread, pomp_watchdog_stop clears it after the join.
FunctionSet == thread = "notify" => cb

\* The thread never waits on what is no longer so: every change of monitoring, of the
\* deadline or of should_stop wakes it up.
WaitIsCurrent ==
    /\ thread = "wait" => ~monitoring /\ ~should_stop
    /\ thread = "timedwait" =>
          /\ monitoring /\ ~should_stop
          /\ seen = [counter |-> counter, timeout |-> next_timeout]

\* A batch that takes longer than its delay is reported, unless it ends or the watchdog
\* is disabled first.
StuckIsReported ==
    (/\ place = "block" /\ started /\ block.delay > 0
     /\ now >= block.at + block.delay)
        ~> (block.fired > 0 \/ place # "block" \/ ~started)

\* Disabling the watchdog, or destroying its loop, does not wait for ever for the thread.
StopReturns == call \in {"disable", "clear"} ~> call = "none"
=============================================================================
