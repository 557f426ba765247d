------------------------------- MODULE Dispatch -------------------------------
(***************************************************************************)
(* The registrations of a loop and the dispatch of its events: pomp_loop.c   *)
(* over epoll (pomp_loop_linux.c) or poll (pomp_loop_posix.c), with the      *)
(* objects that are registered in it: events (pomp_evt.c, over eventfd or a  *)
(* pipe), timers (pomp_timer.c, over timerfd, a POSIX timer and a pipe, or   *)
(* kqueue) and descriptors of the program.                                  *)
(*                                                                          *)
(* The thread of the loop waits, gets a batch of ready descriptors and calls *)
(* the callbacks one by one; a callback may create, destroy, attach and      *)
(* detach anything, so that a descriptor of the batch is closed, or its      *)
(* number open again for something else, when its turn comes. Meanwhile      *)
(* other threads signal and clear events, set and clear timers.             *)
(*                                                                          *)
(* The wakeup of the loop and its lock are in LoopSync, what the callback of *)
(* the idle event does is in IdleQueue.                                     *)
(***************************************************************************)
EXTENDS Integers, Sequences, FiniteSets, FiniteSetsExt, Functions

CONSTANTS Builds,     \* subset of {"linux", "posix", "bsd"}
          Evts,       \* the events
          Idle,       \* the event of the loop for its idle functions, one of Evts
          Timers,     \* the timers
          Raws,       \* the program's own descriptors
          EventSets,  \* the sets of events they are registered for
          None,       \* no object
          NBuckets,   \* POMP_LOOP_PFDS_LEN
          MaxEvents,  \* the size of the array given to epoll_wait, 16 in the code
          MaxCount    \* bound on the expirations that wait to be read

ASSUME Bounds == {NBuckets, MaxEvents, MaxCount} \subseteq Nat \ {0}
ASSUME EventNames == \A events \in EventSets : events \subseteq {"IN", "OUT"}
ASSUME Sorts == /\ Idle \in Evts /\ None \notin Evts \union Timers \union Raws
                /\ Evts \intersect Timers = {} /\ (Evts \union Timers) \intersect Raws = {}

Objs == Evts \union Timers \union Raws
ASSUME ObjsFinite == IsFiniteSet(Objs)

Fds == 1 .. Cardinality(Objs) + 1

\* The program's own descriptors stay open.
RawFd == CHOOSE f \in [Raws -> 1 .. Cardinality(Raws)] : \A o, p \in Raws : f[o] = f[p] => o = p

VARIABLES
    build,          \* the implementations that were chosen
    loop,           \* "none", "alive", or "destroying" after pomp_loop_destroy returned -EBUSY
    reg,            \* the registrations: pfds by bucket, pfdcount, what epoll monitors
    fd, open,       \* the descriptor of each object (0: no object), the numbers that are open
    attached,       \* the objects that the program believes to be registered
    count,          \* eventfd counter, timerfd expirations, bytes in a pipe, kqueue events
    armed, period,  \* the kernel timer of a timer, timer->period (kqueue)
    zero, orphans,  \* the posix timers with id 0, the kernel timers that outlive their structure
    pc, batch, cb,  \* the thread of the loop
    asked, due,     \* what was last asked of a timer; it is signalled or expired, and not handled
    real            \* the running callback is for something that was due

objvars == <<fd, open, attached, count, armed, period, zero, orphans, asked, due>>
thread == <<pc, batch, cb, real>>
vars == <<build, loop, reg, objvars, thread>>

(***************************************************************************)
(* Registrations                                                            *)
(***************************************************************************)
\* The hash of a descriptor: only collisions matter.
index_fd(n) == (n % NBuckets) + 1

NoReg == [pfds |-> [i \in 1 .. NBuckets |-> <<>>], pfdcount |-> 0, interest |-> {}]

\* The place of descriptor n in its bucket, 0 if it is not registered
find_pfd(g, n) ==
    LET found == {i \in DOMAIN g.pfds[index_fd(n)] : g.pfds[index_fd(n)][i].fd = n}
    IN  IF found = {} THEN 0 ELSE Min(found)

add_pfd(g, p) ==
    [g EXCEPT !.pfds[index_fd(p.fd)] = <<p>> \o @, !.pfdcount = @ + 1]

remove_pfd(g, n) ==
    LET i == find_pfd(g, n)
    IN  [g EXCEPT !.pfds[index_fd(n)] = SubSeq(@, 1, i - 1) \o SubSeq(@, i + 1, Len(@)),
                  !.pfdcount = @ - 1]

\* pomp_loop_do_add and pomp_loop_do_update: what epoll monitors follows the registration.
epoll_ctl(g, n, events) ==
    IF build = "linux"
    THEN [g EXCEPT !.interest = {r \in @ : r.fd # n} \union {[fd |-> n, events |-> events]}]
    ELSE g

\* Mutant of pomp_loop_add: the registration stays when epoll_ctl fails.
pomp_loop_add_keep(g, n, events, o, fails) ==
    IF find_pfd(g, n) # 0 THEN g
    ELSE LET a == add_pfd(g, [fd |-> n, events |-> events, obj |-> o])
         IN  IF fails THEN a ELSE epoll_ctl(a, n, events)

\* The registrations after a call of pomp_loop_add for descriptor n of object o
pomp_loop_add(g, n, events, o, fails) ==
    IF find_pfd(g, n) # 0 THEN g
    ELSE LET a == add_pfd(g, [fd |-> n, events |-> events, obj |-> o])
         IN  IF fails THEN remove_pfd(a, n) ELSE epoll_ctl(a, n, events)

\* pomp_loop_remove: nothing if n is not registered
pomp_loop_remove(g, n) ==
    IF find_pfd(g, n) = 0 THEN g
    ELSE [remove_pfd(g, n) EXCEPT !.interest = {r \in @ : r.fd # n}]

\* pomp_loop_update, and pomp_loop_update2 with what it makes of the events that are there: the
\* registration is as it was when epoll_ctl fails.
pomp_loop_update(g, n, events, fails) ==
    IF find_pfd(g, n) = 0 \/ fails THEN g
    ELSE epoll_ctl([g EXCEPT !.pfds[index_fd(n)][find_pfd(g, n)].events = events], n, events)

\* Only epoll_ctl can fail, poll has nothing to do.
Failures == IF build = "linux" THEN BOOLEAN ELSE {FALSE}

\* The entries of every bucket, one bucket after the other
Registered(g) ==
    LET upto[i \in 1 .. NBuckets] == IF i = 1 THEN g.pfds[i] ELSE upto[i - 1] \o g.pfds[i]
    IN  upto[NBuckets]

(***************************************************************************)
(* The program, on the thread of the loop                                    *)
(***************************************************************************)
Init ==
    /\ build \in Builds
    /\ loop = "none" /\ reg = NoReg
    /\ fd = [o \in Objs |-> IF o \in Raws THEN RawFd[o] ELSE 0]
    /\ open = {RawFd[o] : o \in Raws} /\ attached = {}
    /\ count = [o \in Objs |-> 0]
    /\ armed = [t \in Timers |-> "off"] /\ period = [t \in Timers |-> FALSE]
    /\ zero = {} /\ orphans = {}
    /\ asked = [t \in Timers |-> "off"] /\ due = {}
    /\ pc = "idle" /\ batch = <<>> /\ cb = None /\ real = TRUE

Alive(o) == fd[o] # 0

\* The loop is not in a wait: outside of it, or in a callback.
Calls == pc \in {"idle", "callback"}

\* A new descriptor has the lowest number that is free.
NewFd == Min(Fds \ open)

\* pomp_loop_new. When it fails, pomp_loop_destroy and the error path of the implementation leave nothing.
pomp_loop_new ==
    /\ loop = "none"
    /\ loop' = "alive" /\ fd' = [fd EXCEPT ![Idle] = NewFd] /\ open' = open \union {NewFd}
    /\ reg' = pomp_loop_add(NoReg, NewFd, {"IN"}, Idle, FALSE) /\ attached' = attached \union {Idle}
    /\ UNCHANGED <<build, count, armed, period, zero, orphans, asked, due, thread>>

\* pomp_loop_destroy, not from a callback. The idle event is detached by the first call; idle
\* functions (busy) or descriptors that are left make it fail, and the loop goes on.
pomp_loop_destroy(busy) ==
    LET g == IF loop = "alive" THEN pomp_loop_remove(reg, fd[Idle]) ELSE reg IN
    /\ loop # "none" /\ pc = "idle"
    /\ attached' = attached \ {Idle}
    /\ IF busy \/ Registered(g) # <<>>
       THEN /\ loop' = "destroying" /\ reg' = g
            /\ UNCHANGED <<fd, open>>
       ELSE /\ loop' = "none" /\ reg' = NoReg
            /\ fd' = [fd EXCEPT ![Idle] = 0] /\ open' = open \ {fd[Idle]}
    /\ UNCHANGED <<build, count, due, armed, period, zero, orphans, asked, thread>>

pomp_evt_new(e) ==
    /\ ~Alive(e) /\ e # Idle
    /\ fd' = [fd EXCEPT ![e] = NewFd] /\ open' = open \union {NewFd}
    /\ UNCHANGED <<build, loop, reg, attached, count, armed, period, zero, orphans, asked, due, thread>>

\* pomp_evt_destroy: -EBUSY when the event is attached
pomp_evt_destroy(e) ==
    /\ Alive(e) /\ e # Idle /\ e \notin attached
    /\ fd' = [fd EXCEPT ![e] = 0] /\ open' = open \ {fd[e]}
    /\ count' = [count EXCEPT ![e] = 0] /\ due' = due \ {e}
    /\ UNCHANGED <<build, loop, reg, attached, armed, period, zero, orphans, asked, thread>>

\* pomp_evt_attach_to_loop: -EEXIST when the event is attached
pomp_evt_attach_to_loop(e, fails) ==
    /\ Calls /\ loop # "none" /\ Alive(e) /\ e # Idle /\ e \notin attached
    /\ reg' = pomp_loop_add(reg, fd[e], {"IN"}, e, fails)
    /\ attached' = IF fails THEN attached ELSE attached \union {e}
    /\ UNCHANGED <<build, loop, fd, open, count, armed, period, zero, orphans, asked, due, thread>>

\* pomp_evt_detach_from_loop: -ENOENT when the event is not attached
pomp_evt_detach_from_loop(e) ==
    /\ Calls /\ e \in attached \ {Idle}
    /\ reg' = pomp_loop_remove(reg, fd[e]) /\ attached' = attached \ {e}
    /\ UNCHANGED <<build, loop, fd, open, count, armed, period, zero, orphans, asked, due, thread>>

\* The program registers a descriptor of its own, for some events.
AddRaw(o, events, fails) ==
    /\ Calls /\ loop # "none" /\ o \notin attached /\ events # {}
    /\ reg' = pomp_loop_add(reg, fd[o], events, o, fails)
    /\ attached' = IF fails THEN attached ELSE attached \union {o}
    /\ UNCHANGED <<build, loop, fd, open, count, armed, period, zero, orphans, asked, due, thread>>

UpdateRaw(o, events, fails) ==
    /\ Calls /\ o \in attached
    /\ reg' = pomp_loop_update(reg, fd[o], events, fails)
    /\ UNCHANGED <<build, loop, objvars, thread>>

RemoveRaw(o) ==
    /\ Calls /\ o \in attached
    /\ reg' = pomp_loop_remove(reg, fd[o]) /\ attached' = attached \ {o}
    /\ UNCHANGED <<build, loop, fd, open, count, armed, period, zero, orphans, asked, due, thread>>

\* Mutant of pomp_timer_new: the error path does not destroy the timer.
pomp_timer_new_noclean(t, fails, z) ==
    LET g == pomp_loop_add(reg, NewFd, {"IN"}, t, fails) IN
    /\ Calls /\ loop # "none" /\ ~Alive(t)
    /\ reg' = g /\ open' = open \union {NewFd}
    /\ IF fails THEN UNCHANGED <<fd, attached, zero>>
       ELSE /\ fd' = [fd EXCEPT ![t] = NewFd] /\ attached' = attached \union {t}
            /\ zero' = IF z THEN zero \union {t} ELSE zero
    /\ UNCHANGED <<build, loop, count, armed, period, orphans, asked, due, thread>>

\* pomp_timer_new: when the registration fails the timer is destroyed. z: the first POSIX timer of a
\* process gets id 0 from glibc.
pomp_timer_new(t, fails, z) ==
    LET g == pomp_loop_add(reg, NewFd, {"IN"}, t, fails) IN
    /\ Calls /\ loop # "none" /\ ~Alive(t)
    /\ z => build = "posix" /\ zero = {}
    /\ IF fails
       THEN reg' = pomp_loop_remove(g, NewFd) /\ open' = (open \union {NewFd}) \ {NewFd}
                /\ UNCHANGED <<fd, attached, zero>>
       ELSE /\ reg' = g /\ open' = open \union {NewFd}
            /\ fd' = [fd EXCEPT ![t] = NewFd] /\ attached' = attached \union {t}
            /\ zero' = IF z THEN zero \union {t} ELSE zero
    /\ UNCHANGED <<build, loop, count, armed, period, orphans, asked, due, thread>>

\* pomp_timer_destroy, possibly from the timer's own callback. Closing a timerfd or a kqueue ends its
\* kernel timer; a POSIX one is deleted, if its id is not 0.
pomp_timer_destroy(t) ==
    /\ Calls /\ Alive(t)
    /\ reg' = pomp_loop_remove(reg, fd[t]) /\ attached' = attached \ {t}
    /\ fd' = [fd EXCEPT ![t] = 0] /\ open' = open \ {fd[t]}
    /\ count' = [count EXCEPT ![t] = 0] /\ due' = due \ {t}
    /\ orphans' = IF build = "posix" /\ t \in zero THEN orphans \union {t} ELSE orphans
    /\ armed' = [armed EXCEPT ![t] = "off"] /\ period' = [period EXCEPT ![t] = FALSE]
    /\ asked' = [asked EXCEPT ![t] = "off"]
    /\ UNCHANGED <<build, loop, zero, thread>>

(***************************************************************************)
(* Any thread, and the kernel                                               *)
(***************************************************************************)
\* pomp_evt_signal. The counter, or the number of bytes in the pipe, matters only in that it is not 0:
\* all of it is read, and EAGAIN, when it is full, is a success. The idle event is signalled in IdleQueue.
pomp_evt_signal(e) ==
    /\ Alive(e) /\ e # Idle
    /\ count' = [count EXCEPT ![e] = 1] /\ due' = due \union {e}
    /\ UNCHANGED <<build, loop, reg, fd, open, attached, armed, period, zero, orphans, asked, thread>>

\* pomp_evt_clear reads the counter, or all the bytes of the pipe.
pomp_evt_clear(e) ==
    /\ Alive(e) /\ e # Idle
    /\ count' = [count EXCEPT ![e] = 0] /\ due' = due \ {e}
    /\ UNCHANGED <<build, loop, reg, fd, open, attached, armed, period, zero, orphans, asked, thread>>

\* pomp_timer_set, pomp_timer_set_periodic and pomp_timer_clear (mode "off"). The kernel drops the past
\* expirations of a timerfd or a kqueue timer; the bytes in the pipe of a POSIX timer stay.
pomp_timer_set(t, mode) ==
    /\ Alive(t)
    /\ armed' = [armed EXCEPT ![t] = IF build = "bsd" /\ mode = "periodic" THEN "once" ELSE mode]
    /\ period' = [period EXCEPT ![t] = build = "bsd" /\ mode = "periodic"]
    /\ count' = IF build = "posix" THEN count ELSE [count EXCEPT ![t] = 0]
    /\ asked' = [asked EXCEPT ![t] = mode] /\ due' = due \ {t}
    /\ UNCHANGED <<build, loop, reg, fd, open, attached, zero, orphans, thread>>

\* A kernel timer expires. For a POSIX timer pomp_timer_posix_sighandler writes a byte in the pipe.
Expire(t) ==
    /\ Alive(t) /\ armed[t] # "off"
    /\ count' = [count EXCEPT ![t] = Min({@ + 1, MaxCount})]
    /\ armed' = [armed EXCEPT ![t] = IF @ = "once" THEN "off" ELSE @]
    /\ asked' = [asked EXCEPT ![t] = IF @ = "once" /\ ~period[t] THEN "off" ELSE @]
    /\ due' = IF asked[t] = "off" THEN due ELSE due \union {t}
    /\ UNCHANGED <<build, loop, reg, fd, open, attached, period, zero, orphans, thread>>

(***************************************************************************)
(* pomp_loop_wait_and_process                                               *)
(***************************************************************************)
\* The object with descriptor n, and the events of it that are ready: those of the program's own
\* descriptors are given.
ObjectAt(n) == CHOOSE o \in Objs : fd[o] = n
ReadyEvents(n, rawevents) ==
    LET o == ObjectAt(n) IN
    IF o \in Raws THEN rawevents ELSE IF count[o] > 0 THEN {"IN"} ELSE {}

IsReady(r, rawevents) == ReadyEvents(r.fd, rawevents) \intersect r.events # {}
Entry(r) == [fd |-> r.fd, obj |-> ObjectAt(r.fd)]

\* epoll_wait: up to MaxEvents of the descriptors that are ready, in any order
EpollBatches(rawevents) ==
    LET ready == {Entry(r) : r \in {x \in reg.interest : IsReady(x, rawevents)}}
    IN  UNION {Bijection(1 .. Cardinality(s), s) : s \in kSubset(Min({MaxEvents, Cardinality(ready)}), ready)}

\* Mutant of PollArray: the array has no room for the wakeup pipe, and the last descriptor is left out.
PollArrayShort == SubSeq(Registered(reg), 1, reg.pfdcount - 1)

\* The array given to poll, without its first entry, the wakeup pipe
PollArray == SubSeq(Registered(reg), 1, reg.pfdcount)

\* poll: all the descriptors that are ready, in the order of the array; ready[i] are those of its first i
\* entries.
PollBatch(rawevents) ==
    LET array == PollArray
        ready[i \in 0 .. Len(array)] ==
            IF i = 0 THEN <<>>
            ELSE IF IsReady(array[i], rawevents) THEN Append(ready[i - 1], Entry(array[i]))
            ELSE ready[i - 1]
    IN  ready[Len(array)]

Batches(rawevents) == IF build = "linux" THEN EpollBatches(rawevents) ELSE {PollBatch(rawevents)}

Wait ==
    /\ pc = "idle" /\ loop # "none"
    /\ \E rawevents \in SUBSET {"IN", "OUT"} : batch' \in Batches(rawevents)
    /\ batch' # <<>> /\ pc' = "batch"
    /\ UNCHANGED <<build, loop, reg, objvars, cb, real>>

\* Mutant of Lookup: the event holds the address of the object that was registered.
LookupStored(b) == b.obj

\* The object to call for an entry of the batch: its descriptor is looked up when its turn comes.
Lookup(b) ==
    LET i == find_pfd(reg, b.fd) IN IF i = 0 THEN None ELSE reg.pfds[index_fd(b.fd)][i].obj

Call(o) == pc' = "callback" /\ cb' = o /\ real' = (o \in due) /\ due' = due \ {o}
Skip == UNCHANGED <<pc, cb, real, due>>

\* pomp_evt_fd_cb and pomp_evt_posix_cb: the event is cleared first.
evt_cb(e) == count' = [count EXCEPT ![e] = 0] /\ Call(e)

\* Mutant of timer_fd_cb: an empty timer is notified too.
timer_fd_cb_always(t) == count' = [count EXCEPT ![t] = 0] /\ Call(t)

\* pomp_timer_fd_cb: a timer that has been set again or cleared meanwhile reads as EAGAIN.
timer_fd_cb(t) ==
    /\ count' = [count EXCEPT ![t] = 0]
    /\ IF count[t] > 0 THEN Call(t) ELSE Skip

\* pomp_timer_posix_cb reads one byte, and calls back whatever it has read.
timer_posix_cb(t) == count' = [count EXCEPT ![t] = Max({@ - 1, 0})] /\ Call(t)

\* pomp_timer_kqueue_cb up to the look at the period
timer_kqueue_cb(t) ==
    /\ count' = [count EXCEPT ![t] = 0]
    /\ IF count[t] > 0
       THEN pc' = "check" /\ cb' = t /\ real' = (t \in due) /\ due' = due \ {t}
       ELSE Skip

\* One turn of the loop over the batch
Process ==
    LET o == Lookup(Head(batch)) IN
    /\ pc = "batch" /\ batch # <<>> /\ batch' = Tail(batch)
    /\ \/ o = None /\ Skip /\ UNCHANGED count
       \/ o \in Raws /\ pc' = "callback" /\ cb' = o /\ real' = TRUE /\ UNCHANGED <<count, due>>
       \/ o \in Evts /\ evt_cb(o)
       \/ o \in Timers /\ build = "linux" /\ timer_fd_cb(o)
       \/ o \in Timers /\ build = "posix" /\ timer_posix_cb(o)
       \/ o \in Timers /\ build = "bsd" /\ timer_kqueue_cb(o)
    /\ UNCHANGED <<build, loop, reg, fd, open, attached, armed, period, zero, orphans, asked>>

\* timer->period is looked at, then the timer is armed again; another thread may come in between.
CheckPeriod ==
    /\ pc = "check" /\ pc' = IF period[cb] THEN "rearm" ELSE "callback"
    /\ UNCHANGED <<build, loop, reg, objvars, batch, cb, real>>

Rearm ==
    /\ pc = "rearm" /\ pc' = "callback"
    /\ armed' = [armed EXCEPT ![cb] = "periodic"] /\ period' = [period EXCEPT ![cb] = FALSE]
    /\ count' = [count EXCEPT ![cb] = 0]
    /\ UNCHANGED <<build, loop, reg, fd, open, attached, zero, orphans, asked, due, batch, cb, real>>

\* The callback returns: nothing that belongs to the object is touched after it.
CallbackReturn ==
    /\ pc = "callback" /\ pc' = "batch" /\ cb' = None /\ real' = TRUE
    /\ UNCHANGED <<build, loop, reg, objvars, batch>>

EndOfBatch ==
    /\ pc = "batch" /\ batch = <<>> /\ pc' = "idle"
    /\ UNCHANGED <<build, loop, reg, objvars, batch, cb, real>>

LoopThread == Process \/ CheckPeriod \/ Rearm \/ CallbackReturn \/ EndOfBatch

Next ==
    \/ pomp_loop_new
    \/ \E busy \in BOOLEAN : pomp_loop_destroy(busy)
    \/ \E e \in Evts : pomp_evt_new(e)
    \/ \E e \in Evts : pomp_evt_destroy(e)
    \/ \E e \in Evts, fails \in Failures : pomp_evt_attach_to_loop(e, fails)
    \/ \E e \in Evts : pomp_evt_detach_from_loop(e)
    \/ \E o \in Raws, events \in EventSets, fails \in Failures : AddRaw(o, events, fails)
    \/ \E o \in Raws, events \in EventSets, fails \in Failures : UpdateRaw(o, events, fails)
    \/ \E o \in Raws : RemoveRaw(o)
    \/ \E t \in Timers, fails \in Failures, z \in BOOLEAN : pomp_timer_new(t, fails, z)
    \/ \E t \in Timers : pomp_timer_destroy(t)
    \/ \E e \in Evts : pomp_evt_signal(e)
    \/ \E e \in Evts : pomp_evt_clear(e)
    \/ \E t \in Timers, mode \in {"off", "once", "periodic"} : pomp_timer_set(t, mode)
    \/ \E t \in Timers : Expire(t)
    \/ Wait
    \/ LoopThread

Spec == Init /\ [][Next]_vars

\* The program runs the loop for ever, its callbacks return, and epoll_wait leaves out no descriptor for
\* ever: it puts those that it has returned at the end of its list.
Fairness ==
    /\ WF_vars(LoopThread)
    /\ \A o \in (Evts \union Timers) \ {Idle} : SF_vars(Wait /\ \E i \in DOMAIN batch' : batch'[i].obj = o)

FairSpec == Spec /\ Fairness

(***************************************************************************)
(* Properties                                                               *)
(***************************************************************************)
TypeOK ==
    /\ build \in Builds /\ loop \in {"none", "alive", "destroying"}
    /\ fd \in [Objs -> Fds \union {0}] /\ open \subseteq Fds /\ attached \subseteq Objs
    /\ count \in [Objs -> 0 .. MaxCount] /\ due \subseteq Objs
    /\ armed \in [Timers -> {"off", "once", "periodic"}] /\ period \in [Timers -> BOOLEAN]
    /\ asked \in [Timers -> {"off", "once", "periodic"}]
    /\ zero \subseteq Timers /\ orphans \subseteq Timers
    /\ pc \in {"idle", "batch", "check", "rearm", "callback"} /\ cb \in Objs \union {None}

\* The table of the loop, its count and what epoll monitors are the descriptors of the attached objects,
\* each once, in its own bucket, with the same events: whatever fails in epoll_ctl, and however descriptor
\* numbers are used again.
RegisteredExactly ==
    LET list == Registered(reg) IN
    /\ reg.pfdcount = Len(list) /\ Len(list) = Cardinality(attached)
    /\ {<<list[i].fd, list[i].obj>> : i \in DOMAIN list} = {<<fd[o], o>> : o \in attached}
    /\ \A b \in 1 .. NBuckets : \A i \in DOMAIN reg.pfds[b] : index_fd(reg.pfds[b][i].fd) = b
    /\ build = "linux" =>
           reg.interest = {[fd |-> list[i].fd, events |-> list[i].events] : i \in DOMAIN list}

\* The open descriptors are those of the objects, no two objects have the same one, and a timer of the
\* kernel is gone with its object: the only one that is not is the POSIX timer with id 0.
DescriptorsOwned ==
    /\ open = {fd[o] : o \in {x \in Objs : Alive(x)}}
    /\ \A o, p \in Objs : Alive(o) /\ fd[o] = fd[p] => o = p
    /\ attached \subseteq {o \in Objs : Alive(o)}
    /\ orphans \subseteq zero

\* No object is called once it is detached or destroyed, even when its events are in the batch: a callback
\* starts only for an object that is attached at this moment.
NoCallbackAfterDetach == [][cb' # cb /\ cb' # None => cb' \in attached]_vars

\* A timer over timerfd calls back only if it has expired since it was last set or cleared, even by
\* another thread while the batch is processed, or under a descriptor number that was in the batch for
\* another object.
TimerCallbackDue == build = "linux" /\ pc = "callback" => cb \notin Timers \/ real

\* What is signalled or has expired is handled: an attached event or timer is called back, unless it is
\* cleared, set again or detached first. (For a kqueue timer that another thread sets while its callback
\* arms it again this is not so.)
DueHandled ==
    \A o \in (Evts \union Timers) \ {Idle} :
        o \in due /\ o \in attached /\ (o \in Timers => build # "bsd") ~> o \notin due \/ o \notin attached

=============================================================================
