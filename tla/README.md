# libpomp: a TLA+ model of the library

libpomp is an event loop and, on top of it, a messaging library: a context
listens, connects or binds, each of its connections cuts a byte stream into
messages, and the program is called back for messages, connections,
disconnections and completed sends. Most of it runs in the thread that
processes the loop. What is hard in it is of two kinds: a few functions that
any thread may call (idle functions, events, the lock of the loop, the
watchdog's own thread), and callbacks that call the library back while one of
its functions is half way through its work.

The modules here are translated from `src/src/*.c`: the Linux implementations
(epoll, eventfd, timerfd) everywhere, and in `Dispatch` the POSIX and BSD ones
too (poll, pipes, POSIX timers, kqueue). `PROJECT.json` maps every definition to
its lines.

## 1. Inventory

| part | state | operations | what is hard | what must hold |
|---|---|---|---|---|
| loop synchronisation (`pomp_loop_sync.c`, `pomp_loop.c`) | owner, recursion count, count of waiters, two conditions, wakeup eventfd, `loop->owner` | `pomp_loop_lock`, `_unlock`, `_wait_and_process`, `_wakeup` | one signal per release, newcomers that take the loop before the woken thread, spurious wakeups, a loop thread that re-takes the loop at once | exclusion, no lost release or wakeup, both sides get the loop, callbacks run in the owner |
| idle functions (`pomp_loop.c`) | list of entries, `idle_evt` | add, remove, flush (with cookies too), dispatch | callbacks run unlocked; signal outside of the lock, clear inside; nested flushes | nothing lost, nothing run twice or after its removal, order |
| events (`pomp_evt*.c`) | eventfd or pipe, attached loop | new, destroy, attach, detach, signal, clear | signals from any thread against clears; objects destroyed by callbacks | a signal is not lost, a detached event is not called |
| watchdog (`pomp_watchdog.c`) | flags, deadline, batch counter, a thread | enable, disable, enter, leave, thread | a timeout that races the end of a batch; settings stored after the thread exists; join | only a late batch is reported, once, and always |
| loop registrations (`pomp_loop.c`, `pomp_loop_linux.c`, `_posix.c`) | hash table of descriptors, epoll set | add, update, remove, dispatch of a batch | callbacks that change the table while a batch is dispatched, numbers of descriptors used again, `epoll_ctl` that fails | the table is exact, a removed object is not called, what is ready is handled |
| timers (`pomp_timer*.c`) | timerfd, POSIX timer and pipe, kqueue | new, destroy, set, clear, expiry | set and clear against an expiry that is pending | only real expirations are notified |
| connection, sending (`pomp_conn.c`) | queue of buffers, list of deferred notifications, flags | send, write when writable, disconnect, close | partial writes; notifications deferred while others are immediate; re-entrancy | bytes in order, one true notification per buffer, in order, none after the close |
| connection, receiving (`pomp_conn.c`) | read buffer, suspended flag | read, suspend, resume, close | messages cut anywhere; callbacks that suspend | the same messages for any chunking |
| received descriptors (`pomp_conn.c`) | two tables | receive, fix up, discard | descriptors arrive ahead of their message | each goes to its message, or is closed once |
| context (`pomp_ctx.c`) | address, sockets, connections, `stopping`, `notifying`, timer | listen, connect, bind, stop, accept, complete, reconnect, remove | stop from a callback is deferred; reconnect timer against stop; failures of a start | connected and disconnected events pair up; at most `max_conn_count`; a client that lost its server comes back |
| protocol decoder (`pomp_prot.c`) | state, header, partial message | decode, release | resynchronisation on a bad magic | a well-formed stream gives its messages |
| buffers and messages (`pomp_buffer.c`, `pomp_msg.c`) | reference count, data, descriptors, id, finished | ref, unref, write, copy, register a descriptor, init, finish, clear | buffers shared with send queues and other threads; ownership of descriptors | exact counts, no change of shared data, a descriptor is closed once, true headers |
| codec (`pomp_encoder.c`, `pomp_decoder.c`) | position in a payload, strings allocated | write and read of each type, by formats, walk, dump | variable-length integers at their limits, truncation, errors half way | what is written is read back, no string is lost, a dump is complete |
| addresses, logs, Windows port | - | - | text, output, another API | not modelled |

How they interact: `wait_and_process` takes the lock of the loop, waits, enters
the watchdog, dispatches the descriptors (connections, sockets, timers, events,
the idle event) and leaves the watchdog. Connections defer their send
notifications, and contexts their stop, to the idle functions. Contexts create
and remove connections and restart themselves from a timer.

## 2. Plan

Done: `LoopSync` (and `RecursiveLock`, which it implements), `IdleQueue`,
`Watchdog`, `ConnSend`, `Ctx`, `ConnRecv` with `Prot`, `Buffer`, `Codec`,
`Dispatch`, and proofs about all of them but `Codec`: every invariant and every
action property that a passing run checks is proved, except those of `Codec`
and, on a stream, of `DeliveredAsSent` the part that section 5 names.

What would come next:

1. The first message after stray bytes (`DeliveredAsSent` when `junk` is not
   empty), which is only model-checked.
2. `ConnSend` and `Ctx` composed over `IdleQueue`, for a stop that is deferred
   and a flush that runs it.
3. Failures of allocations on the sending side.

## 3. Modules

A module's comments name the functions that its actions model. What a thread
does between two points at which another one, or a callback, can interfere is
one action.

**LoopSync.** State: the fields of `struct pomp_loop_sync`, who sleeps on which
condition, the wakeup eventfd, `loop->owner`, where each thread is. `SyncLock`
is `pomp_loop_sync_lock` up to its return or its first sleep; `ResumeWaiters`
and `ResumeCount` go on after a sleep; `SyncUnlock` is `pomp_loop_sync_unlock`,
with its `-EPERM`. The writes of `loop->owner`, which the code makes outside of
the mutex, are actions of their own. Callbacks of the loop are the loop
thread's own code and may lock again. `depth` counts what each thread was
granted: it is what `RecursiveLock` sees. Initial states are those of a loop
with its synchronisation enabled. `wait_and_process` is called by one thread,
not from a callback and not with the loop locked.

**IdleQueue.** State: the list, `idle_evt`, and for each thread the stack of
flushes and dispatches it has in progress. Entries are numbered in the order
they are registered. As entries are only ever appended, the order of the list
is the order of the numbers, and the list is a set. `Add` is the part of
`idle_add` under the lock and `AddSignal` the signal that follows. The dispatch
of `idle_evt` is `EvtReady`, `EvtClear`, `EvtPop`/`EvtEmpty`, the callback,
`EvtRecheck`. `Destroy` is called when no other thread is in the loop, as its
documentation asks.

**Watchdog.** State: the fields of `struct pomp_watchdog`, the clock, where the
two threads are, and for the properties the batch in progress. `Monotonic`
chooses the clock of the condition (a build switch): without it
`pthread_cond_timedwait` may expire at any time. `DisableInside` says whether
callbacks disable the watchdog. Enabling it from a callback is always possible.

**ConnSend.** State: the queue, the deferred notifications as the connection
and as the loop list them, the flags, and the stack of the functions in
progress. The socket takes any number of bytes; `wire` is what it took. A
program called back may send, disconnect and flush the idle functions. The
context is stopped, which removes the connection, from outside of callbacks; a
stop from a callback is deferred to such a moment by `pomp_ctx_stop`, unless
the program also flushes (see `Ctx`).

**Ctx.** State: the fields of `struct pomp_ctx` that decide (`addr` is whether
it is set), whether the socket is open and the timer set, the list of
connections, the number of deferred stops, and the stack of the functions in
progress, as in `ConnSend`. A start gives a socket, sets the timer, or fails;
`Start` and `TimerCb` share the three start functions and differ in what they
do with the result. `RemoveConn` is `pomp_ctx_remove_conn` up to its callback,
`CloseEnd` the rest. The list of a server is a set: new connections go to the
head and have greater numbers, so its first one is the greatest. Steps that
change nothing (a stop of a stopped context, a peer above the maximum) are left
out. Callbacks start and stop; they do not flush the idle functions. Three
variables are history: `seen` (the events told), `freed`, and `failed` (a start
from the timer failed), the only excuse that `Reconnects` allows.

**Prot** and **ConnRecv.** `Prot` is the state machine of `pomp_prot_decode_msg`
as a function of the decoder's state and the bytes at hand: `decode_msg` takes
turns until a message is complete or nothing is left. A header is its magic
bytes, an id and a length; an argument is one byte. `ConnRecv` reads the socket
and calls it. State: what the peer sends and how far it is read, the read
buffer, the decoder, the two tables of descriptors, the message of the decoder
with its descriptors (`held`) and those of messages that the program keeps
(`kept`). A read returns any number of bytes; on a local socket the kernel gives
the descriptors of a message with its first byte, and at most those of one
message per read. `Recv`, `RecvDgram`, `WouldBlock` and `Eof` are one call of
the read functions each, `Decode` one turn of `pomp_conn_process_read_buf` with
the fix-up of the message, `EndDecode` its end. The peer may describe
descriptors that it does not send, send some that it does not describe, and
begin with stray bytes. Datagrams are lost, repeated and reordered. The loop of
`decode_msg` (`LoopTurn`, once per turn) and the stream after each message
(`UpTo`) are recursive functions.

**Buffer.** State: for each buffer its count, arguments, header, capacity and
descriptors; for each holder (a message, or a *slot*: any other reference) which
buffer it has. `pomp_msg_init` and `pomp_msg_clear_partial` test the reference
count and then act on it; the test and the two sequels are steps of their own,
so that another thread releases its reference in between. The reference count
itself is atomic, as in the code. An argument is one symbol. A program does not
write to a message while another thread does (no function here takes a lock).
`seen` is history: the content that a holder last wrote or was given.

**Codec.** State: the bytes of a message, the descriptors in it, the position
of the decoder, the strings that were allocated. Integers keep their width in
bytes, and a byte has `ByteBits` bits. `pomp_encoder_writev` is one conversion
of a format, or one call of a typed function; `pomp_decoder_read` is a typed
read with its rewind; `pomp_decoder_readv`, `ReadvConversion` and `ReadvEnd` are
a read by a format, whose conversions need not fit the message. A dump is
modelled by the lengths of its texts, against those that the code declares.

**Dispatch.** State: the table and its count, what epoll monitors (`interest`),
the descriptor of each object, which are open, what is attached, the counters of
eventfds, pipes and timers, and the batch in progress. New descriptors get the
lowest number that is free, so that numbers are used again at once. Any operation may
come between two entries of a batch when a callback runs (`Calls`), and other
threads signal events and set timers at any time. `Wait` is `epoll_wait` or
`poll`; `Process` takes the next entry, looks it up and calls the callback of
the event, timer or descriptor. `build` is chosen once among Linux, POSIX and
BSD. `due` and `asked` are history: what has been signalled or has expired and
not been handled, and the last setting of a timer.

## 4. Runs

| run | bounds | states | what it shows |
|---|---|---|---|
| `loop_sync` | loop thread and 2 others, 3 lock calls each, nested twice, one stray unlock caller | 53 325 | the properties of `LoopSync`, deadlock included |
| `idle_queue` | 2 threads, both flush, 2 entries, 2 keys, 1 cookie, 2 nested calls | 128 400 | the properties of `IdleQueue` |
| `watchdog` | 2 delays, clock to 4, 3 batches, 2 starts, waits that expire early | 33 506 | the properties of `Watchdog`, with callbacks that do not disable it |
| `conn_send` | 3 buffers of 2 bytes, 3 nested functions | 15 120 | the properties of `ConnSend` |
| `ctx` | 3 types, 6 connections in all, maximum 2 | 8 695 | the properties of `Ctx` |
| `conn_recv` | 3 messages of 4 shapes, 2 descriptors, reads of 1 to 8 bytes, 2 datagrams | 418 748 | the properties of `ConnRecv` |
| `buffer` | 2 buffers, 2 messages, 2 slots, 2 descriptors, 1 argument; buffers, slots and descriptors are symmetric | 1 071 784 | the properties of `Buffer` |
| `codec` | 2 arguments of 13 types at the ends of their ranges, cuts in the first 9 bytes, one string per format | 207 893 | the properties of `Codec` |
| `dispatch` | the idle event, an event, a timer and a descriptor, 2 buckets, batches of 2, 3 builds | 360 600 | the properties of `Dispatch`, deadlock included |
| `watchdog_disable` | callbacks disable the watchdog | - | violated: a late report for a batch that is over |
| `ctx_retry` | 3 connections | - | violated: a start from the timer fails and the client tries no more |
| `codec_dump` | as `codec` | - | violated: an allocated dump that ends in the middle of a string |

Why the bounds are enough for what the runs are for. `loop_sync`: two lockers
make a newcomer overtake a woken thread, and with the loop thread both
conditions are used. `idle_queue`: two entries are one to be taken and one left
behind, two threads and two levels give a flush inside a callback of a flush.
`watchdog`: three batches separate the one that expired, the next one and one
after a restart. `conn_send`: with two bytes a write stops inside of a buffer,
three buffers give one written, one partial and one waiting. `ctx`: six
connections fill a server of two, replace one of them, and leave some for a
second life of the context with another type. `conn_recv`: reads end everywhere
in a header and a payload and a read of eight bytes spans two messages; three
messages use both tables and force the discard. `buffer`: two buffers let a
message leave a shared one, two descriptors tell a copy from its source, and the
proof covers the rest. `codec`: two arguments are one that is read wrongly and
one that follows; with bytes of 4 bits a 64-bit integer still takes ten groups,
and the length of a string is at its limit at 254. `dispatch`: two buckets and
four descriptors collide, a batch of two has one entry that is changed by the
callback of the other, and one that is left for the next batch.

`CHECK_DEADLOCK FALSE` is set where the program may stop for good: a loop that
is freed, a connection that is closed, a message that is read, bounds that are
used up.

### Properties

`LoopSync`. `RefinesLock`: the loop is a recursive lock. `NoLostRelease`,
`WakeupPending`: the two ways in which a sleeper could be forgotten.
`LockReturns`, `ProcessingStarts`: neither side is kept out. (`MutualExclusion`
and `CallbackOwner` are proved.)

`IdleQueue`. `NoLostIdle`: entries in the list always have something that will
wake the loop. `OnlyOnce`, `RemoveIsFinal`, `CookieOrder`: what a caller is
promised for an entry. `IdleRuns`: an entry leaves the list in the end.

`Watchdog`. `ExpiryIsReal`, `OncePerBlock`: what is reported. `StuckIsReported`,
`StopReturns`: a late batch is reported, and a join comes to its end.
(`WaitIsCurrent` and `FunctionSet` are proved.)

`ConnSend`. `WireInOrder`: the peer sees the accepted bytes in order.
`NotifiedInOrder`, `StatusIsTrue`, `AllNotified`: one notification per buffer,
in order, true, in the end. `ClosedIsClean`: nothing after the close.

`Ctx`. `EventsPaired`: the program knows exactly the connections of the list.
`InUseNotFreed`: what the deferral of stops is for. `StoppedIsQuiet`: nothing is
left after a stop. `StopCompletes`, `Reconnects`: a stop ends, a client comes
back unless a start from its timer failed.

`ConnRecv`. `DeliveredAsSent`: for any chunking the program gets the messages
that were sent, in order, each with its own descriptors. After stray bytes the
first message may be lost, as its own magic byte may be taken for the second one
of the stray header. `FdsAccounted`: each descriptor received is in one place, or
closed once. `SuspendedReadsNothing`: suspending takes effect within the reading
loop. `AllDelivered`: the decoder never gets stuck.

`Buffer`. `RefsMatch`: counts are exact. `FdsOwned`: each descriptor has one
owner. `HolderUndisturbed`: what is shared does not change. `FinishedIsSound`:
the header of a finished message is true.

`Codec`. `RoundTrip`: what is read is what was written, and after any failed
read by type or format the next argument is still readable. `StringsOwned`:
allocated strings are those the program has. `DumpShown`: a dump into a given
destination shows all that fits.

`Dispatch`. `RegisteredExactly`: table, count and epoll agree with what is
attached, whatever fails. `DescriptorsOwned`: nothing is leaked or shared.
`NoCallbackAfterDetach`, `TimerCallbackDue`: no callback from a stale entry of a
batch. `DueHandled`: what is signalled or expired is handled.

`TypeOK` is defined in each module, and proved for `LoopSync`, `IdleQueue`,
`Watchdog`, `Buffer`, `Ctx`, `ConnSend` and `ConnRecv`.

### Fairness

`LoopSync`: a runnable thread is scheduled and gets the mutex, a thread that
locked the loop unlocks it, the loop thread leaves its wait when the wakeup is
readable. No fairness for calls, for other events or for spurious wakeups. That
a woken thread gets the loop needs no strong fairness because each thread makes
at most `MaxCalls` calls: under an endless stream of lockers POSIX conditions
promise nothing.

`IdleQueue`: threads are scheduled, callbacks return (strong: a callback may
first call other functions of the loop), the loop thread returns to its wait.

`Watchdog`: the thread is scheduled and its function returns; spurious wakeups
do not prevent a timeout for ever. Time and batches need not advance.

`ConnSend`: functions return, the loop runs its idle entries, and a monitored
socket is reported writable again and again, and then takes data, or fails. This
is the peer that keeps reading; without it a queue stays as it is.

`Ctx`: functions end, callbacks return, the loop reaches its idle functions
(strong: other events come in between). For `Reconnects` a peer that is tried
for ever answers once (strong fairness of `Complete`, and of the outcomes of
`TimerCb` other than another delay): this is the environment's share.

`ConnRecv`: the loop calls a connection that has something to read, functions
end, and a connection with `removeflag` is removed. None for the program, the
peer or the kernel's choice of lengths.

`Dispatch`: the program runs its loop and its callbacks return (weak); a
descriptor that stays ready is in a batch again and again (strong, per object):
epoll puts what it has returned at the end of its list, and poll returns all.

## 5. Proofs

TLAPS proves, for any sets of threads, entries, delays and any bounds:

`LoopSyncProofs`: `TypeOK`, `MutualExclusion`, `NoLostRelease`,
`WakeupPending`, `CallbackOwner` and `RefinesLock`. Assumptions: the constants'
(`ThreadsAssumption`, `BoundsAssumption`). Exclusion is not inductive: it needs
that `depth` is the count of the owner and zero for the others (`HolderInv`),
that each place in the code agrees with what the thread holds (`PlaceInv`) and
where sleepers are (`WaitersInv`). `NoLostRelease` holds because a release with
sleepers wakes one of them, and a thread on its way either takes the loop, so
`count` is not 0, or sleeps again because another one took it. `WakeupInv`
extends `WakeupPending` to the steps before the wait: a sleeper has its wakeup
pending unless the loop thread has just read it and is about to run callbacks
and release. `OwnerInv` relates `waiter` and `current` to the place of the loop
thread. The refinement follows step by step with `held <- depth`.

`IdleQueueProofs`: `TypeOK`, `NoLostIdle`, `OnlyOnce`, `RemoveIsFinal`,
`CookieOrder`. `StackInv` gives the shape of the stacks (only the top is not in
a callback, the loop's dispatch is at the bottom), `ListInv` that listed
entries were neither called nor removed, `FlightInv` that an entry in flight is
held by one call of one thread and is no longer in the list, `OrderInv` that
what a thread called precedes, within a cookie, what it holds and what is
listed.

`WatchdogProofs`: `TypeOK`, `OncePerBlock`, `WaitIsCurrent` without condition;
`ExpiryIsReal` and `FunctionSet` when callbacks do not disable the watchdog
(`~DisableInside`), which the run `watchdog_disable` shows to be needed.
`LifeInv` ties the thread to the flags, `FiredInv` the report to `monitoring`,
`SeenInv` what the thread remembers to the counter and the deadline, `BlockInv`
the deadline to the batch.

`BufferProofs`: `TypeOK`, `RefsMatch`, `FdsOwned`, `HolderUndisturbed` and
`FinishedIsSound`, for any numbers of buffers, messages, references,
descriptors and arguments. The first four are proved together (`Inv`): the
counts say who may write, which is why nobody is disturbed. What has to be added
is `StepInv`, what a message still knows between the test of a reference count
and the act: the one that saw a count of 1 still has the only reference, because
references are made only by a holder and the only holder is busy. (`Owned` is
`FdsOwned` element by element.) `FinishedIsSound` is proved as `FinishedKnown`,
a statement on what the holder of a finished message has last seen: by
`HolderUndisturbed` this is what is in the buffer, and only its own steps change
it.

`DispatchProofs`: `DescriptorsOwned`, `TimerCallbackDue`, `RegisteredExactly`
and `NoCallbackAfterDetach`, on all three builds. `OwnInv` adds to ownership
that what is attached is alive, that the idle event lives exactly as long as the
loop, and which timers can be orphans. `TimerInv` relates the counter of a timer
to `due` and its arming to its last setting. For the table, `Good` says that a
bucket holds attached objects only, with their present descriptors, which fall
in this bucket, each once; `Exact` that the entries (`Ent`) are all the attached
objects, that `pfdcount` is their number and that epoll watches them with their
events. `RegInv` is `Exact` of the present table. `pomp_loop_add`, `_remove` and
`_update` preserve it, failures of `epoll_ctl` included (`ExactAdd`,
`ExactRemove`, `ExactUpdate`). `RegisteredExactly` speaks of the list of all
buckets, one after the other: `RegisteredLists` shows that it has each entry
once. A lookup that finds an entry finds an attached object, however old the
batch is, so that `NoCallbackAfterDetach` needs of the batch only its type
(`BatchInv`), for epoll (`EpollBatch`) and for poll (`PollBatchIs`).
Assumptions: `Bounds`, `EventNames`, `Sorts` and `ObjsFinite`, which say that
the constants are of the right kind.

`CtxProofs`: `TypeOK`, `EventsPaired`, `InUseNotFreed`, `StoppedIsQuiet`, and
`FreedAndCounted` (nothing is freed with its end untold; `conncount` of a server
is the length of its list), for any maximum and any number of connections.
Assumption: `SetupAssumption`. The stack is what makes the proof: callbacks
start and stop, a stop is deferred while one runs, and so there are nine stacks
only (`Stack`), with at most one callback, the innermost call (`StackInv`).
`During` says what each of them implies: whose connection it is about, that it
is not freed, whether it is still in the list, whether a stop is under way.
`ConnsInv` relates list, socket and timer for each type (a client has never both
a socket and a timer), `SeenInv` the events told to the list, `IdleInv` the
deferred stop to `stopping`. The pairing of events rests on `RemoveConn` taking
a connection out of the list in the step that tells its end, and `InUseNotFreed`
on the only function that frees, the end of a removal, being the innermost one.

`ConnSendProofs`: `TypeOK`, `WireInOrder`, `NotifiedInOrder`, `StatusIsTrue`,
`ClosedIsClean`, and `NoneIsLost` (the buffers accepted are those notified, then
those that wait in the loop, then the queue; the idle entries of the loop are
those that wait), for any lengths, number of buffers and nesting. Assumptions:
`LengthsAssumption`, `BoundsAssumption`. `Ordered` is that partition with the
ranks of the buffers in it; `Taken` says that the wire is the first `t` buffers
and `k` bytes of the next one. `WireInv` ties the two: `t` is where the queue
begins and `k` the offset of its first entry, until `pomp_conn_close` starts to
abort (`Aborting`); from then on the wire stands still, and what is notified
beyond `t` is aborted. `ShutInv` is why that point is final: a connection that
is closing is shut down, so nothing is accepted or written, and what waited in
the loop has been notified before the first abort. Lemmas on constants
(`Longer`, `Written`, `NotifyOldest`, `Dequeue`, `AcceptWhole`, `AcceptQueued`,
`AdvanceFirst`, `WithoutFirst`) do the work on sequences; the actions cite them.

`ConnRecvProofs`: `TypeOK`, `FdsAccounted`, `SuspendedReadsNothing`, and
`DeliveredAsSent` for raw connections, for datagrams and for clear streams, for
any shapes and number of messages, any cut into reads, any number of descriptors
and of datagrams. Assumptions: `Peer` and `Bounds`, that the constants are of the
right kind.

- The decoder. `Sound` is what the decoder's state always satisfies, `Going` what
  holds between two turns of `decode_msg`: the bytes used and those left are the
  input. Each turn uses a byte at least, so that the loop ends.
- `RecvInv`: the descriptors received so far are `1 .. Received(pos)`, and each is
  in one of the tables, in the message of the decoder, with the program, or was
  closed once (`Places`, by `Account` and `Move`). The walk of
  `pomp_conn_fixup_rx_fds` and the discard of a table are the two steps that move
  several at once.
- `Flow` says where the decoder is in what was sent. On a stream (`StreamAt`) the
  bytes decoded end `k` bytes after the end of message `m`; the decoder's state is
  that of a decoder that has seen the first `k` bytes of message `m + 1` (`At`,
  `Framed`); the read buffer is the part of the stream that follows (`Window`);
  what was delivered is exactly `m` messages with those the walk refuses left
  out; and, when the peer describes exactly the descriptors it sends (`Exact`),
  the two tables are the descriptors of the messages that have begun to arrive
  and are not decoded yet, the oldest first (`Pending`, `TablesAre`). A decoder fed
  with any piece of such a stream is again in such a state (`TurnInside`,
  `DecodeInside`, `DecodeFramed`): this is why the cut does not matter. Datagrams
  (`DgramFlow`) begin with a fresh decoder each; raw connections (`RawFlow`) pass
  the bytes on.
- `Clear` is the hypothesis on a stream: no stray bytes, and messages in which no
  descriptor comes before the first argument of an unknown type. When one does
  and is missing, the walk stops there with success and the message is delivered
  although it cannot be decoded. Stray bytes are model-checked only, for those of
  the run: there are others that look like a header, and hide more than one
  message.

Two of these proofs need induction over data. The library's induction theorems
take an operator as a parameter, which the provers cannot instantiate; the
lemmas `Induction` and `Recursion` of `DispatchProofs` and `ConnRecvProofs` take
a set and functions instead: a set of numbers that contains the first and with
`n` also `n + 1` contains them all, and a function given by its first value and
a step from each value to the next exists. They are what is known of the folds
of the poll batch, of the list of registrations, of `UpTo` and of the loop of
`decode_msg`.

Only model-checked:

- All the liveness properties (`LockReturns`, `ProcessingStarts`, `IdleRuns`,
  `StuckIsReported`, `StopReturns`, `AllNotified`, `StopCompletes`, `Reconnects`,
  `AllDelivered`, `DueHandled`): the prover has no rules for fairness and
  `ENABLED`.
- `Codec` (`RoundTrip`, `StringsOwned`, `DumpShown`): variable-length integers,
  formats and dumps are `RECURSIVE` operators over data, in whose presence the
  prover has no arithmetic.
- `DeliveredAsSent` on a stream that is not `Clear`.

## 6. Not modelled

- The Windows port: other files, another API, no thread synchronisation and no
  watchdog. Addresses (`pomp_addr.c`) and logs: text without state. The command
  line tool, the examples and the tests use the library and are no part of it.
- Text converted to numbers by `pomp_encoder_write_argv`; the bytes of a dump.
- In a context: changes of its settings while it is started, calls made by the
  socket callback, sends to all connections, callbacks that flush the idle
  functions.
- On connections: datagram sends, descriptors sent with a buffer, descriptors on
  a local datagram socket.
- Failures of allocations, except those of `Buffer` and `Codec`; of
  `pthread_create`; of system calls that cannot fail in the states modelled.
- The 32-bit wrap of the watchdog's counter of batches: a wait would have to
  span exactly 2^32 batches.
- Two threads that process the same loop: each would count the other as a
  waiter and both would sleep. The documentation asks for one.

### Observations

Disagreements between the code and its documentation that a run shows are in
`PROJECT.json` under `findings`. The following came up in reading and are not
stated as properties:

- `pomp_loop_unlock` sets `owner.current` to the waiter at every call, also when
  the caller still holds the loop (`pomp_loop.c:850`).
- A flush of the idle functions in another thread may call an entry after a later
  one (`pomp_loop.c:742`). `CookieOrder` holds per thread.
- When a flush returns, another thread may have taken an entry and not called it
  yet (`pomp_loop.c:755`).
- A stop asked for in a callback that then flushes the idle functions runs inside
  the callback (`pomp_ctx.c:1259`).
- `QUEUE_EMPTY` is computed before its notification is deferred
  (`pomp_conn.c:970`).
- A message with fewer descriptors than it describes is delivered, with the
  missing ones marked invalid; the comment at `pomp_conn.c:524` says "only if
  file descriptor fixup is OK".
- `pomp_buffer_set_len` below the place of a descriptor keeps the descriptor;
  a failed `pomp_buffer_write_fd` leaves the position advanced.
- A POSIX timer calls back for an expiration before a clear
  (`pomp_timer_posix.c:211`), and is not deleted when its id is 0
  (`pomp_timer_posix.c:95`); `DescriptorsOwned` names this exception.
- A kqueue timer that is set by another thread while its callback arms it again
  loses the setting (`pomp_timer_kqueue.c:60`); `DueHandled` leaves it out.
