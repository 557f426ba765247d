------------------------------- MODULE Buffer -------------------------------
(***************************************************************************)
(* Reference counted buffers (pomp_buffer.c) and the messages built on them  *)
(* (pomp_msg.c).                                                            *)
(*                                                                          *)
(* A holder is whoever has a reference on a buffer: a message, or a slot,    *)
(* which is a reference of the program (in any thread), an entry of a send   *)
(* queue or the read buffer of a connection. A buffer with one reference may *)
(* be written by its holder, a shared one by nobody. A buffer owns the       *)
(* descriptors put in it and closes them when it is cleared.                *)
(*                                                                          *)
(* An argument is one symbol and the header of a message another one, which  *)
(* stands in front of the arguments.                                        *)
(***************************************************************************)
EXTENDS Integers, Sequences, FiniteSets

CONSTANTS Bufs, Msgs, Slots, Fds,    \* buffers, messages, slots, descriptors
          Ids, Vals,                 \* message ids, values of an argument
          NULL,
          MaxFdCount,                \* POMP_BUFFER_MAX_FD_COUNT
          AllocStep,                 \* POMP_BUFFER_ALLOC_STEP
          MaxReuse,                  \* POMP_BUFFER_MAX_REUSE_CAPACITY
          MaxArgs                    \* bound on the number of arguments written in a buffer

Holders == Msgs \union Slots

ASSUME HoldersFinite == IsFiniteSet(Holders)
ASSUME MsgsAreNotSlots == Msgs \intersect Slots = {}
ASSUME NullIsNoBuf == NULL \notin Bufs
ASSUME Sizes == MaxFdCount \in Nat /\ AllocStep \in Nat \ {0} /\ MaxReuse \in Nat \ {0} /\ MaxArgs \in Nat

VARIABLES
    refcount,    \* of each buffer, 0 when it is not allocated
    hdr,         \* the header written in each buffer, NoHdr before
    args,        \* the arguments written after it
    capacity,    \* the allocated size
    fds,         \* the descriptors put in it: [off, fd], fdoffs and the value at that offset
    open,        \* the descriptors that are open (of those made by dup)
    holds,       \* the buffer of each holder or NULL: msg->buf for a message
    msgid, finished,   \* of each message
    step, init,  \* where pomp_msg_init or pomp_msg_clear_partial is for each message, and which
    seen         \* what each holder wrote in its buffer, or saw when it got it

bufs == <<refcount, hdr, args, capacity, fds, open>>
msgs == <<msgid, finished, step, init>>
vars == <<bufs, holds, msgs, seen>>

NoHdr == [id |-> NULL, len |-> 0]
HeaderSize == 1

\* The used length: the place of the header is there as soon as something is written.
LenOf(h, a) == IF h = NoHdr /\ a = <<>> THEN 0 ELSE HeaderSize + Len(a)
BufLen(b) == LenOf(hdr[b], args[b])

Content(b) == [hdr |-> hdr[b], args |-> args[b], fds |-> fds[b]]
Empty == [hdr |-> NoHdr, args |-> <<>>, fds |-> {}]

FdsIn(s) == {r.fd : r \in s}
Free == {b \in Bufs : refcount[b] = 0}

\* POMP_BUFFER_ALIGN_ALLOC_SIZE
Align(n) == ((n + AllocStep - 1) \div AllocStep) * AllocStep

\* pomp_buffer_ensure_capacity for a buffer of the given capacity
Ensure(n, cap) == IF n > cap THEN Align(n) ELSE cap

Init ==
    /\ refcount = [b \in Bufs |-> 0]
    /\ hdr = [b \in Bufs |-> NoHdr] /\ args = [b \in Bufs |-> <<>>]
    /\ capacity = [b \in Bufs |-> 0]
    /\ fds = [b \in Bufs |-> {}] /\ open = {}
    /\ holds = [h \in Holders |-> NULL]
    /\ msgid = [m \in Msgs |-> NULL] /\ finished = [m \in Msgs |-> FALSE]
    /\ step = [m \in Msgs |-> "idle"] /\ init = [m \in Msgs |-> FALSE]
    /\ seen = [h \in Holders |-> Empty]

Idle(h) == h \in Msgs => step[h] = "idle"

(***************************************************************************)
(* References                                                               *)
(***************************************************************************)
\* Holder h gets the new buffer b, with what is in it.
NewBuffer(h, b, cap, content) ==
    /\ b \in Free
    /\ refcount' = [refcount EXCEPT ![b] = 1]
    /\ hdr' = [hdr EXCEPT ![b] = content.hdr] /\ args' = [args EXCEPT ![b] = content.args]
    /\ fds' = [fds EXCEPT ![b] = content.fds]
    /\ capacity' = [capacity EXCEPT ![b] = cap]
    /\ holds' = [holds EXCEPT ![h] = b]
    /\ seen' = [seen EXCEPT ![h] = content]

\* pomp_buffer_clear_partial when it keeps the allocated data: what is above MaxReuse is given
\* back, unless realloc fails.
ClearPartial(h, b) ==
    /\ hdr' = [hdr EXCEPT ![b] = NoHdr] /\ args' = [args EXCEPT ![b] = <<>>]
    /\ open' = open \ FdsIn(fds[b]) /\ fds' = [fds EXCEPT ![b] = {}]
    /\ \E c \in {capacity[b], IF capacity[b] > MaxReuse THEN MaxReuse ELSE capacity[b]} :
           capacity' = [capacity EXCEPT ![b] = c]
    /\ seen' = [seen EXCEPT ![h] = Empty]
    /\ UNCHANGED refcount

\* pomp_buffer_unref: the last reference clears the buffer and frees it
Unref(h) ==
    LET b == holds[h] IN
    /\ refcount' = [refcount EXCEPT ![b] = @ - 1]
    /\ holds' = [holds EXCEPT ![h] = NULL] /\ seen' = [seen EXCEPT ![h] = Empty]
    /\ IF refcount[b] = 1
       THEN /\ hdr' = [hdr EXCEPT ![b] = NoHdr] /\ args' = [args EXCEPT ![b] = <<>>]
            /\ capacity' = [capacity EXCEPT ![b] = 0]
            /\ open' = open \ FdsIn(fds[b]) /\ fds' = [fds EXCEPT ![b] = {}]
       ELSE UNCHANGED <<hdr, args, capacity, open, fds>>

\* pomp_buffer_ref: slot s shares the buffer of h, be it a program that keeps the buffer of a
\* message or a message that is put in a send queue.
pomp_buffer_ref(s, h) ==
    /\ holds[s] = NULL /\ holds[h] # NULL /\ Idle(h)
    /\ refcount' = [refcount EXCEPT ![holds[h]] = @ + 1]
    /\ holds' = [holds EXCEPT ![s] = holds[h]]
    /\ seen' = [seen EXCEPT ![s] = Content(holds[h])]
    /\ UNCHANGED <<hdr, args, capacity, fds, open, msgs>>

pomp_buffer_unref(s) ==
    /\ holds[s] # NULL
    /\ Unref(s)
    /\ UNCHANGED msgs

\* pomp_buffer_new, pomp_buffer_new_get_data
pomp_buffer_new(s, b, cap) ==
    /\ holds[s] = NULL
    /\ NewBuffer(s, b, cap, Empty)
    /\ UNCHANGED <<open, msgs>>

\* pomp_buffer_new_with_data, with the bytes of the buffer of h: they hold no descriptor
pomp_buffer_new_with_data(s, b, h) ==
    /\ holds[s] = NULL /\ holds[h] # NULL /\ BufLen(holds[h]) > 0
    /\ NewBuffer(s, b, BufLen(holds[h]), [Content(holds[h]) EXCEPT !.fds = {}])
    /\ UNCHANGED <<open, msgs>>

(***************************************************************************)
(* Raw buffers: what the program does with a buffer of its own              *)
(***************************************************************************)
\* Holder h, which has the only reference on b, leaves a and hd in it.
Write(h, b, a, hd) ==
    /\ args' = [args EXCEPT ![b] = a] /\ hdr' = [hdr EXCEPT ![b] = hd]
    /\ capacity' = [capacity EXCEPT ![b] = Ensure(LenOf(hd, a), @)]
    /\ seen' = [seen EXCEPT ![h] = [@ EXCEPT !.args = a, !.hdr = hd]]

\* Mutant of MayWrite: the reference count is not looked at.
MayWriteAlways(h) == holds[h] # NULL

\* The test -EPERM of pomp_buffer_write, pomp_buffer_set_len, pomp_buffer_set_capacity,
\* pomp_buffer_ensure_capacity and pomp_buffer_register_fd
MayWrite(h) == holds[h] # NULL /\ refcount[holds[h]] <= 1

\* pomp_buffer_write at argument i, or after the last one (pomp_buffer_append_data). A program
\* does not write over a descriptor.
pomp_buffer_write(s, i, v) ==
    LET b == holds[s] IN
    /\ MayWrite(s) /\ i <= MaxArgs /\ i \notin {r.off : r \in fds[b]}
    /\ i \in 1 .. Len(args[b]) + 1
    /\ Write(s, b, IF i > Len(args[b]) THEN Append(args[b], v) ELSE [args[b] EXCEPT ![i] = v], hdr[b])
    /\ UNCHANGED <<refcount, fds, open, holds, msgs>>

\* pomp_buffer_append_buffer: the arguments of the buffer of h come after those of slot s, the
\* descriptors do not.
pomp_buffer_append_buffer(s, h) ==
    LET b == holds[s] IN
    /\ MayWrite(s) /\ holds[h] # NULL /\ args[holds[h]] # <<>>
    /\ Len(args[b] \o args[holds[h]]) <= MaxArgs
    /\ Write(s, b, args[b] \o args[holds[h]], hdr[b])
    /\ UNCHANGED <<refcount, fds, open, holds, msgs>>

\* pomp_buffer_set_len: n arguments are left. A program does not cut a descriptor off.
pomp_buffer_set_len(s, n) ==
    LET b == holds[s] IN
    /\ MayWrite(s) /\ n \in 0 .. Len(args[b]) /\ fds[b] = {}
    /\ Write(s, b, SubSeq(args[b], 1, n), hdr[b])
    /\ UNCHANGED <<refcount, fds, open, holds, msgs>>

pomp_buffer_set_capacity(s, cap) ==
    /\ MayWrite(s) /\ cap >= BufLen(holds[s])
    /\ capacity' = [capacity EXCEPT ![holds[s]] = cap]
    /\ UNCHANGED <<refcount, hdr, args, fds, open, holds, msgs, seen>>

(***************************************************************************)
(* Messages                                                                 *)
(***************************************************************************)
\* What pomp_msg_init and pomp_msg_clear_partial do, when they look at the reference count.
AfterTest(m) ==
    IF holds[m] = NULL THEN IF init[m] THEN "new" ELSE "idle"
    ELSE IF refcount[holds[m]] > 1 THEN "unref" ELSE "clear"

\* pomp_msg_init up to the test of the reference count. Other threads may release references
\* between the test and what follows.
pomp_msg_init(m, id) ==
    /\ step[m] = "idle"
    /\ msgid' = [msgid EXCEPT ![m] = id] /\ finished' = [finished EXCEPT ![m] = FALSE]
    /\ init' = [init EXCEPT ![m] = TRUE] /\ step' = [step EXCEPT ![m] = "test"]
    /\ UNCHANGED <<bufs, holds, seen>>

pomp_msg_clear_partial(m) ==
    /\ step[m] = "idle"
    /\ msgid' = [msgid EXCEPT ![m] = NULL] /\ finished' = [finished EXCEPT ![m] = FALSE]
    /\ init' = [init EXCEPT ![m] = FALSE] /\ step' = [step EXCEPT ![m] = "test"]
    /\ UNCHANGED <<bufs, holds, seen>>

TestShared(m) ==
    /\ step[m] = "test"
    /\ step' = [step EXCEPT ![m] = AfterTest(m)]
    /\ UNCHANGED <<bufs, holds, msgid, finished, init, seen>>

DropShared(m) ==
    /\ step[m] = "unref"
    /\ Unref(m)
    /\ step' = [step EXCEPT ![m] = IF init[m] THEN "new" ELSE "idle"]
    /\ UNCHANGED <<msgid, finished, init>>

ClearOwn(m) ==
    /\ step[m] = "clear"
    /\ ClearPartial(m, holds[m])
    /\ step' = [step EXCEPT ![m] = "idle"]
    /\ UNCHANGED <<holds, msgid, finished, init>>

\* The new buffer, or -ENOMEM: the message is left without one.
AllocNew(m) ==
    /\ step[m] = "new"
    /\ step' = [step EXCEPT ![m] = "idle"]
    /\ \/ \E b \in Bufs : NewBuffer(m, b, 0, Empty)
       \/ UNCHANGED <<refcount, hdr, args, fds, capacity, holds, seen>>
    /\ UNCHANGED <<open, msgid, finished, init>>

Encodable(m) == step[m] = "idle" /\ ~finished[m] /\ MayWrite(m) /\ Len(args[holds[m]]) < MaxArgs

\* pomp_encoder_write_*: one more argument
pomp_encoder_write(m, v) ==
    /\ Encodable(m)
    /\ Write(m, holds[m], Append(args[holds[m]], v), hdr[holds[m]])
    /\ UNCHANGED <<refcount, fds, open, holds, msgs>>

\* pomp_encoder_write_fd: the descriptor is duplicated (as fd) and put in the buffer
pomp_encoder_write_fd(m, v, fd) ==
    LET b == holds[m]
        r == [off |-> Len(args[b]) + 1, fd |-> fd]
    IN  /\ Encodable(m) /\ fd \notin open /\ Cardinality(fds[b]) < MaxFdCount
        /\ args' = [args EXCEPT ![b] = Append(@, v)]
        /\ capacity' = [capacity EXCEPT ![b] = Ensure(LenOf(hdr[b], Append(args[b], v)), @)]
        /\ fds' = [fds EXCEPT ![b] = @ \union {r}] /\ open' = open \union {fd}
        /\ seen' = [seen EXCEPT ![m] =
                       [seen[m] EXCEPT !.args = Append(args[b], v), !.fds = seen[m].fds \union {r}]]
        /\ UNCHANGED <<refcount, hdr, holds, msgs>>

\* dup fails, or the buffer has too many descriptors and the duplicate is closed: the argument
\* is there without a descriptor. A program that fills a message by pomp_msg_write gives up.
pomp_encoder_write_fd_fails(m, v) ==
    /\ Encodable(m)
    /\ Write(m, holds[m], Append(args[holds[m]], v), hdr[holds[m]])
    /\ UNCHANGED <<refcount, fds, open, holds, msgs>>

\* Mutant of HeaderLen: the size of a message without arguments does not count its header.
HeaderLenEmpty(b) == BufLen(b)

\* The size in the header: that of a header at least
HeaderLen(b) == IF BufLen(b) < HeaderSize THEN HeaderSize ELSE BufLen(b)

pomp_msg_finish(m) ==
    LET b == holds[m]
        h == [id |-> msgid[m], len |-> HeaderLen(b)]
    IN  /\ step[m] = "idle" /\ ~finished[m] /\ MayWrite(m)
        /\ Write(m, b, args[b], h)
        /\ finished' = [finished EXCEPT ![m] = TRUE]
        /\ UNCHANGED <<refcount, fds, open, holds, msgid, step, init>>

\* pomp_msg_clear, and pomp_msg_destroy: the message is as new
pomp_msg_clear(m) ==
    /\ step[m] = "idle"
    /\ IF holds[m] = NULL THEN UNCHANGED <<bufs, holds, seen>> ELSE Unref(m)
    /\ msgid' = [msgid EXCEPT ![m] = NULL] /\ finished' = [finished EXCEPT ![m] = FALSE]
    /\ UNCHANGED <<step, init>>

\* Mutant of pomp_msg_new_with_buffer: the message takes no reference of its own.
pomp_msg_new_with_buffer_noref(m, s) ==
    LET b == holds[s] IN
    /\ step[m] = "idle" /\ holds[m] = NULL
    /\ b # NULL /\ hdr[b] # NoHdr /\ hdr[b].len = BufLen(b)
    /\ holds' = [holds EXCEPT ![m] = b] /\ seen' = [seen EXCEPT ![m] = Content(b)]
    /\ msgid' = [msgid EXCEPT ![m] = hdr[b].id] /\ finished' = [finished EXCEPT ![m] = TRUE]
    /\ UNCHANGED <<bufs, step, init>>

\* pomp_msg_new_with_buffer: message m, a new one, shares the buffer of slot s when the header in
\* it is right; otherwise the reference is given back.
pomp_msg_new_with_buffer(m, s) ==
    LET b == holds[s] IN
    /\ step[m] = "idle" /\ holds[m] = NULL
    /\ b # NULL /\ hdr[b] # NoHdr /\ hdr[b].len = BufLen(b)
    /\ refcount' = [refcount EXCEPT ![b] = @ + 1]
    /\ holds' = [holds EXCEPT ![m] = b] /\ seen' = [seen EXCEPT ![m] = Content(b)]
    /\ msgid' = [msgid EXCEPT ![m] = hdr[b].id] /\ finished' = [finished EXCEPT ![m] = TRUE]
    /\ UNCHANGED <<hdr, args, capacity, fds, open, step, init>>

\* Mutant of Copied: the copy has the same descriptors, not duplicates.
CopiedShared(s, dup) == s

\* The descriptors of the copy: dup gives the duplicate of each
Copied(s, dup) == {[off |-> r.off, fd |-> dup[r.fd]] : r \in s}

\* pomp_buffer_new_copy for holder h, with duplicates of the descriptors. When one cannot be
\* duplicated, those made before are closed and there is no copy.
CopyBuffer(h, src, b, dup) ==
    /\ \A f \in DOMAIN dup : dup[f] \notin open
    /\ \A f, g \in DOMAIN dup : dup[f] = dup[g] => f = g
    /\ NewBuffer(h, b, BufLen(src), [Content(src) EXCEPT !.fds = Copied(@, dup)])
    /\ open' = open \union {dup[f] : f \in DOMAIN dup}

pomp_buffer_new_copy(s, h, b) ==
    /\ holds[s] = NULL /\ holds[h] # NULL /\ Idle(h)
    /\ \E dup \in [FdsIn(fds[holds[h]]) -> Fds] : CopyBuffer(s, holds[h], b, dup)
    /\ UNCHANGED msgs

\* pomp_msg_new_copy: message m, a new one, is a copy of message src
pomp_msg_new_copy(m, src) ==
    /\ step[m] = "idle" /\ step[src] = "idle" /\ holds[m] = NULL /\ m # src
    /\ msgid' = [msgid EXCEPT ![m] = msgid[src]] /\ finished' = [finished EXCEPT ![m] = finished[src]]
    /\ IF holds[src] = NULL THEN UNCHANGED <<bufs, holds, seen>>
       ELSE \E b \in Bufs, dup \in [FdsIn(fds[holds[src]]) -> Fds] : CopyBuffer(m, holds[src], b, dup)
    /\ UNCHANGED <<step, init>>

SlotNext(s) ==
    \/ \E h \in Holders : pomp_buffer_ref(s, h)
    \/ pomp_buffer_unref(s)
    \/ \E b \in Bufs, cap \in {0, HeaderSize} : pomp_buffer_new(s, b, cap)
    \/ \E b \in Bufs, h \in Holders : pomp_buffer_new_with_data(s, b, h)
    \/ \E i \in 1 .. MaxArgs, v \in Vals : pomp_buffer_write(s, i, v)
    \/ \E h \in Holders : pomp_buffer_append_buffer(s, h)
    \/ \E n \in 0 .. MaxArgs : pomp_buffer_set_len(s, n)
    \/ \E cap \in {MaxReuse + AllocStep} : pomp_buffer_set_capacity(s, cap)
    \/ \E h \in Holders, b \in Bufs : pomp_buffer_new_copy(s, h, b)

MsgNext(m) ==
    \/ \E id \in Ids : pomp_msg_init(m, id)
    \/ pomp_msg_clear_partial(m)
    \/ TestShared(m)
    \/ DropShared(m)
    \/ ClearOwn(m)
    \/ AllocNew(m)
    \/ \E v \in Vals : pomp_encoder_write(m, v)
    \/ \E v \in Vals, fd \in Fds : pomp_encoder_write_fd(m, v, fd)
    \/ \E v \in Vals : pomp_encoder_write_fd_fails(m, v)
    \/ pomp_msg_finish(m)
    \/ pomp_msg_clear(m)
    \/ \E s \in Slots : pomp_msg_new_with_buffer(m, s)
    \/ \E src \in Msgs : pomp_msg_new_copy(m, src)

Next == \/ \E s \in Slots : SlotNext(s)
        \/ \E m \in Msgs : MsgNext(m)

Spec == Init /\ [][Next]_vars

(***************************************************************************)
(* Properties                                                               *)
(***************************************************************************)
Headers == [id : Ids \union {NULL}, len : Nat]
FdRecords == [off : Nat, fd : Fds]
Contents == [hdr : Headers, args : Seq(Vals), fds : SUBSET FdRecords]

TypeOK ==
    /\ refcount \in [Bufs -> Nat]
    /\ hdr \in [Bufs -> Headers]
    /\ args \in [Bufs -> Seq(Vals)]
    /\ capacity \in [Bufs -> Nat]
    /\ fds \in [Bufs -> SUBSET FdRecords]
    /\ seen \in [Holders -> Contents]
    /\ msgid \in [Msgs -> Ids \union {NULL}]
    /\ open \in SUBSET Fds
    /\ holds \in [Holders -> Bufs \union {NULL}]
    /\ finished \in [Msgs -> BOOLEAN] /\ init \in [Msgs -> BOOLEAN]
    /\ step \in [Msgs -> {"idle", "test", "unref", "clear", "new"}]

HoldersOf(b) == {h \in Holders : holds[h] = b}

\* The reference count of a buffer is the number of its holders: a buffer is freed with its last
\* reference, neither before (no holder is left with a freed buffer) nor never, whatever the
\* order of pomp_buffer_ref, pomp_buffer_unref, pomp_msg_init and pomp_msg_clear.
RefsMatch == \A b \in Bufs : refcount[b] = Cardinality(HoldersOf(b))

\* A descriptor put in a buffer is open and belongs to that buffer alone; every open descriptor
\* is in an allocated buffer. None leaks and none is closed twice or closed under another buffer
\* (pomp_buffer_register_fd, pomp_buffer_new_copy, pomp_buffer_clear_partial).
FdsOwned ==
    /\ open = UNION {FdsIn(fds[b]) : b \in Bufs}
    /\ \A b \in Bufs : refcount[b] = 0 => fds[b] = {}
    /\ \A b, c \in Bufs : \A r \in fds[b], q \in fds[c] : r.fd = q.fd => b = c /\ r = q

\* What a holder has written in its buffer, or has seen when it got it, is still there: a message
\* in a send queue or kept by another thread does not change when the program fills, clears or
\* initialises the message again. Shared buffers are read only (-EPERM in pomp_buffer.c) and
\* pomp_msg_init leaves them.
HolderUndisturbed ==
    \A h \in Holders : holds[h] # NULL => seen[h] = Content(holds[h])

\* The header of a finished message gives its id and its length, so that the receiver finds
\* the end of it (pomp_msg_finish, pomp_msg_new_with_buffer, pomp_msg_new_copy).
FinishedIsSound ==
    \A m \in Msgs : finished[m] =>
        /\ holds[m] # NULL
        /\ hdr[holds[m]] = [id |-> msgid[m], len |-> BufLen(holds[m])]

=============================================================================
