------------------------------ MODULE ConnSend ------------------------------
(***************************************************************************)
(* The sending side of a stream connection (pomp_conn.c): the direct write  *)
(* of pomp_conn_send_buf_internal, the queue of the buffers that could not  *)
(* be written at once, the notifications of the send callback that wait in  *)
(* the idle functions of the loop, pomp_conn_disconnect and the removal of  *)
(* the connection (pomp_ctx_remove_conn, pomp_conn_close).                  *)
(*                                                                         *)
(* All of it runs in the thread of the loop. What is modelled are the       *)
(* re-entrant calls: functions of the program called by the library send,   *)
(* disconnect and flush the idle functions in turn. The send callback of    *)
(* the context is set; the socket takes as many bytes as it likes. A buffer *)
(* is known by the rank at which a send accepted it.                        *)
(***************************************************************************)
EXTENDS Integers, Sequences, FiniteSets

CONSTANTS
    Lengths,    \* the lengths of the buffers
    MaxSends,   \* bound on the buffers accepted
    MaxNest     \* bound on the functions in progress

ASSUME LengthsAssumption == Lengths \subseteq Nat \ {0}
ASSUME BoundsAssumption == MaxSends \in Nat /\ MaxNest \in Nat

VARIABLES
    len,        \* the lengths of the buffers accepted so far
    queue,      \* headbuf .. tailbuf: records with the buffer and the offset in it
    idlecbs,    \* idlecbs_tail .. idlecbs_head: notifications that wait in the loop
    idle,       \* the same in the loop: its idle entries, the first one first
    out,        \* POMP_FD_EVENT_OUT is monitored
    shut,       \* is_shutdown
    removeflag,
    open,       \* the connection is in the loop, its socket is open
    revents,    \* the events of the call of pomp_conn_cb in progress
    stack,      \* the functions in progress, the innermost one last
    wire,       \* what the socket has taken: pairs (buffer, rank of the byte in it)
    notified    \* the calls of the send callback so far

vars == <<len, queue, idlecbs, idle, out, shut, removeflag, open, revents, stack, wire,
          notified>>

Buffers == 1 .. MaxSends
Status == [sent : BOOLEAN, empty : BOOLEAN]  \* POMP_SEND_STATUS_OK or _ABORTED; _QUEUE_EMPTY
Notice == [buf : Buffers, status : Status]

(***************************************************************************)
(* Functions in progress. In the library: pomp_conn_process_read ("read"),  *)
(* pomp_conn_process_write ("write"), the end of pomp_conn_cb ("end"),      *)
(* clear_pending_callbacks called by pomp_conn_close ("clear") and by       *)
(* pomp_conn_disconnect ("disc"), the end of pomp_conn_close ("abort") and  *)
(* pomp_loop_idle_flush ("flush"). In the program: the callbacks for a      *)
(* message ("readcb"), a disconnection ("eventcb") and a send ("sendcb").   *)
(***************************************************************************)
Library == {"read", "write", "end", "clear", "disc", "abort", "flush"}
Program == {"readcb", "eventcb", "sendcb"}

At(f) == stack # <<>> /\ stack[Len(stack)] = f
InProgress(F) == \E i \in 1 .. Len(stack) : stack[i] \in F
AtHome == open /\ (stack = <<>> \/ \E f \in Program : At(f))

Push(f) == stack' = Append(stack, f)
Pop == stack' = SubSeq(stack, 1, Len(stack) - 1)
Become(f) == stack' = [stack EXCEPT ![Len(stack)] = f]

Init ==
    /\ len = <<>> /\ queue = <<>> /\ idlecbs = <<>> /\ idle = <<>>
    /\ out = FALSE /\ shut = FALSE /\ removeflag = FALSE /\ open = TRUE
    /\ revents = {} /\ stack = <<>> /\ wire = <<>> /\ notified = <<>>

-----------------------------------------------------------------------------
\* The socket takes n bytes of buffer b from offset off on.
Write(b, off, n) == wire' = wire \o [i \in 1 .. n |-> <<b, off + i>>]

\* Mutant of AddIdleCb: the newest notification goes before the others.
AddIdleCbFirst(b, s) ==
    /\ idlecbs' = <<[buf |-> b, status |-> s]>> \o idlecbs
    /\ idle' = Append(idle, [buf |-> b, status |-> s])

\* pomp_conn_add_idle_cb
AddIdleCb(b, s) ==
    /\ idlecbs' = Append(idlecbs, [buf |-> b, status |-> s])
    /\ idle' = Append(idle, [buf |-> b, status |-> s])

\* pomp_ctx_notify_send, with the send callback in progress
Notify(b, s) ==
    /\ notified' = Append(notified, [buf |-> b, status |-> s])
    /\ Push("sendcb")

(***************************************************************************)
(* pomp_conn_send_buf_internal. With an empty queue the buffer is written   *)
(* at once; the socket takes n of its l bytes, none if it would block. An   *)
(* error of the write, like a connection shut down, is returned to the      *)
(* caller and leaves everything as it was.                                  *)
(***************************************************************************)
Accept(l) ==
    /\ AtHome /\ ~shut /\ Len(len) < MaxSends
    /\ len' = Append(len, l)
    /\ UNCHANGED <<shut, removeflag, open, revents, stack, notified>>

SendNow(l) ==
    /\ queue = <<>>
    /\ Accept(l)
    /\ Write(Len(len'), 0, l)
    /\ AddIdleCb(Len(len'), [sent |-> TRUE, empty |-> TRUE])
    /\ UNCHANGED <<queue, out>>

\* Mutant of SendPart: the buffer is queued from its start.
SendPartRestart(l, n) ==
    /\ queue = <<>>
    /\ Accept(l)
    /\ Write(Len(len'), 0, n)
    /\ queue' = <<[buf |-> Len(len'), off |-> 0]>>
    /\ out' = TRUE
    /\ UNCHANGED <<idlecbs, idle>>

SendPart(l, n) ==
    /\ queue = <<>>
    /\ Accept(l)
    /\ Write(Len(len'), 0, n)
    /\ queue' = <<[buf |-> Len(len'), off |-> n]>>
    /\ out' = TRUE
    /\ UNCHANGED <<idlecbs, idle>>

SendQueued(l) ==
    /\ queue # <<>>
    /\ Accept(l)
    /\ queue' = Append(queue, [buf |-> Len(len'), off |-> 0])
    /\ UNCHANGED <<idlecbs, idle, out, wire>>

Send == \E l \in Lengths : SendNow(l) \/ SendQueued(l) \/ \E n \in 0 .. l - 1 : SendPart(l, n)

-----------------------------------------------------------------------------
(***************************************************************************)
(* pomp_conn_cb, called by the loop: read, then write, then remove          *)
(***************************************************************************)
ConnCb(r) ==
    /\ stack = <<>> /\ open
    /\ "OUT" \in r => out
    /\ revents' = r
    /\ Push(IF "IN" \in r THEN "read" ELSE IF "OUT" \in r THEN "write" ELSE "end")
    /\ UNCHANGED <<len, queue, idlecbs, idle, out, shut, removeflag, open, wire, notified>>

\* A message is read, and the program called.
ReadMsg ==
    /\ At("read")
    /\ Push("readcb")
    /\ UNCHANGED <<len, queue, idlecbs, idle, out, shut, removeflag, open, revents, wire,
                   notified>>

\* There is nothing more to read for now, or for ever.
ReadEnd(eof) ==
    /\ At("read")
    /\ removeflag' = eof
    /\ Become(IF "OUT" \in revents /\ ~eof THEN "write" ELSE "end")
    /\ UNCHANGED <<len, queue, idlecbs, idle, out, shut, open, revents, wire, notified>>

Rest == len[Head(queue).buf] - Head(queue).off

WriteSomeIsAll ==
    /\ At("write") /\ queue # <<>> /\ ~shut
    /\ \E n \in 1 .. Rest : Write(Head(queue).buf, Head(queue).off, n)
    /\ queue' = Tail(queue)
    /\ AddIdleCb(Head(queue).buf, [sent |-> TRUE, empty |-> queue' = <<>>])
    /\ UNCHANGED <<len, out, shut, removeflag, open, revents, stack, notified>>

WriteSome ==
    /\ At("write") /\ queue # <<>> /\ ~shut
    /\ \/ /\ Write(Head(queue).buf, Head(queue).off, Rest)
          /\ queue' = Tail(queue)
          /\ AddIdleCb(Head(queue).buf, [sent |-> TRUE, empty |-> queue' = <<>>])
       \/ \E n \in 1 .. Rest - 1 :
          /\ Write(Head(queue).buf, Head(queue).off, n)
          /\ queue' = [queue EXCEPT ![1].off = @ + n]
          /\ UNCHANGED <<idlecbs, idle>>
    /\ UNCHANGED <<len, out, shut, removeflag, open, revents, stack, notified>>

\* The socket would block (EAGAIN).
WriteBlocks ==
    /\ At("write") /\ queue # <<>> /\ ~shut
    /\ Become("end")
    /\ UNCHANGED <<len, queue, idlecbs, idle, out, shut, removeflag, open, revents, wire,
                   notified>>

\* The write fails, as it always does once the connection is shut down.
WriteFails ==
    /\ At("write") /\ queue # <<>>
    /\ removeflag' = TRUE
    /\ Become("end")
    /\ UNCHANGED <<len, queue, idlecbs, idle, out, shut, open, revents, wire, notified>>

WriteDone ==
    /\ At("write") /\ queue = <<>>
    /\ out' = FALSE
    /\ Become("end")
    /\ UNCHANGED <<len, queue, idlecbs, idle, shut, removeflag, open, revents, wire, notified>>

\* Mutant of ConnCbEnd: a connection whose writes fail is kept.
ConnCbEndKeeps ==
    /\ At("end")
    /\ IF "ERR" \in revents THEN Become("eventcb") ELSE Pop
    /\ UNCHANGED <<len, queue, idlecbs, idle, out, shut, removeflag, open, revents, wire,
                   notified>>

ConnCbEnd ==
    /\ At("end")
    /\ IF removeflag \/ "ERR" \in revents THEN Become("eventcb") ELSE Pop
    /\ UNCHANGED <<len, queue, idlecbs, idle, out, shut, removeflag, open, revents, wire,
                   notified>>

-----------------------------------------------------------------------------
(***************************************************************************)
(* clear_pending_callbacks and pomp_conn_close                              *)
(***************************************************************************)

\* pomp_loop_idle_remove: the idle entries s but those that are e.
Without(s, e) ==
    LET keep == {i \in 1 .. Len(s) : s[i] # e}
        Before(i) == {j \in keep : j < i}
    IN  [k \in 1 .. Cardinality(keep) |-> s[CHOOSE i \in keep : Cardinality(Before(i)) = k - 1]]

ClearNext ==
    /\ At("clear") \/ At("disc")
    /\ idlecbs # <<>>
    /\ idlecbs' = Tail(idlecbs)
    /\ idle' = Without(idle, Head(idlecbs))
    /\ Notify(Head(idlecbs).buf, Head(idlecbs).status)
    /\ UNCHANGED <<len, queue, out, shut, removeflag, open, revents, wire>>

ClearEnd ==
    /\ At("clear") \/ At("disc")
    /\ idlecbs = <<>>
    /\ IF At("clear") THEN Become("abort") ELSE Pop
    /\ UNCHANGED <<len, queue, idlecbs, idle, out, shut, removeflag, open, revents, wire,
                   notified>>

AbortNext ==
    /\ At("abort") /\ queue # <<>>
    /\ queue' = Tail(queue)
    /\ Notify(Head(queue).buf, [sent |-> FALSE, empty |-> queue' = <<>>])
    /\ UNCHANGED <<len, idlecbs, idle, out, shut, removeflag, open, revents, wire>>

AbortEnd ==
    /\ At("abort") /\ queue = <<>>
    /\ open' = FALSE
    /\ Pop
    /\ UNCHANGED <<len, queue, idlecbs, idle, out, shut, removeflag, revents, wire, notified>>

\* The stop of the context, called outside of callbacks, removes its connections.
CtxStop ==
    /\ stack = <<>> /\ open
    /\ Push("eventcb")
    /\ UNCHANGED <<len, queue, idlecbs, idle, out, shut, removeflag, open, revents, wire,
                   notified>>

\* Mutant of EventReturn: the notifications that wait in the loop are left there.
EventReturnNoClear ==
    /\ At("eventcb")
    /\ shut' = TRUE
    /\ out' = FALSE
    /\ Become("abort")
    /\ UNCHANGED <<len, queue, idlecbs, idle, removeflag, open, revents, wire, notified>>

\* The program has been told of the disconnection: pomp_conn_close begins.
EventReturn ==
    /\ At("eventcb")
    /\ shut' = TRUE
    /\ out' = FALSE
    /\ Become("clear")
    /\ UNCHANGED <<len, queue, idlecbs, idle, removeflag, open, revents, wire, notified>>

-----------------------------------------------------------------------------
(***************************************************************************)
(* What else the program does, and the idle functions of the loop           *)
(***************************************************************************)

\* pomp_conn_disconnect
Disconnect ==
    /\ AtHome /\ Len(stack) < MaxNest
    /\ shut' = TRUE
    /\ Push("disc")
    /\ UNCHANGED <<len, queue, idlecbs, idle, out, removeflag, open, revents, wire, notified>>

CallbackReturn ==
    /\ At("readcb") \/ At("sendcb")
    /\ Pop
    /\ UNCHANGED <<len, queue, idlecbs, idle, out, shut, removeflag, open, revents, wire,
                   notified>>

\* pomp_loop_idle_flush
Flush ==
    /\ AtHome /\ Len(stack) < MaxNest
    /\ Push("flush")
    /\ UNCHANGED <<len, queue, idlecbs, idle, out, shut, removeflag, open, revents, wire,
                   notified>>

FlushEnd ==
    /\ At("flush") /\ idle = <<>>
    /\ Pop
    /\ UNCHANGED <<len, queue, idlecbs, idle, out, shut, removeflag, open, revents, wire,
                   notified>>

\* pomp_idle_cb, called by the loop or by a flush: it ignores a notification that is not
\* the oldest one of the connection.
IdleCb ==
    /\ stack = <<>> \/ At("flush")
    /\ idle # <<>>
    /\ idle' = Tail(idle)
    /\ IF idlecbs # <<>> /\ Head(idle) = Head(idlecbs)
       THEN /\ idlecbs' = Tail(idlecbs)
            /\ Notify(Head(idle).buf, Head(idle).status)
       ELSE UNCHANGED <<idlecbs, notified, stack>>
    /\ UNCHANGED <<len, queue, out, shut, removeflag, open, revents, wire>>

-----------------------------------------------------------------------------
Events == SUBSET {"IN", "OUT", "ERR"} \ {{}}

\* A function in progress in the library goes on, and those of the program return.
Progress ==
    \/ ReadEnd(FALSE) \/ ReadEnd(TRUE)
    \/ WriteSome \/ WriteBlocks \/ WriteFails \/ WriteDone \/ ConnCbEnd
    \/ ClearNext \/ ClearEnd \/ AbortNext \/ AbortEnd
    \/ EventReturn \/ CallbackReturn \/ FlushEnd

Next ==
    \/ Send \/ Disconnect \/ Flush
    \/ ReadMsg \/ IdleCb \/ CtxStop \/ Progress
    \/ \E r \in Events : ConnCb(r)

Spec == Init /\ [][Next]_vars

(***************************************************************************)
(* Functions return, messages do not keep a read from ending for ever, the  *)
(* loop runs its idle entries and the callbacks of its descriptors, and the *)
(* peer takes data again and again, or the connection fails.                *)
(***************************************************************************)
Fairness ==
    /\ WF_vars(Progress) /\ SF_vars(CallbackReturn) /\ SF_vars(EventReturn)
    /\ SF_vars(ReadEnd(FALSE) \/ ReadEnd(TRUE))
    /\ SF_vars(IdleCb)
    /\ SF_vars(\E r \in Events : "OUT" \in r /\ ConnCb(r))
    /\ SF_vars(WriteSome)

FairSpec == Spec /\ Fairness

-----------------------------------------------------------------------------
(***************************************************************************)
(* Properties                                                               *)
(***************************************************************************)

\* The variables hold values that a connection can have; what is in the queue has bytes
\* left to write.
TypeOK ==
    /\ len \in Seq(Lengths) /\ Len(len) <= MaxSends
    /\ queue \in Seq([buf : 1 .. Len(len), off : Nat])
    /\ \A i \in 1 .. Len(queue) : queue[i].off < len[queue[i].buf]
    /\ idlecbs \in Seq(Notice) /\ idle \in Seq(Notice) /\ notified \in Seq(Notice)
    /\ out \in BOOLEAN /\ shut \in BOOLEAN /\ removeflag \in BOOLEAN /\ open \in BOOLEAN
    /\ revents \subseteq {"IN", "OUT", "ERR"}
    /\ stack \in Seq(Library \cup Program)
    /\ wire \in Seq(Buffers \X Nat)

\* The peer gets the bytes of the buffers accepted, in the order they were accepted,
\* none twice and none left out, whatever the socket takes at a time.
WireInOrder ==
    \A i \in 1 .. Len(wire) :
        LET prev == wire[i - 1]
        IN  wire[i] = IF i = 1 THEN <<1, 1>>
                      ELSE IF prev[2] < len[prev[1]] THEN <<prev[1], prev[2] + 1>>
                      ELSE <<prev[1] + 1, 1>>

\* The send callback is called for every buffer accepted, once, in the order of the
\* sends: nothing comes after a notification that still waits in the loop, and
\* clear_pending_callbacks and pomp_conn_close come before none.
NotifiedInOrder == \A i \in 1 .. Len(notified) : notified[i].buf = i

\* A buffer is notified as sent when the socket has taken all of it, and as aborted only
\* when it has not.
StatusIsTrue ==
    \A i \in 1 .. Len(notified) :
        notified[i].status.sent <=>
            \E j \in 1 .. Len(wire) : wire[j] = <<notified[i].buf, len[notified[i].buf]>>

\* A connection that is closed leaves no buffer without a notification, and no idle entry
\* that would be called with the connection that is freed.
ClosedIsClean == ~open => Len(notified) = Len(len) /\ idle = <<>>

\* Every buffer accepted is notified in the end.
AllNotified == \A b \in Buffers : Len(len) >= b ~> Len(notified) >= b

=============================================================================
