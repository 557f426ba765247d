------------------------------ MODULE ConnRecv ------------------------------
(***************************************************************************)
(* The receiving half of a connection (pomp_conn.c): the socket is read in   *)
(* pieces, the protocol decoder (Prot) cuts them into messages, and the file *)
(* descriptors that came beside the bytes are put back into the messages    *)
(* that describe them.                                                      *)
(*                                                                          *)
(* The kernel decides how many bytes a read returns. On a local socket the  *)
(* descriptors of a message come with its first byte, and one read returns  *)
(* the descriptors of one message at most: it stops at the latest at the    *)
(* end of that message. An inet socket carries no descriptor. A datagram    *)
(* socket gives whole datagrams, in any order, any of them lost or repeated. *)
(***************************************************************************)
EXTENDS Integers, Sequences, FiniteSets, FiniteSetsExt, Functions, Prot

CONSTANTS Shapes,      \* the messages of the peer: [args, fds], fds descriptors are attached
          MaxMsgs,     \* the peer sends at most this many messages
          Junk,        \* what the stream may start with, before the first message
          ReadLen,     \* length of the read buffer
          MaxFds,      \* POMP_BUFFER_MAX_FD_COUNT
          MaxDgrams    \* bound on the number of datagrams received

ASSUME Peer == Shapes \subseteq [args : Seq(Nat), fds : 0 .. MaxFds] /\ Junk \subseteq Seq(Nat)
ASSUME Bounds == {MaxMsgs, ReadLen, MaxFds, MaxDgrams} \subseteq Nat

Plain == 0             \* an argument that is not a descriptor
FdArg == 13            \* POMP_PROT_DATA_TYPE_FD
Unknown == 14          \* a type the decoder does not know

VARIABLES
    sent, junk, kind, israw,  \* chosen once: what the peer sends and the sort of connection
    pos,             \* bytes taken from the socket, or datagrams on a datagram socket
    truncated,       \* some datagram was longer than the read buffer
    pc,              \* where pomp_conn_process_read is
    got,             \* some byte was read since the loop called pomp_conn_cb
    readbuf, off, partial,    \* the bytes read, how many are decoded, and the local variable
    prot,            \* the protocol decoder
    current, next,   \* rx_fds_current and rx_fds_next
    held,            \* the descriptors in the buffer of the message of the decoder
    ref,             \* the program has a reference on that buffer
    kept,            \* the descriptors in the other buffers the program has a reference on
    closed,          \* how many times each descriptor was closed
    read_suspended, removeflag,
    delivered        \* the messages given to the program, or the bytes when israw

peer == <<sent, junk, kind, israw>>
socket == <<pos, truncated>>
decoding == <<readbuf, off, partial, prot>>
fds == <<current, next, held, ref, kept, closed>>
flags == <<read_suspended, removeflag>>
vars == <<peer, socket, pc, got, decoding, fds, flags, delivered>>

Fds == (1 .. MaxMsgs) \X (1 .. MaxFds)
Bytes(m) == Magic \o <<m, HeaderSize + Len(sent[m].args)>> \o sent[m].args

\* The stream up to the end of message k
UpTo[k \in 0 .. Len(sent)] == IF k = 0 THEN junk ELSE UpTo[k - 1] \o Bytes(k)
Stream == UpTo[Len(sent)]

\* The position of the first byte of message m in the stream, and of its last.
FirstByte(m) == Len(UpTo[m - 1]) + 1
LastByte(m) == FirstByte(m) + Len(Bytes(m)) - 1

Carries(m) == kind = "local" /\ sent[m].fds > 0
FdsOf(m) == [i \in 1 .. sent[m].fds |-> <<m, i>>]

Init ==
    /\ sent \in UNION {[1 .. n -> Shapes] : n \in 1 .. MaxMsgs}
    /\ kind \in {"local", "inet", "dgram"}
    /\ israw \in BOOLEAN
    /\ junk \in IF kind = "dgram" \/ israw THEN {<<>>} ELSE Junk
    /\ pos = 0 /\ truncated = FALSE
    /\ pc = "idle" /\ got = FALSE
    /\ readbuf = <<>> /\ off = 0 /\ partial = TRUE /\ prot = pomp_prot_new
    /\ current = <<>> /\ next = <<>> /\ held = <<>> /\ ref = FALSE /\ kept = {}
    /\ closed = [f \in Fds |-> 0]
    /\ read_suspended = FALSE /\ removeflag = FALSE
    /\ delivered = <<>>

\* How many elements of a sequence are x; upto[i] are those of its first i elements.
Occurrences(s, x) ==
    LET upto[i \in 0 .. Len(s)] == IF i = 0 THEN 0 ELSE upto[i - 1] + IF s[i] = x THEN 1 ELSE 0
    IN  upto[Len(s)]

Closing(c, s) == [f \in Fds |-> c[f] + IF f \in s THEN 1 ELSE 0]

(***************************************************************************)
(* Reading                                                                  *)
(***************************************************************************)
MoreToRead == kind # "dgram" => pos < Len(Stream)

\* The loop calls pomp_conn_cb: there is something to read, or the peer has closed.
Readable ==
    /\ pc = "idle" /\ ~read_suspended /\ ~removeflag
    /\ kind = "dgram" => pos < MaxDgrams
    /\ pc' = "read" /\ got' = FALSE
    /\ UNCHANGED <<peer, socket, decoding, fds, flags, delivered>>

\* The message whose descriptors come with the bytes pos + 1 .. pos + n, if any: the read stops
\* at the end of the first one.
Carrier(n) == {m \in DOMAIN sent : Carries(m) /\ FirstByte(m) \in pos + 1 .. pos + n}

\* Mutant of StoreFds: descriptors always go with those of the message being read.
StoreFdsTogether(new) ==
    LET n == current \o new
        kept_n == SubSeq(n, 1, Smaller(MaxFds, Len(n)))
    IN  [current |-> kept_n, next |-> next,
         closed |-> Closing(closed, Range(DropFirst(n, Len(kept_n)))), error |-> FALSE]

\* What pomp_conn_process_read_with_cmsg does with the descriptors new of a read: [current, next,
\* closed]. Both tables in use means that some message came with descriptors it did not describe.
StoreFds(new) ==
    LET discard == current # <<>> /\ next # <<>> /\ new # <<>>
        c == IF discard THEN next ELSE current
        n == (IF discard THEN <<>> ELSE next) \o new
        kept_n == SubSeq(n, 1, Smaller(MaxFds, Len(n)))
        gone == Range(DropFirst(n, Len(kept_n))) \union IF discard THEN Range(current) ELSE {}
    IN  [current |-> IF c = <<>> THEN kept_n ELSE c,
         next |-> IF c = <<>> THEN <<>> ELSE kept_n,
         closed |-> Closing(closed, gone),
         error |-> Len(n) > MaxFds]

\* One read of a stream socket that returns n bytes.
Recv(n) ==
    /\ pc = "read" /\ kind # "dgram" /\ pos + n <= Len(Stream)
    /\ \A m \in Carrier(n) : pos + n <= LastByte(m)
    /\ LET carrier == Carrier(n)
           s == StoreFds(IF carrier = {} THEN <<>> ELSE FdsOf(CHOOSE m \in carrier : TRUE))
       IN  /\ current' = s.current /\ next' = s.next /\ closed' = s.closed
           /\ removeflag' = s.error
           /\ pc' = IF s.error THEN "idle" ELSE "decode"
    /\ pos' = pos + n /\ got' = TRUE
    /\ readbuf' = SubSeq(Stream, pos + 1, pos + n) /\ off' = 0 /\ partial' = TRUE
    /\ UNCHANGED <<peer, truncated, prot, held, ref, kept, read_suspended, delivered>>

\* One read of a datagram socket: what does not fit in the read buffer is lost.
RecvDgram(m) ==
    /\ pc = "read" /\ kind = "dgram" /\ pos < MaxDgrams
    /\ pos' = pos + 1 /\ got' = TRUE
    /\ readbuf' = SubSeq(Bytes(m), 1, Smaller(ReadLen, Len(Bytes(m)))) /\ off' = 0 /\ partial' = TRUE
    /\ truncated' = (truncated \/ Len(Bytes(m)) > ReadLen)
    /\ pc' = "decode"
    /\ UNCHANGED <<peer, prot, fds, flags, delivered>>

\* EAGAIN: what was there is read, the rest has not come yet.
WouldBlock ==
    /\ pc = "read" /\ got
    /\ pc' = "idle"
    /\ UNCHANGED <<peer, socket, got, decoding, fds, flags, delivered>>

\* The peer has closed the connection.
Eof ==
    /\ pc = "read" /\ ~MoreToRead
    /\ removeflag' = TRUE /\ pc' = "idle"
    /\ UNCHANGED <<peer, socket, got, decoding, fds, read_suspended, delivered>>

(***************************************************************************)
(* Decoding                                                                 *)
(***************************************************************************)
\* pomp_conn_fixup_rx_fds on a message with arguments args: the walk gives each descriptor
\* argument the next descriptor of the current table. It stops, without an error, when there is
\* none left, and with an error at a type it does not know. A message that wants descriptors
\* frees the current table for the next message.
Fixup(args) ==
    LET unknown == {i \in DOMAIN args : args[i] = Unknown}
        walked == IF unknown = {} THEN args ELSE SubSeq(args, 1, Min(unknown) - 1)
        needs == Occurrences(walked, FdArg)
        taken == Smaller(needs, Len(current))
        short == needs > Len(current)
    IN  [held |-> SubSeq(current, 1, taken),
         current |-> IF needs > 0 THEN next ELSE current,
         next |-> IF needs > 0 THEN <<>> ELSE next,
         left |-> IF needs > 0 THEN Range(DropFirst(current, taken)) ELSE {},
         ok |-> unknown = {} \/ short]

\* One turn of the loop of pomp_conn_process_read_buf: bytes are decoded up to the end of a
\* message or of what was read. A new header takes the message object of the decoder again: its
\* buffer is emptied, or left to the program that has a reference on it.
Decode ==
    /\ pc = "decode" /\ ~israw /\ off < Len(readbuf)
    /\ \E d \in {decode_msg(prot, DropFirst(readbuf, off))} :
       LET complete == d.prot.state = IDLE
           args == DropFirst(d.prot.data, HeaderSize)
           x == Fixup(args)
           emptied == d.prot.alloc /\ ~ref
       IN  /\ prot' = d.prot
           /\ off' = off + d.used
           /\ partial' = IF complete THEN off' < Len(readbuf) ELSE partial
           /\ kept' = IF d.prot.alloc /\ ref THEN kept \union Range(held) ELSE kept
           /\ ref' = (ref /\ ~d.prot.alloc)
           /\ held' = IF complete THEN x.held ELSE IF d.prot.alloc THEN <<>> ELSE held
           /\ closed' = Closing(closed, (IF emptied THEN Range(held) ELSE {})
                                        \union IF complete THEN x.left ELSE {})
           /\ IF complete
              THEN /\ current' = x.current /\ next' = x.next
                   /\ IF x.ok
                      THEN /\ delivered' = Append(delivered, [id |-> d.prot.headerbuf[Len(Magic) + 1],
                                                   args |-> args, fds |-> x.held])
                           /\ pc' = "callback"
                      ELSE UNCHANGED <<delivered, pc>>
              ELSE UNCHANGED <<current, next, delivered, pc>>
    /\ UNCHANGED <<peer, socket, got, readbuf, flags>>

\* A raw connection gives the bytes to the program as they come.
NotifyRaw ==
    /\ pc = "decode" /\ israw /\ off < Len(readbuf)
    /\ delivered' = delivered \o readbuf
    /\ off' = Len(readbuf)
    /\ pc' = "callback"
    /\ UNCHANGED <<peer, socket, got, readbuf, partial, prot, fds, flags>>

\* Mutant of AfterRead: reading goes on although the program has suspended it.
AfterReadAlways == "read"

\* The condition of the loop of pomp_conn_process_read.
AfterRead == IF read_suspended THEN "idle" ELSE "read"

\* The end of pomp_conn_process_read_buf: with no message in progress, descriptors that are
\* still in the tables belong to none. What is in the read buffer is not looked at again.
EndDecode ==
    /\ pc = "decode" /\ off = Len(readbuf)
    /\ IF ~israw /\ ~partial /\ current # <<>>
       THEN /\ closed' = Closing(closed, Range(current) \union Range(next))
            /\ current' = <<>> /\ next' = <<>>
       ELSE UNCHANGED <<closed, current, next>>
    /\ pc' = AfterRead
    /\ readbuf' = <<>> /\ off' = 0 /\ partial' = TRUE
    /\ UNCHANGED <<peer, socket, got, prot, held, ref, kept, flags, delivered>>

(***************************************************************************)
(* The program                                                              *)
(***************************************************************************)
CallbackReturn ==
    /\ pc = "callback"
    /\ pc' = "decode"
    /\ UNCHANGED <<peer, socket, got, decoding, fds, flags, delivered>>

\* The callback of a message takes a reference on its buffer.
KeepMessage ==
    /\ pc = "callback" /\ ~israw /\ held # <<>> /\ ~ref
    /\ ref' = TRUE
    /\ UNCHANGED <<peer, socket, pc, got, decoding, current, next, held, kept, closed, flags, delivered>>

\* The program gives back a reference: the last one closes the descriptors.
ReleaseMessages ==
    /\ pc \in {"idle", "callback", "removed"} /\ (ref \/ kept # {})
    /\ ref' = FALSE
    /\ kept' = {} /\ closed' = Closing(closed, kept)
    /\ UNCHANGED <<peer, socket, pc, got, decoding, current, next, held, flags, delivered>>

pomp_conn_suspend_read ==
    /\ pc \in {"idle", "callback"} /\ ~read_suspended
    /\ read_suspended' = TRUE
    /\ UNCHANGED <<peer, socket, pc, got, decoding, fds, removeflag, delivered>>

pomp_conn_resume_read ==
    /\ pc \in {"idle", "callback"} /\ read_suspended
    /\ read_suspended' = FALSE
    /\ UNCHANGED <<peer, socket, pc, got, decoding, fds, removeflag, delivered>>

\* Mutant of pomp_conn_close: only the current table is cleared.
pomp_conn_close_current ==
    /\ pc = "idle"
    /\ closed' = Closing(closed, Range(current) \union IF ref THEN {} ELSE Range(held))
    /\ kept' = IF ref THEN kept \union Range(held) ELSE kept
    /\ current' = <<>> /\ next' = <<>> /\ held' = <<>> /\ ref' = FALSE
    /\ pc' = "removed"
    /\ UNCHANGED <<peer, socket, got, decoding, flags, delivered>>

\* The context removes the connection, because of removeflag or because it is stopped: it is
\* closed, then destroyed with its decoder and the message of the decoder.
pomp_conn_close ==
    /\ pc = "idle"
    /\ closed' = Closing(closed, Range(current) \union Range(next) \union IF ref THEN {} ELSE Range(held))
    /\ kept' = IF ref THEN kept \union Range(held) ELSE kept
    /\ current' = <<>> /\ next' = <<>> /\ held' = <<>> /\ ref' = FALSE
    /\ pc' = "removed"
    /\ UNCHANGED <<peer, socket, got, decoding, flags, delivered>>

ReadStep ==
    \/ Readable
    \/ \E n \in 1 .. ReadLen : Recv(n)
    \/ \E m \in DOMAIN sent : RecvDgram(m)
    \/ WouldBlock
    \/ Eof
    \/ Decode
    \/ NotifyRaw
    \/ EndDecode
    \/ CallbackReturn

Next ==
    \/ ReadStep
    \/ KeepMessage
    \/ ReleaseMessages
    \/ pomp_conn_suspend_read
    \/ pomp_conn_resume_read
    \/ pomp_conn_close

Spec == Init /\ [][Next]_vars

\* The loop calls a connection that has something to read, callbacks return, and a connection
\* to remove is removed.
FairSpec == Spec /\ WF_vars(ReadStep) /\ WF_vars(removeflag /\ pomp_conn_close)

(***************************************************************************)
(* Properties                                                               *)
(***************************************************************************)
TypeOK ==
    /\ pc \in {"idle", "read", "decode", "callback", "removed"}
    /\ prot \in Decoder
    /\ {Len(current), Len(next), Len(held)} \subseteq 0 .. MaxFds
    /\ off \in 0 .. Len(readbuf)

\* The messages of the peer the decoder understands, from number first to number m.
Understood(first) ==
    LET upto[m \in 0 .. Len(sent)] ==
            IF m < first THEN <<>>
            ELSE IF Unknown \in Range(sent[m].args) THEN upto[m - 1]
            ELSE Append(upto[m - 1], m)
    IN  upto
Ids == IF israw THEN <<>> ELSE [i \in DOMAIN delivered |-> delivered[i].id]

WellFormed(m) ==
    /\ Unknown \notin Range(sent[m].args)
    /\ sent[m].fds = Occurrences(sent[m].args, FdArg)

AsSent(d) == /\ d.id \in DOMAIN sent /\ d.args = sent[d.id].args
             /\ kind = "local" /\ junk = <<>> /\ (\A m \in DOMAIN sent : WellFormed(m))
                => d.fds = FdsOf(d.id)

\* However the kernel cuts the stream, the program is given the messages of the peer in the
\* order they were sent, each with its own arguments and descriptors, none twice and none
\* skipped but the first when the stream starts with bytes that are no message. A raw
\* connection gives exactly the bytes read. A datagram that fits in the read buffer is
\* delivered as it was sent (pomp_conn_process_read_buf, pomp_prot_decode_msg).
DeliveredAsSent ==
    IF israw THEN kind # "dgram" => delivered = SubSeq(Stream, 1, pos - (Len(readbuf) - off))
    ELSE IF kind = "dgram" THEN ~truncated => \A i \in DOMAIN delivered : AsSent(delivered[i])
    ELSE /\ \A i \in DOMAIN delivered : AsSent(delivered[i])
         /\ \E m \in 0 .. Len(sent) : Ids = Understood(1)[m] \/ (junk # <<>> /\ Ids = Understood(2)[m])

\* Every descriptor the kernel has given is in one place: in one of the two tables, in the
\* buffer of a message, or closed once. None is lost, none is closed twice, whatever the peer
\* attaches to its messages (pomp_conn_rx_fds_*, pomp_conn_process_read_with_cmsg).
FdsAccounted ==
    \A f \in Fds :
        LET received == /\ f[1] \in DOMAIN sent /\ Carries(f[1]) /\ f[2] <= sent[f[1]].fds
                        /\ FirstByte(f[1]) <= pos
        IN  Occurrences(current, f) + Occurrences(next, f) + Occurrences(held, f) + closed[f]
                + (IF f \in kept THEN 1 ELSE 0) = IF received THEN 1 ELSE 0

\* No byte is taken from the socket while reading is suspended, be it suspended by the
\* callback of a message in the middle of pomp_conn_process_read.
SuspendedReadsNothing == [][read_suspended => pos' = pos]_vars

\* Unless the connection is removed before its stream is read, or suspended for ever, all the
\* messages of the stream are delivered.
AllDelivered ==
    kind # "dgram" /\ ~israw /\ <>[]~read_suspended
        => <>(\/ pc = "removed" /\ pos < Len(Stream)
              \/ Ids = Understood(1)[Len(sent)]
              \/ junk # <<>> /\ Ids = Understood(2)[Len(sent)])

=============================================================================
