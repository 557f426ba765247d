-------------------------------- MODULE Prot --------------------------------
(***************************************************************************)
(* The protocol decoder (pomp_prot.c): it cuts a stream of bytes, that       *)
(* comes in pieces of any size, into messages. A decoder is a record; each  *)
(* operator is the function of the same name. The 4 bytes of a message id   *)
(* and the 4 bytes of a size are one symbol each, so that a header has 6.    *)
(***************************************************************************)
EXTENDS Integers, Sequences

Magic == <<80, 79, 77, 80>>          \* 'P' 'O' 'M' 'P'
HeaderSize == Len(Magic) + 2

\* enum pomp_prot_state; HEADER_MAGIC_i is MAGIC_0 + i
IDLE == 0
MAGIC_0 == 1
HEADER == 5
PAYLOAD == 6

\* A decoder: offheader is Len(headerbuf), offpayload is Len(data), data is what is in the
\* buffer of msg, alloc tells that msg was initialised for a new header.
Decoder == [state : IDLE .. PAYLOAD, headerbuf : Seq(Nat), size : Nat, data : Seq(Nat),
            alloc : BOOLEAN]

Smaller(a, b) == IF a < b THEN a ELSE b
DropFirst(s, n) == SubSeq(s, n + 1, Len(s))

reset_state(p) == [p EXCEPT !.state = IDLE, !.headerbuf = <<>>, !.size = 0, !.data = <<>>]

pomp_prot_new == [state |-> IDLE, headerbuf |-> <<>>, size |-> 0, data |-> <<>>, alloc |-> FALSE]

check_magic(p, idx) ==
    [p EXCEPT !.state = IF p.headerbuf[idx + 1] # Magic[idx + 1] THEN MAGIC_0
                        ELSE MAGIC_0 + idx + 1]

\* Mutant of decode_header: a message without arguments is taken for a bad one.
decode_header_empty(p) ==
    LET size == p.headerbuf[HeaderSize] IN
    IF size <= HeaderSize THEN [p EXCEPT !.size = size, !.state = MAGIC_0]
    ELSE [p EXCEPT !.size = size, !.state = PAYLOAD, !.data = p.headerbuf, !.alloc = TRUE]

\* A message shorter than a header restarts the search; the header is copied into the message.
decode_header(p) ==
    LET size == p.headerbuf[HeaderSize] IN
    IF size < HeaderSize THEN [p EXCEPT !.size = size, !.state = MAGIC_0]
    ELSE [p EXCEPT !.size = size, !.state = PAYLOAD, !.data = p.headerbuf, !.alloc = TRUE]

(***************************************************************************)
(* One turn of the loop of pomp_prot_decode_msg on the rest of the input:   *)
(* the decoder after it and the number of bytes it has used                 *)
(***************************************************************************)
ReadMagic(p, in) ==
    LET q == IF p.state = MAGIC_0 THEN [reset_state(p) EXCEPT !.state = MAGIC_0] ELSE p
        r == [q EXCEPT !.headerbuf = Append(@, in[1])]
    IN  [prot |-> check_magic(r, p.state - MAGIC_0), used |-> 1]

copy_header(p, in) ==
    LET n == Smaller(Len(in), HeaderSize - Len(p.headerbuf)) IN
    [prot |-> [p EXCEPT !.headerbuf = @ \o SubSeq(in, 1, n)], used |-> n]

ReadHeader(p, in) ==
    LET c == copy_header(p, in) IN
    IF Len(c.prot.headerbuf) = HeaderSize THEN [c EXCEPT !.prot = decode_header(@)] ELSE c

copy_payload(p, in) ==
    LET n == Smaller(Len(in), p.size - Len(p.data)) IN
    [prot |-> [p EXCEPT !.data = @ \o SubSeq(in, 1, n)], used |-> n]

Turn(p, in) ==
    LET t == IF p.state = PAYLOAD THEN copy_payload(p, in)
             ELSE IF p.state = HEADER THEN ReadHeader(p, in)
             ELSE ReadMagic(p, in)
    IN  IF t.prot.state = PAYLOAD /\ Len(t.prot.data) = t.prot.size
        THEN [t EXCEPT !.prot.state = IDLE] ELSE t

\* A decoder in the loop: the rest in of the input, of which used bytes are used before.
Looping == [prot : Decoder, in : Seq(Nat), used : Nat]

\* One turn, unless the loop is over: the input is used up, or there is a message.
LoopTurn[x \in Looping] ==
    IF x.in = <<>> \/ x.prot.state = IDLE THEN x
    ELSE LET t == Turn(x.prot, x.in)
         IN  [prot |-> t.prot, in |-> DropFirst(x.in, t.used), used |-> x.used + t.used]

\* The decoder after the call, and the number of bytes used. There is a message when the
\* decoder is idle again: its bytes are data. A turn uses a byte at least, so that the loop is over after
\* Len(in) turns.
decode_msg(p, in) ==
    LET loop[i \in 0 .. Len(in)] ==
            IF i = 0
            THEN [prot |-> [p EXCEPT !.state = IF @ = IDLE THEN MAGIC_0 ELSE @, !.alloc = FALSE],
                  in |-> in, used |-> 0]
            ELSE LoopTurn[loop[i - 1]]
    IN  loop[Len(in)]

=============================================================================
