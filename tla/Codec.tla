------------------------------- MODULE Codec --------------------------------
(***************************************************************************)
(* The arguments of a message: how pomp_encoder.c writes them, how           *)
(* pomp_decoder.c reads them back, one by one or by a format, and how it     *)
(* dumps them.                                                              *)
(*                                                                          *)
(* Integers keep their width, but a byte has ByteBits bits: 32-bit and       *)
(* 64-bit integers are written as varints in groups of ByteBits - 1 bits.    *)
(* Offsets count from the end of the message header.                        *)
(***************************************************************************)
EXTENDS Integers, Sequences, SequencesExt, FiniteSets

CONSTANTS ByteBits,       \* bits in a byte, 8 in the code
          Bytes64,        \* bytes in a 64-bit integer or float
          Vals,           \* the values of each type that are written
          MaxArgs,        \* bound on the arguments of a message
          MaxCut,         \* bound on the place where a message may be cut
          MaxDecodeStr,   \* MAX_DECODE_STR
          MaxDec, MaxFlt, \* MAX_DEC, MAX_FLT
          AllocStep,      \* POMP_BUFFER_ALLOC_STEP
          FltText,        \* the length of a printed float
          DumpSizes       \* the sizes given to pomp_msg_dump

ASSUME Widths == ByteBits \in Nat \ {0, 1} /\ Bytes64 \in Nat \ {0} /\ AllocStep \in Nat \ {0}
ASSUME FloatsFit == FltText <= MaxFlt

VARIABLES
    wrote,          \* the arguments the peer has written
    data, fds,      \* the bytes of the buffer, the descriptors in it as [off, fd]
    pc,             \* "encode", "decode", then "failed" or "dumped"
    cut,            \* the message ends in the middle
    pos, got,       \* the position of the decoder, the arguments read
    mode, strsav,   \* "readv" in pomp_decoder_readv, with the number of strings it has allocated
    heap, own,      \* the copies of strings that are allocated, and those the program has
    dump            \* the destination of pomp_msg_dump or pomp_msg_adump

vars == <<wrote, data, fds, pc, cut, pos, got, mode, strsav, heap, own, dump>>

(***************************************************************************)
(* Types and sizes                                                          *)
(***************************************************************************)
\* The bytes POMP_PROT_DATA_TYPE_*
Code == [I8 |-> 1, U8 |-> 2, I16 |-> 3, U16 |-> 4, I32 |-> 5, U32 |-> 6, I64 |-> 7, U64 |-> 8,
         STR |-> 9, BUF |-> 10, F32 |-> 11, F64 |-> 12, FD |-> 13]
Types == DOMAIN Code
UnknownCode == 14

GroupBits == ByteBits - 1
W16 == 2 * ByteBits
W32 == 4 * ByteBits
W64 == Bytes64 * ByteBits

\* The number of bytes of the types that are written as they are in memory
Size == [I8 |-> 1, U8 |-> 1, I16 |-> 2, U16 |-> 2, F32 |-> 4, F64 |-> Bytes64]
FdSize == 4

\* The type a conversion of a format stands for. The length modifier is "" or hh, h, l, ll, or
\* m (an allocated string); a long has 64 bits.
Modifiers == {"", "hh", "h", "l", "ll", "m"}
Conversions == [conv : {"d", "u", "s", "p", "f", "x"}, mod : Modifiers]

Signed(m) == CASE m \in {"l", "ll"} -> "I64" [] m = "hh" -> "I8" [] m = "h" -> "I16" [] OTHER -> "I32"
Unsigned(m) == CASE m \in {"l", "ll"} -> "U64" [] m = "hh" -> "U8" [] m = "h" -> "U16" [] OTHER -> "U32"
Float(m) == CASE m \in {"ll", "h", "hh"} -> "invalid" [] m = "l" -> "F64" [] OTHER -> "F32"
Descriptor(m) == IF m \in {"ll", "l", "h", "hh"} THEN "invalid" ELSE "FD"

\* encoder_writev_internal: m is no modifier there
EncType(c) ==
    CASE c.mod = "m"  -> "invalid"
      [] c.conv = "d" -> Signed(c.mod)
      [] c.conv = "u" -> Unsigned(c.mod)
      [] c.conv = "s" -> "STR"
      [] c.conv = "p" -> "BUF"
      [] c.conv = "f" -> Float(c.mod)
      [] c.conv = "x" -> Descriptor(c.mod)

\* pomp_decoder_readv: a string has to be allocated
DecType(c) ==
    CASE c.conv = "d" -> Signed(c.mod)
      [] c.conv = "u" -> Unsigned(c.mod)
      [] c.conv = "s" -> IF c.mod = "m" THEN "STR" ELSE "invalid"
      [] c.conv = "p" -> "BUF"
      [] c.conv = "f" -> Float(c.mod)
      [] c.conv = "x" -> Descriptor(c.mod)

(***************************************************************************)
(* Integers                                                                 *)
(***************************************************************************)
ToUnsigned(v, w) == v % 2^w
ToSigned(d, w) == LET u == d % 2^w IN IF u >= 2^(w - 1) THEN u - 2^w ELSE u

\* (v << 1) ^ (v >> (w - 1)) as an unsigned integer
Zigzag(v, w) == LET d == (2 * v) % 2^w IN IF v < 0 THEN 2^w - 1 - d ELSE d

\* (d >> 1) ^ -(d & 1)
Unzigzag(d, w) == LET h == ToSigned(d \div 2, w) IN IF d % 2 = 1 THEN -h - 1 ELSE h

LittleEndian(v, n) == [i \in 1 .. n |-> (v \div 2^(ByteBits * (i - 1))) % 2^ByteBits]
FromLittleEndian(s) == FoldRight(LAMBDA b, v : b + 2^ByteBits * v, s, 0)

\* encoder_write_varint
Varint[v \in Nat] ==
    IF v < 2^GroupBits THEN <<v>>
    ELSE <<(v % 2^GroupBits) + 2^GroupBits>> \o Varint[v \div 2^GroupBits]

(***************************************************************************)
(* The encoder                                                              *)
(***************************************************************************)
\* The bytes that pomp_encoder_write_i8 ... pomp_encoder_write_fd write after the type
Body(t, v) ==
    CASE t \in DOMAIN Size -> LittleEndian(ToUnsigned(v, Size[t] * ByteBits), Size[t])
      [] t = "I32" -> Varint[Zigzag(v, W32)]
      [] t = "I64" -> Varint[Zigzag(v, W64)]
      [] t \in {"U32", "U64"} -> Varint[v]
      [] t = "STR" -> Varint[Len(v) + 1] \o v \o <<0>>
      [] t = "BUF" -> Varint[Len(v)] \o v
      [] t = "FD"  -> [i \in 1 .. FdSize |-> 0]

Arg(t, v) == [type |-> t, v |-> v]

Init ==
    /\ wrote = <<>> /\ data = <<>> /\ fds = {}
    /\ pc = "encode" /\ cut = FALSE
    /\ pos = 0 /\ got = <<>>
    /\ mode = "idle" /\ strsav = 0 /\ heap = 0 /\ own = 0
    /\ dump = [max |-> 0, pos |-> 0, nul |-> 0, grow |-> FALSE, ellipsis |-> FALSE, res |-> 0]

\* One conversion of encoder_writev_internal, or one call of pomp_encoder_write_*. What is refused
\* leaves the message as it was: an invalid conversion, a string whose length with its null byte
\* does not fit in 16 bits.
pomp_encoder_writev(c, v) ==
    LET t == EncType(c) IN
    /\ pc = "encode" /\ Len(wrote) < MaxArgs
    /\ t = "STR" => Len(v) + 1 <= 2^W16 - 1
    /\ wrote' = Append(wrote, Arg(t, v))
    /\ data' = data \o <<Code[t]>> \o Body(t, v)
    /\ fds' = fds \union (IF t = "FD" THEN {[off |-> Len(data) + 1, fd |-> v]} ELSE {})
    /\ UNCHANGED <<pc, cut, pos, got, mode, strsav, heap, own, dump>>

\* pomp_encoder_write_fd when dup or pomp_buffer_register_fd fails: the type and the place of the
\* descriptor stay in the message. A program with an encoder of its own may go on.
pomp_encoder_write_fd_fails ==
    /\ pc = "encode" /\ Len(wrote) < MaxArgs
    /\ wrote' = Append(wrote, Arg("lost", 0))
    /\ data' = data \o <<Code["FD"]>> \o Body("FD", 0)
    /\ UNCHANGED <<fds, pc, cut, pos, got, mode, strsav, heap, own, dump>>

\* A peer with a newer protocol: the type is not known here.
WriteUnknown ==
    /\ pc = "encode" /\ Len(wrote) < MaxArgs
    /\ wrote' = Append(wrote, Arg("unknown", 0))
    /\ data' = Append(data, UnknownCode)
    /\ UNCHANGED <<fds, pc, cut, pos, got, mode, strsav, heap, own, dump>>

\* The message is there to be read, as a whole or cut after n bytes (by a peer that ran out of
\* memory in pomp_buffer_write, or by a datagram that was too short).
pomp_decoder_init(n) ==
    /\ pc = "encode" /\ (n <= MaxCut \/ n >= Len(data) - 1)
    /\ pc' = "decode" /\ cut' = (n < Len(data))
    /\ data' = SubSeq(data, 1, n) /\ fds' = {r \in fds : r.off + FdSize <= n}
    /\ UNCHANGED <<wrote, pos, got, mode, strsav, heap, own, dump>>

(***************************************************************************)
(* The decoder                                                              *)
(***************************************************************************)
Ok(p, v) == [res |-> "ok", pos |-> p, v |-> v]
Err(p) == [res |-> "error", pos |-> p, v |-> 0]

\* pomp_buffer_read and pomp_buffer_cread: n bytes at p
read(p, n) == IF p + n <= Len(data) THEN Ok(p + n, SubSeq(data, p + 1, p + n)) ELSE Err(p)

\* decoder_read_varint at p, after the type
read_varint[p \in Nat] ==
    LET b == data[p + 1]
        rest == read_varint[p + 1]
    IN  IF p >= Len(data) THEN Err(p)
        ELSE IF b < 2^GroupBits THEN Ok(p + 1, b)
        ELSE IF rest.res = "ok" THEN Ok(rest.pos, (b % 2^GroupBits) + 2^GroupBits * rest.v)
        ELSE rest

\* Result r, when there is one, with its value converted by F
Convert(r, F(_)) == IF r.res = "ok" THEN Ok(r.pos, F(r.v)) ELSE r

\* pomp_decoder_read_cstr after the type: the last byte has to be null
read_cstr(p) ==
    LET n == read_varint[p]
        len == n.v % 2^W16
        s == read(n.pos, len)
    IN  IF n.res # "ok" THEN n
        ELSE IF len = 0 THEN Err(n.pos)
        ELSE IF s.res # "ok" THEN s
        ELSE IF s.v[len] # 0 THEN Err(s.pos)
        ELSE Ok(s.pos, SubSeq(s.v, 1, len - 1))

\* pomp_decoder_read_cbuf after the type
read_cbuf(p) ==
    LET n == read_varint[p] IN IF n.res # "ok" THEN n ELSE read(n.pos, n.v % 2^W32)

\* pomp_buffer_read_fd: the descriptor has to be registered at this place.
read_fd(p) == IF \E r \in fds : r.off = p THEN Ok(p + FdSize, (CHOOSE r \in fds : r.off = p).fd) ELSE Err(p)

\* What follows the type
ReadBody(t, p) ==
    CASE t \in {"I8", "I16"} -> Convert(read(p, Size[t]), LAMBDA s : ToSigned(FromLittleEndian(s), Size[t] * ByteBits))
      [] t \in {"U8", "U16", "F32", "F64"} -> Convert(read(p, Size[t]), FromLittleEndian)
      [] t = "I32" -> Convert(read_varint[p], LAMBDA d : Unzigzag(d, W32))
      [] t = "I64" -> Convert(read_varint[p], LAMBDA d : Unzigzag(d, W64))
      [] t = "U32" -> Convert(read_varint[p], LAMBDA d : d % 2^W32)
      [] t = "U64" -> read_varint[p]
      [] t = "STR" -> read_cstr(p)
      [] t = "BUF" -> read_cbuf(p)
      [] t = "FD"  -> read_fd(p)

\* Mutant of pomp_decoder_read: the decoder does not go back over a type that was not expected.
pomp_decoder_read_norewind(t, p) ==
    IF p >= Len(data) THEN Err(p)
    ELSE IF data[p + 1] # Code[t] THEN [Err(p + 1) EXCEPT !.res = "mismatch"]
    ELSE ReadBody(t, p + 1)

\* pomp_decoder_read_i8 ... pomp_decoder_read_fd at p: the type is checked first, and the decoder
\* goes back when another one is there.
pomp_decoder_read(t, p) ==
    IF p >= Len(data) THEN Err(p)
    ELSE IF data[p + 1] # Code[t] THEN [Err(p) EXCEPT !.res = "mismatch"]
    ELSE ReadBody(t, p + 1)

\* A call of one of the typed functions. pomp_decoder_read_str and pomp_decoder_read_buf make a copy
\* for the program. A program that gets another error than a mismatch gives up.
Read(t) ==
    LET r == pomp_decoder_read(t, pos) IN
    /\ pc = "decode" /\ mode = "idle"
    /\ pos' = r.pos
    /\ \/ /\ r.res = "ok"
          /\ got' = Append(got, Arg(t, r.v))
          /\ heap' = IF t \in {"STR", "BUF"} THEN heap + 1 ELSE heap
          /\ own' = IF t \in {"STR", "BUF"} THEN own + 1 ELSE own
          /\ UNCHANGED pc
       \/ r.res = "mismatch" /\ UNCHANGED <<got, heap, own, pc>>
       \/ r.res = "error" /\ pc' = "failed" /\ UNCHANGED <<got, heap, own>>
    /\ UNCHANGED <<wrote, data, fds, cut, mode, strsav, dump>>

\* strdup or malloc fails: what was read is lost.
ReadNoMemory(t) ==
    /\ pc = "decode" /\ mode = "idle" /\ t \in {"STR", "BUF"}
    /\ pomp_decoder_read(t, pos).res = "ok"
    /\ pos' = pomp_decoder_read(t, pos).pos /\ pc' = "failed"
    /\ UNCHANGED <<wrote, data, fds, cut, got, mode, strsav, heap, own, dump>>

pomp_decoder_readv ==
    /\ pc = "decode" /\ mode = "idle"
    /\ mode' = "readv" /\ strsav' = 0
    /\ UNCHANGED <<wrote, data, fds, pc, cut, pos, got, heap, own, dump>>

\* Mutant of ReadvError: the last string is left.
ReadvErrorLast(p, failed) ==
    /\ pos' = p /\ mode' = "idle" /\ strsav' = 0
    /\ heap' = heap - (IF strsav > 0 THEN strsav - 1 ELSE 0)
    /\ pc' = IF failed THEN "failed" ELSE pc
    /\ UNCHANGED got

\* The end of pomp_decoder_readv in case of error: the strings of this call are freed.
ReadvError(p, failed) ==
    /\ pos' = p /\ mode' = "idle" /\ strsav' = 0
    /\ heap' = heap - strsav
    /\ pc' = IF failed THEN "failed" ELSE pc
    /\ UNCHANGED got

\* One conversion of pomp_decoder_readv
ReadvConversion(c) ==
    LET t == DecType(c)
        r == pomp_decoder_read(t, pos)
        refused == t = "invalid" \/ (t = "STR" /\ strsav = MaxDecodeStr)
    IN  /\ pc = "decode" /\ mode = "readv"
        /\ \/ refused /\ ReadvError(pos, FALSE)
           \/ ~refused /\ r.res # "ok" /\ ReadvError(r.pos, r.res = "error")
           \/ ~refused /\ r.res = "ok" /\ t = "STR" /\ ReadvError(r.pos, TRUE)    \* strdup fails
           \/ /\ ~refused /\ r.res = "ok"
              /\ pos' = r.pos /\ got' = Append(got, Arg(t, r.v))
              /\ strsav' = IF t = "STR" THEN strsav + 1 ELSE strsav
              /\ heap' = IF t = "STR" THEN heap + 1 ELSE heap
              /\ UNCHANGED <<pc, mode>>
        /\ UNCHANGED <<wrote, data, fds, cut, own, dump>>

\* The end of the format: the program has to free the strings.
ReadvEnd ==
    /\ mode = "readv"
    /\ mode' = "idle" /\ own' = own + strsav /\ strsav' = 0
    /\ UNCHANGED <<wrote, data, fds, pc, cut, pos, got, heap, dump>>

(***************************************************************************)
(* The dump                                                                 *)
(***************************************************************************)
\* pomp_decoder_walk: the arguments from p on, up to the first error
Walk[p \in Nat] ==
    LET ts == {t \in Types : Code[t] = data[p + 1]}
        t == CHOOSE x \in ts : TRUE
        r == pomp_decoder_read(t, p)
        rest == Walk[r.pos]
    IN  IF p >= Len(data) THEN [ok |-> TRUE, args |-> <<>>]
        ELSE IF ts = {} THEN [ok |-> FALSE, args |-> <<>>]
        ELSE IF r.res # "ok" THEN [ok |-> FALSE, args |-> <<>>]
        ELSE [ok |-> rest.ok, args |-> <<Arg(t, r.v)>> \o rest.args]

Digits[n \in Int] == IF n < 0 THEN 1 + Digits[-n] ELSE IF n < 10 THEN 1 ELSE 1 + Digits[n \div 10]

\* The text of an argument, as [n, add]: its length, and the length that decoder_dump_cb declares
Text(a) ==
    CASE a.type \in {"I8", "U8", "FD"} -> [n |-> 5 + Digits[a.v], add |-> 5 + MaxDec]
      [] a.type \in {"I16", "U16", "I32", "U32", "I64", "U64"} -> [n |-> 6 + Digits[a.v], add |-> 6 + MaxDec]
      [] a.type = "STR" -> [n |-> 8 + Len(a.v), add |-> 6 + Len(a.v)]
      [] a.type = "BUF" -> [n |-> 6, add |-> 6]
      [] a.type \in {"F32", "F64"} -> [n |-> 6 + FltText, add |-> 6 + MaxFlt]

IdText == [n |-> 5, add |-> 4 + MaxDec]
EndText == [n |-> 1, add |-> 1]

Align(n) == ((n + AllocStep - 1) \div AllocStep) * AllocStep

\* Mutant of dump_append: a text that takes the last byte too is not noticed.
dump_append_last(d, t) ==
    LET max == IF d.pos + t.add >= d.max /\ d.grow THEN Align(d.pos + t.add + 1) ELSE d.max
        full == t.n > max - d.pos
        end == IF full THEN max - 1 ELSE d.pos + t.n
    IN  IF d.pos >= max THEN [d EXCEPT !.max = max]
        ELSE [d EXCEPT !.max = max, !.pos = IF full THEN max ELSE @ + t.n,
                       !.nul = IF @ = d.pos THEN end ELSE @]

\* dump_append: the destination grows by what is declared, a text that does not fit is cut. nul is
\* the place of the first null byte, where the text ends for whoever reads it: a text that is put
\* further does not move it.
dump_append(d, t) ==
    LET max == IF d.pos + t.add >= d.max /\ d.grow THEN Align(d.pos + t.add + 1) ELSE d.max
        full == t.n >= max - d.pos
        end == IF full THEN max - 1 ELSE d.pos + t.n
    IN  IF d.pos >= max THEN [d EXCEPT !.max = max]
        ELSE [d EXCEPT !.max = max, !.pos = IF full THEN max ELSE @ + t.n,
                       !.nul = IF @ = d.pos THEN end ELSE @]

\* decoder_dump into d: the id, the arguments, the end unless the walk has failed, an ellipsis
decoder_dump(d) ==
    LET w == Walk[0]
        args == FoldLeft(LAMBDA e, a : dump_append(e, Text(a)), dump_append(d, IdText), w.args)
        e == IF w.ok THEN dump_append(args, EndText) ELSE args
    IN  [e EXCEPT !.ellipsis = e.pos >= e.max /\ e.max >= 5 /\ ~e.grow,
                  !.res = IF w.ok \/ (e.pos >= e.max /\ ~e.grow) THEN 0 ELSE -1]

\* pomp_msg_dump with a destination of max bytes
pomp_msg_dump(max) ==
    /\ pc = "decode" /\ pos = 0 /\ mode = "idle"
    /\ pc' = "dumped"
    /\ dump' = decoder_dump([dump EXCEPT !.max = max])
    /\ UNCHANGED <<wrote, data, fds, cut, pos, got, mode, strsav, heap, own>>

\* pomp_msg_adump: the destination is allocated, and grows
pomp_msg_adump ==
    /\ pc = "decode" /\ pos = 0 /\ mode = "idle"
    /\ pc' = "dumped"
    /\ dump' = decoder_dump([dump EXCEPT !.grow = TRUE])
    /\ UNCHANGED <<wrote, data, fds, cut, pos, got, mode, strsav, heap, own>>

Next ==
    \/ \E c \in Conversions : EncType(c) \in Types /\ \E v \in Vals[EncType(c)] : pomp_encoder_writev(c, v)
    \/ pomp_encoder_write_fd_fails
    \/ WriteUnknown
    \/ \E n \in 0 .. Len(data) : pomp_decoder_init(n)
    \/ \E t \in Types : Read(t)
    \/ \E t \in Types : ReadNoMemory(t)
    \/ pomp_decoder_readv
    \/ \E c \in Conversions : ReadvConversion(c)
    \/ ReadvEnd
    \/ \E max \in DumpSizes : pomp_msg_dump(max)
    \/ pomp_msg_adump

Spec == Init /\ [][Next]_vars

(***************************************************************************)
(* Properties                                                               *)
(***************************************************************************)
TypeOK ==
    /\ pc \in {"encode", "decode", "failed", "dumped"} /\ mode \in {"idle", "readv"}
    /\ cut \in BOOLEAN
    /\ pos \in Nat /\ strsav \in 0 .. MaxDecodeStr /\ heap \in Nat /\ own \in Nat
    /\ \A i \in DOMAIN data : data[i] \in 0 .. 2^ByteBits - 1
    /\ \A i \in DOMAIN got : got[i].type \in Types

\* What is read is what was written, in order, value by value, whatever the functions that are tried
\* on an argument of another type, the errors of pomp_decoder_readv and the place where the message
\* is cut; the decoder never passes the end of the buffer, and is at the end only when all is read.
\* The next argument can be read by the function of its type, unless the type is not known.
RoundTrip ==
    /\ Len(got) <= Len(wrote)
    /\ \A i \in DOMAIN got : got[i].type = wrote[i].type /\ got[i].v = wrote[i].v
    /\ pos <= Len(data)
    /\ pc = "decode" /\ ~cut =>
        /\ pos = Len(data) => Len(got) = Len(wrote)
        /\ LET a == wrote[Len(got) + 1] IN
           Len(got) < Len(wrote) /\ a.type \in Types
               => pomp_decoder_read(a.type, pos) = Ok(pos + 1 + Len(Body(a.type, a.v)), a.v)

\* Outside of pomp_decoder_readv the copies that are allocated are those the program was given: a call
\* that fails at any conversion, for any reason, frees the strings of the ones before it.
StringsOwned == mode = "idle" => heap = own

\* The length of the text of the message
FullText == FoldLeft(LAMBDA n, a : n + Text(a).n, IdText.n, wrote) + EndText.n
Printable == ~cut /\ \A i \in DOMAIN wrote : wrote[i].type \in Types

\* pomp_msg_dump shows the whole text when it fits with its null byte, and otherwise all that does,
\* with an ellipsis if there is room for one: it is never longer than the destination and never
\* shorter than it could be.
DumpShown ==
    pc = "dumped" /\ ~dump.grow /\ Printable /\ dump.max > 0 =>
        IF FullText < dump.max
        THEN dump.nul = FullText /\ ~dump.ellipsis
        ELSE dump.nul = dump.max - 1 /\ (dump.ellipsis <=> dump.max >= 5)

\* The comment on pomp_msg_adump: the destination is allocated to a suitable size.
AdumpComplete == pc = "dumped" /\ dump.grow /\ Printable => dump.nul = FullText

=============================================================================
