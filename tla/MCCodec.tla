------------------------------ MODULE MCCodec -------------------------------
(***************************************************************************)
(* Codec with bytes of 4 bits: a 32-bit integer has 16 bits, a 64-bit one 28 *)
(* bits, which is 10 groups of a varint as in the code.                     *)
(***************************************************************************)
EXTENDS Codec

\* A string of n characters
Chars(n) == [i \in 1 .. n |-> 5]

\* The ends of each type, and the values around a change of the number of groups. The longest
\* string that can be written, and one more.
MCVals ==
    [I8  |-> {-8, -1, 7},          U8  |-> {0, 9},
     I16 |-> {-128, -1, 127},      U16 |-> {0, 255},
     I32 |-> {-32768, -5, -4, -1, 0, 3, 4, 32767},
     U32 |-> {0, 7, 8, 65535},
     I64 |-> {-134217728, -1, 134217727},
     U64 |-> {0, 63, 64, 268435455},
     STR |-> {Chars(0), Chars(6), Chars(7), Chars(20), Chars(254), Chars(255)},
     BUF |-> {<<>>, <<0, 9, 15>>},
     F32 |-> {40000},              F64 |-> {200000000},
     FD  |-> {3}]

=============================================================================
