--------------------------- MODULE ConnSendProofs ---------------------------
(***************************************************************************)
(* Proofs about the sending side of a connection: whatever the number of    *)
(* buffers, their lengths and the depth of the calls, the peer gets their   *)
(* bytes in order, and the program is told of every buffer once, in order   *)
(* and truthfully.                                                          *)
(*                                                                         *)
(* The buffers accepted are, in their order: those notified, those whose    *)
(* notification waits in the loop, and those in the queue (Ordered). The    *)
(* socket has taken the first t buffers and k bytes of the next one         *)
(* (Taken), and that is where the queue begins, until pomp_conn_close       *)
(* aborts what is left of it (WireInv).                                     *)
(***************************************************************************)
EXTENDS ConnSend, FiniteSetTheorems, SequenceTheorems, TLAPS

\* A leaf that names no prover is for Zenon.
USE Zenon

(***************************************************************************)
(* The inductive invariant                                                  *)
(***************************************************************************)
\* The function at the bottom of the stack, called by the loop or by the program.
Bottom == IF stack = <<>> THEN "none" ELSE stack[1]

\* The functions that are called by the loop, or by the stop of the context, and by no other.
Outermost == {"read", "write", "end", "clear", "abort", "eventcb"}

\* pomp_conn_close has notified what waited in the loop, and aborts the queue or is done.
Aborting == ~open \/ Bottom = "abort"

FlagsType ==
    /\ out \in BOOLEAN /\ shut \in BOOLEAN /\ removeflag \in BOOLEAN /\ open \in BOOLEAN
    /\ revents \subseteq {"IN", "OUT", "ERR"}

StackInv ==
    /\ stack \in Seq(Library \cup Program)
    /\ \A i \in 2 .. Len(stack) : stack[i] \notin Outermost

\* Nothing is accepted or written any more once the connection is closing.
ShutInv ==
    /\ Bottom = "clear" => shut
    /\ Aborting => shut /\ idlecbs = <<>>
    /\ ~open => queue = <<>>

\* The buffers of L are those of the notifications made and of the notifications that wait, then
\* those of the queue, of which only the first one may be written in part.
Ordered(nt, ic, q, L) ==
    /\ L \in Seq(Lengths) /\ Len(L) <= MaxSends
    /\ nt \in Seq(Notice) /\ ic \in Seq(Notice) /\ q \in Seq([buf : Nat, off : Nat])
    /\ Len(nt) + Len(ic) + Len(q) = Len(L)
    /\ \A i \in 1 .. Len(nt) : nt[i].buf = i
    /\ \A i \in 1 .. Len(ic) : ic[i].buf = Len(nt) + i /\ ic[i].status.sent = TRUE
    /\ \A i \in 1 .. Len(q) :
          /\ q[i].buf = Len(nt) + Len(ic) + i
          /\ q[i].off < L[Len(nt) + Len(ic) + i]
          /\ i > 1 => q[i].off = 0

\* The i-th byte that the socket has taken is byte n of buffer b.
Byte(w, i, b, n) == w[i][1] = b /\ w[i][2] = n

\* WireInOrder for a wire w and buffers of the lengths L.
InOrder(w, L) ==
    /\ w # <<>> => Byte(w, 1, 1, 1)
    /\ \A i \in 1 .. Len(w) - 1 :
          IF w[i][2] < L[w[i][1]] THEN Byte(w, i + 1, w[i][1], w[i][2] + 1)
          ELSE Byte(w, i + 1, w[i][1] + 1, 1)

\* The socket has taken the last byte of buffer c.
Whole(w, L, c) == \E j \in 1 .. Len(w) : Byte(w, j, c, L[c])

\* There may be t whole buffers and k bytes of the next one.
Position(L, t, k) ==
    /\ L \in Seq(Nat \ {0}) /\ t \in 0 .. Len(L) /\ k \in Nat
    /\ k > 0 => t < Len(L) /\ k < L[t + 1]

\* The bytes of w are those of the first t buffers and the first k bytes of the next one.
Taken(w, L, t, k) ==
    /\ Position(L, t, k)
    /\ w \in Seq(Nat \X Nat) /\ \A i \in 1 .. Len(w) : w[i][1] \in 1 .. Len(L)
    /\ IF w = <<>> THEN t = 0 /\ k = 0
       ELSE IF k = 0 THEN t > 0 /\ Byte(w, Len(w), t, L[t])
       ELSE Byte(w, Len(w), t + 1, k)
    /\ InOrder(w, L)
    /\ \A c \in 1 .. Len(L) : Whole(w, L, c) <=> c <= t

\* The buffers notified as sent are the first t ones.
Told(nt, t) == \A i \in 1 .. Len(nt) : nt[i].status.sent = TRUE <=> i <= t

\* What has been taken of the first buffer of the queue.
Offset(q) == IF q = <<>> THEN 0 ELSE q[1].off

WireInv ==
    \E t \in Nat, k \in Nat :
        /\ Taken(wire, len, t, k)
        /\ Told(notified, t)
        /\ t <= Len(notified) + Len(idlecbs)
        /\ ~Aborting => t = Len(notified) + Len(idlecbs) /\ k = Offset(queue)

SendInv ==
    /\ FlagsType /\ StackInv /\ ShutInv
    /\ idle = idlecbs /\ Ordered(notified, idlecbs, queue, len)
    /\ WireInv

(***************************************************************************)
(* What the socket has taken                                                *)
(***************************************************************************)
\* A buffer more changes nothing.
LEMMA Longer ==
  ASSUME NEW w, NEW L, NEW t, NEW k, NEW l \in Nat \ {0}, Taken(w, L, t, k)
  PROVE  Taken(w, Append(L, l), t, k)
  <1>. DEFINE K == Append(L, l)
  <1>1. /\ K \in Seq(Nat \ {0}) /\ Len(K) = Len(L) + 1 /\ Len(L) \in Nat
        /\ \A i \in 1 .. Len(L) : K[i] = L[i]
    BY SMT, AppendProperties DEF Taken, Position
  <1>. HIDE DEF K
  <1>2. w \in Seq(Nat \X Nat) /\ Len(w) \in Nat
    BY LenProperties DEF Taken
  <1>3. \A i \in 1 .. Len(w) : w[i][1] \in 1 .. Len(L) /\ K[w[i][1]] = L[w[i][1]]
    BY <1>1 DEF Taken
  <1>4. InOrder(w, K)
    <2>1. InOrder(w, L)
      BY DEF Taken
    <2>2. \A i \in 1 .. Len(w) - 1 : i \in 1 .. Len(w)
      BY SMT, <1>2
    <2>. QED  BY <1>3, <2>1, <2>2 DEF InOrder
  <1>5. ASSUME NEW c \in 1 .. Len(K) PROVE Whole(w, K, c) <=> c <= t
    <2>1. CASE c = Len(L) + 1
      <3>1. \A j \in 1 .. Len(w) : w[j][1] # c
        BY SMT, <1>1, <1>3, <2>1
      <3>2. ~(c <= t)
        BY SMT, <1>1, <2>1 DEF Taken, Position
      <3>. QED  BY <3>1, <3>2 DEF Whole, Byte
    <2>2. CASE c \in 1 .. Len(L)
      <3>1. Whole(w, K, c) <=> Whole(w, L, c)
        BY <1>1, <2>2 DEF Whole
      <3>. QED  BY <2>2, <3>1 DEF Taken
    <2>. QED  BY SMT, <1>1, <2>1, <2>2
  <1>6. Position(K, t, k)
    <2>1. Position(L, t, k)
      BY DEF Taken
    <2>. QED  BY SMTT(20), <1>1, <2>1 DEF Position
  <1>7. t > 0 => K[t] = L[t]
    BY SMT, <1>1 DEF Taken, Position
  <1>8. \A i \in 1 .. Len(w) : w[i][1] \in 1 .. Len(K)
    BY SMT, <1>1, <1>3
  <1>. QED  BY <1>2, <1>4, <1>5, <1>6, <1>7, <1>8 DEF Taken, K

\* The n bytes of buffer b that follow its first k ones.
Bytes(b, k, n) == [i \in 1 .. n |-> <<b, k + i>>]

LEMMA BytesAre ==
  ASSUME NEW b \in Nat, NEW k \in Nat, NEW n \in Nat
  PROVE  /\ Bytes(b, k, n) \in Seq(Nat \X Nat) /\ Len(Bytes(b, k, n)) = n
         /\ \A i \in 1 .. n : Byte(Bytes(b, k, n), i, b, k + i)
  <1>1. \A i \in 1 .. n : <<b, k + i>> \in Nat \X Nat /\ <<b, k + i>>[1] = b /\ <<b, k + i>>[2] = k + i
    BY SMT
  <1>2. Bytes(b, k, n) \in [1 .. n -> Nat \X Nat]
    BY <1>1 DEF Bytes
  <1>3. Bytes(b, k, n) \in Seq(Nat \X Nat)
    BY <1>2, SeqDef
  <1>4. Len(Bytes(b, k, n)) = n
    BY SMT, <1>2, <1>3, LenProperties
  <1>. QED  BY <1>1, <1>3, <1>4 DEF Bytes, Byte

\* The wire with n bytes more.
LEMMA MoreBytes ==
  ASSUME NEW w \in Seq(Nat \X Nat), NEW b \in Nat, NEW k \in Nat, NEW n \in Nat
  PROVE  LET v == w \o Bytes(b, k, n)
         IN  /\ v \in Seq(Nat \X Nat) /\ Len(v) = Len(w) + n /\ Len(w) \in Nat
             /\ \A i \in 1 .. Len(w) : v[i] = w[i]
             /\ \A i \in 1 .. n : Byte(v, Len(w) + i, b, k + i)
  <1>. DEFINE u == Bytes(b, k, n)
  <1>1. u \in Seq(Nat \X Nat) /\ Len(u) = n /\ \A i \in 1 .. n : Byte(u, i, b, k + i)
    BY BytesAre
  <1>. HIDE DEF u
  <1>2. /\ w \o u \in Seq(Nat \X Nat) /\ Len(w \o u) = Len(w) + n /\ Len(w) \in Nat
        /\ \A i \in 1 .. Len(w) + n : (w \o u)[i] = IF i <= Len(w) THEN w[i] ELSE u[i - Len(w)]
    BY <1>1, ConcatProperties, LenProperties
  <1>3. \A i \in 1 .. n : (w \o u)[Len(w) + i] = u[i]
    <2>1. \A i \in 1 .. n : Len(w) + i \in 1 .. Len(w) + n /\ ~(Len(w) + i <= Len(w)) /\ (Len(w) + i) - Len(w) = i
      BY SMT, <1>2
    <2>. QED  BY <1>2, <2>1
  <1>4. \A i \in 1 .. n : Byte(w \o u, Len(w) + i, b, k + i)
    BY <1>1, <1>3 DEF Byte
  <1>5. \A i \in 1 .. Len(w) : (w \o u)[i] = w[i]
    BY SMT, <1>2
  <1>. QED  BY <1>2, <1>4, <1>5 DEF u

\* The socket takes n bytes more of the buffer it is at.
LEMMA Written ==
  ASSUME NEW w, NEW L, NEW t, NEW k, NEW n \in Nat, Taken(w, L, t, k), t < Len(L), k + n <= L[t + 1]
  PROVE  LET v == w \o Bytes(t + 1, k, n)
         IN  IF k + n = L[t + 1] THEN Taken(v, L, t + 1, 0) ELSE Taken(v, L, t, k + n)
  <1>. DEFINE v == w \o Bytes(t + 1, k, n)
  <1>0. /\ L \in Seq(Nat \ {0}) /\ Len(L) \in Nat /\ t \in Nat /\ k \in Nat /\ w \in Seq(Nat \X Nat)
        /\ t + 1 \in 1 .. Len(L) /\ L[t + 1] \in Nat \ {0} /\ k < L[t + 1]
    BY SMT, LenProperties DEF Taken, Position
  <1>1. /\ v \in Seq(Nat \X Nat) /\ Len(v) = Len(w) + n /\ Len(w) \in Nat
        /\ \A i \in 1 .. Len(w) : v[i] = w[i]
        /\ \A i \in 1 .. n : Byte(v, Len(w) + i, t + 1, k + i)
    <2>1. t + 1 \in Nat
      BY SMT, <1>0
    <2>. QED  BY <1>0, <2>1, MoreBytes
  <1>. HIDE DEF v
  <1>2. \A i \in 1 .. Len(v) : i \in 1 .. Len(w) \/ \E j \in 1 .. n : i = Len(w) + j
    <2>. SUFFICES ASSUME NEW i \in 1 .. Len(v), i \notin 1 .. Len(w)
                  PROVE  \E j \in 1 .. n : i = Len(w) + j
      OBVIOUS
    <2>1. i - Len(w) \in 1 .. n /\ i = Len(w) + (i - Len(w))
      BY SMT, <1>1
    <2>. QED  BY <2>1
  <1>3. \A i \in 1 .. Len(v) : v[i][1] \in 1 .. Len(L)
    <2>1. \A i \in 1 .. Len(w) : v[i][1] \in 1 .. Len(L)
      BY <1>1 DEF Taken
    <2>2. \A j \in 1 .. n : v[Len(w) + j][1] \in 1 .. Len(L)
      BY <1>0, <1>1 DEF Byte
    <2>. QED  BY <1>2, <2>1, <2>2
  <1>4. IF w = <<>> THEN t = 0 /\ k = 0
        ELSE IF k = 0 THEN t > 0 /\ Byte(w, Len(w), t, L[t]) ELSE Byte(w, Len(w), t + 1, k)
    BY DEF Taken
  <1>5. InOrder(v, L)
    <2>0. InOrder(w, L)
      BY DEF Taken
    <2>1. ASSUME v # <<>> PROVE Byte(v, 1, 1, 1)
      <3>1. CASE w = <<>>
        <4>1. Len(w) = 0 /\ Len(v) > 0 /\ t = 0 /\ k = 0
          BY SMT, <1>1, <1>4, <2>1, <3>1
        <4>2. 1 \in 1 .. n
          BY SMT, <1>1, <4>1
        <4>. QED  BY SMT, <1>1, <4>1, <4>2
      <3>2. CASE w # <<>>
        <4>1. 1 \in 1 .. Len(w)
          BY SMT, <1>0, <1>1, <3>2
        <4>. QED  BY <1>1, <2>0, <3>2, <4>1 DEF InOrder, Byte
      <3>. QED  BY <3>1, <3>2
    <2>. DEFINE Goal(i) == IF v[i][2] < L[v[i][1]] THEN Byte(v, i + 1, v[i][1], v[i][2] + 1)
                           ELSE Byte(v, i + 1, v[i][1] + 1, 1)
    <2>2. ASSUME NEW i \in 1 .. Len(w) - 1 PROVE Goal(i)
      <3>1. i \in 1 .. Len(w) /\ i + 1 \in 1 .. Len(w)
        BY SMT, <1>1
      <3>2. v[i] = w[i] /\ v[i + 1] = w[i + 1]
        BY <1>1, <3>1
      <3>. QED  BY SMT, <2>0, <3>2 DEF InOrder, Byte
    <2>3. ASSUME Len(w) > 0, n > 0 PROVE Goal(Len(w))
      <3>1. w # <<>> /\ v[Len(w)] = w[Len(w)] /\ Byte(v, Len(w) + 1, t + 1, k + 1)
        <4>1. Len(w) \in 1 .. Len(w) /\ 1 \in 1 .. n /\ w # <<>>
          BY SMT, <1>1, <2>3
        <4>. QED  BY <1>1, <4>1
      <3>2. CASE k = 0
        <4>1. v[Len(w)][1] = t /\ v[Len(w)][2] = L[t] /\ ~(L[t] < L[t])
          BY SMT, <1>0, <1>4, <3>1, <3>2 DEF Byte
        <4>. QED  BY SMT, <3>1, <3>2, <4>1
      <3>3. CASE k > 0
        <4>1. v[Len(w)][1] = t + 1 /\ v[Len(w)][2] = k
          BY SMT, <1>0, <1>4, <3>1, <3>3 DEF Byte
        <4>. QED  BY <1>0, <3>1, <3>3, <4>1
      <3>. QED  BY SMT, <1>0, <3>2, <3>3
    <2>4. ASSUME NEW j \in 1 .. n - 1 PROVE Goal(Len(w) + j)
      <3>1. j \in 1 .. n /\ j + 1 \in 1 .. n /\ (Len(w) + j) + 1 = Len(w) + (j + 1) /\ k + (j + 1) = (k + j) + 1
        BY SMT, <1>0, <1>1
      <3>2. v[Len(w) + j][1] = t + 1 /\ v[Len(w) + j][2] = k + j
        BY <1>1, <3>1 DEF Byte
      <3>3. k + j < L[t + 1]
        BY SMT, <1>0, <3>1
      <3>. QED  BY <1>1, <3>1, <3>2, <3>3
    <2>5. ASSUME NEW i \in 1 .. Len(v) - 1 PROVE Goal(i)
      <3>1. CASE i \in 1 .. Len(w) - 1
        BY <2>2, <3>1
      <3>2. CASE i = Len(w)
        BY SMT, <1>1, <2>3, <3>2
      <3>3. CASE i > Len(w)
        <4>1. i - Len(w) \in 1 .. n - 1 /\ i = Len(w) + (i - Len(w))
          BY SMT, <1>1, <3>3
        <4>. QED  BY <2>4, <4>1
      <3>. QED  BY SMT, <1>1, <3>1, <3>2, <3>3
    <2>. QED  BY <2>1, <2>5 DEF InOrder
  <1>6. ASSUME NEW c \in 1 .. Len(L) PROVE Whole(v, L, c) <=> c <= t \/ (c = t + 1 /\ k + n = L[t + 1])
    <2>1. Whole(w, L, c) <=> c <= t
      BY DEF Taken
    <2>2. ASSUME Whole(w, L, c) PROVE Whole(v, L, c)
      <3>1. PICK j \in 1 .. Len(w) : Byte(w, j, c, L[c])
        BY <2>2 DEF Whole
      <3>2. j \in 1 .. Len(v) /\ Byte(v, j, c, L[c])
        BY SMTT(20), <1>1, <3>1 DEF Byte
      <3>. QED  BY <3>2 DEF Whole
    <2>3. ASSUME c = t + 1, k + n = L[t + 1] PROVE Whole(v, L, c)
      <3>1. n \in 1 .. n /\ Len(w) + n \in 1 .. Len(v)
        BY SMT, <1>0, <1>1, <2>3
      <3>. QED  BY <1>1, <2>3, <3>1 DEF Whole
    <2>4. ASSUME Whole(v, L, c), ~Whole(w, L, c) PROVE c = t + 1 /\ k + n = L[t + 1]
      <3>1. PICK i \in 1 .. Len(v) : Byte(v, i, c, L[c])
        BY <2>4 DEF Whole
      <3>2. i \notin 1 .. Len(w)
        BY <1>1, <2>4, <3>1 DEF Whole, Byte
      <3>3. PICK j \in 1 .. n : i = Len(w) + j
        BY <1>2, <3>2
      <3>4. c = t + 1 /\ L[c] = k + j
        BY <1>1, <3>1, <3>3 DEF Byte
      <3>. QED  BY SMT, <1>0, <3>4
    <2>. QED  BY <2>1, <2>2, <2>3, <2>4
  <1>7. n > 0 => v # <<>> /\ Byte(v, Len(v), t + 1, k + n)
    BY SMT, <1>1
  <1>8. CASE k + n = L[t + 1]
    <2>1. Position(L, t + 1, 0) /\ n > 0
      BY SMT, <1>0, <1>8 DEF Position
    <2>2. \A c \in 1 .. Len(L) : Whole(v, L, c) <=> c <= t + 1
      BY SMT, <1>0, <1>6, <1>8
    <2>3. t + 1 > 0
      BY SMT, <1>0
    <2>. QED  BY <1>1, <1>3, <1>5, <1>7, <1>8, <2>1, <2>2, <2>3 DEF Taken, v
  <1>9. CASE k + n # L[t + 1]
    <2>1. Position(L, t, k + n)
      <3>. DEFINE e == L[t + 1]
      <3>0. e \in Nat /\ k + n <= e /\ k + n # e
        BY <1>0, <1>9
      <3>. HIDE DEF e
      <3>1. k + n \in Nat /\ k + n < e /\ t \in 0 .. Len(L)
        BY SMT, <1>0, <3>0
      <3>. QED  BY <1>0, <3>1 DEF Position, e
    <2>2. \A c \in 1 .. Len(L) : Whole(v, L, c) <=> c <= t
      BY <1>6, <1>9
    <2>3. IF v = <<>> THEN t = 0 /\ k + n = 0
          ELSE IF k + n = 0 THEN t > 0 /\ Byte(v, Len(v), t, L[t]) ELSE Byte(v, Len(v), t + 1, k + n)
      <3>1. CASE n > 0
        <4>1. k + n # 0
          BY SMT, <1>0, <3>1
        <4>. QED  BY <1>7, <3>1, <4>1
      <3>2. CASE n = 0
        <4>1. Len(v) = Len(w) /\ k + n = k
          BY SMT, <1>0, <1>1, <3>2
        <4>2. v = <<>> <=> w = <<>>
          BY <1>0, <1>1, <4>1, EmptySeq
        <4>3. w # <<>> => v[Len(v)] = w[Len(w)]
          BY SMT, <1>0, <1>1, <4>1, EmptySeq
        <4>. QED  BY <1>4, <4>1, <4>2, <4>3 DEF Byte
      <3>. QED  BY SMT, <3>1, <3>2
    <2>. QED  BY <1>1, <1>3, <1>5, <1>9, <2>1, <2>2, <2>3 DEF Taken, v
  <1>. QED  BY <1>8, <1>9 DEF v

(***************************************************************************)
(* The order of the buffers                                                 *)
(***************************************************************************)
Entry == [buf : Nat, off : Nat]

LEMMA OrderedLens ==
  ASSUME NEW nt, NEW ic, NEW q, NEW L, Ordered(nt, ic, q, L)
  PROVE  /\ Len(nt) \in Nat /\ Len(ic) \in Nat /\ Len(q) \in Nat /\ Len(L) \in Nat
         /\ ic # <<>> => Head(ic) = ic[1] /\ Len(ic) > 0
         /\ q # <<>> => Head(q) = q[1] /\ Len(q) > 0
  <1>1. nt \in Seq(Notice) /\ ic \in Seq(Notice) /\ q \in Seq(Entry) /\ L \in Seq(Lengths)
    BY DEF Ordered, Entry
  <1>. QED  BY SMT, <1>1, LenProperties, EmptySeq

\* The oldest notification that waits is made.
LEMMA NotifyOldest ==
  ASSUME NEW nt, NEW ic, NEW q, NEW L, Ordered(nt, ic, q, L), ic # <<>>
  PROVE  Ordered(Append(nt, Head(ic)), Tail(ic), q, L)
  <1>. DEFINE e == Head(ic)
              nu == Append(nt, e)
              id == Tail(ic)
  <1>0. nt \in Seq(Notice) /\ ic \in Seq(Notice)
    BY DEF Ordered
  <1>1. /\ e \in Notice /\ id \in Seq(Notice) /\ Len(id) = Len(ic) - 1
        /\ \A i \in 1 .. Len(id) : id[i] = ic[i + 1]
    BY <1>0, HeadTailProperties
  <1>2. e = ic[1] /\ Len(ic) > 0 /\ Len(nt) \in Nat /\ Len(ic) \in Nat /\ Len(q) \in Nat
    BY OrderedLens
  <1>. HIDE DEF e, id
  <1>3. /\ nu \in Seq(Notice) /\ Len(nu) = Len(nt) + 1 /\ nu[Len(nt) + 1] = e
        /\ \A i \in 1 .. Len(nt) : nu[i] = nt[i]
    BY SMT, <1>0, <1>1, AppendProperties
  <1>. HIDE DEF nu
  <1>4. e.buf = Len(nt) + 1
    BY SMT, <1>2 DEF Ordered
  <1>5. Len(nu) + Len(id) = Len(nt) + Len(ic)
    BY SMT, <1>1, <1>2, <1>3
  <1>6. \A i \in 1 .. Len(nu) : nu[i].buf = i
    <2>1. \A i \in 1 .. Len(nu) : i \in 1 .. Len(nt) \/ i = Len(nt) + 1
      BY SMT, <1>2, <1>3
    <2>2. \A i \in 1 .. Len(nt) : nt[i].buf = i
      BY DEF Ordered
    <2>. QED  BY <1>3, <1>4, <2>1, <2>2
  <1>7. \A i \in 1 .. Len(id) : id[i].buf = Len(nu) + i /\ id[i].status.sent = TRUE
    <2>1. \A i \in 1 .. Len(id) : i + 1 \in 1 .. Len(ic) /\ Len(nt) + (i + 1) = Len(nu) + i
      BY SMT, <1>1, <1>2, <1>3
    <2>2. \A i \in 1 .. Len(ic) : ic[i].buf = Len(nt) + i /\ ic[i].status.sent = TRUE
      BY DEF Ordered
    <2>. QED  BY <1>1, <2>1, <2>2
  <1>. QED  BY <1>1, <1>3, <1>5, <1>6, <1>7 DEF Ordered, nu, id, e

\* The buffer at the head of the queue leaves it, for a notification that is made (j = Append(nt, e)
\* with ic empty) or that waits.
LEMMA Dequeue ==
  ASSUME NEW nt, NEW ic, NEW q, NEW L, Ordered(nt, ic, q, L), q # <<>>,
         NEW e \in Notice, e.buf = Head(q).buf
  PROVE  /\ e.buf = Len(nt) + Len(ic) + 1
         /\ e.status.sent = TRUE => Ordered(nt, Append(ic, e), Tail(q), L)
         /\ ic = <<>> => Ordered(Append(nt, e), ic, Tail(q), L)
  <1>. DEFINE r == Tail(q)
              id == Append(ic, e)
              nu == Append(nt, e)
  <1>0. nt \in Seq(Notice) /\ ic \in Seq(Notice) /\ q \in Seq(Entry)
    BY DEF Ordered, Entry
  <1>1. r \in Seq(Entry) /\ Len(r) = Len(q) - 1 /\ \A i \in 1 .. Len(r) : r[i] = q[i + 1]
    BY <1>0, HeadTailProperties
  <1>2. /\ Len(q) > 0 /\ Len(nt) \in Nat /\ Len(ic) \in Nat /\ Len(q) \in Nat /\ Head(q) = q[1]
        /\ Len(nt) + Len(ic) + Len(q) = Len(L)
    BY SMT, OrderedLens DEF Ordered
  <1>3. e.buf = Len(nt) + Len(ic) + 1
    <2>1. 1 \in 1 .. Len(q)
      BY SMT, <1>2
    <2>. QED  BY <1>2, <2>1 DEF Ordered
  <1>4. /\ id \in Seq(Notice) /\ Len(id) = Len(ic) + 1 /\ id[Len(ic) + 1] = e
        /\ \A i \in 1 .. Len(ic) : id[i] = ic[i]
    BY SMT, <1>0, AppendProperties
  <1>5. /\ nu \in Seq(Notice) /\ Len(nu) = Len(nt) + 1 /\ nu[Len(nt) + 1] = e
        /\ \A i \in 1 .. Len(nt) : nu[i] = nt[i]
    BY SMT, <1>0, AppendProperties
  <1>. HIDE DEF r, id, nu
  <1>6. \A m \in Nat : m = Len(nt) + Len(ic) + 1 =>
           \A i \in 1 .. Len(r) : r[i].buf = m + i /\ r[i].off < L[m + i] /\ (i > 1 => r[i].off = 0)
    <2>1. \A i \in 1 .. Len(q) : /\ q[i].buf = Len(nt) + Len(ic) + i
                                 /\ q[i].off < L[Len(nt) + Len(ic) + i]
                                 /\ i > 1 => q[i].off = 0
      BY DEF Ordered
    <2>2. \A i \in 1 .. Len(r) : i + 1 \in 1 .. Len(q) /\ i + 1 > 1
                                 /\ Len(nt) + Len(ic) + (i + 1) = Len(nt) + Len(ic) + 1 + i
      BY SMT, <1>1, <1>2
    <2>3. ASSUME NEW i \in 1 .. Len(r)
          PROVE  /\ r[i].buf = Len(nt) + Len(ic) + 1 + i
                 /\ r[i].off < L[Len(nt) + Len(ic) + 1 + i] /\ r[i].off = 0
      <3>1. r[i] = q[i + 1]
        BY <1>1
      <3>2. i + 1 \in 1 .. Len(q) /\ i + 1 > 1 /\ Len(nt) + Len(ic) + (i + 1) = Len(nt) + Len(ic) + 1 + i
        BY <2>2
      <3>3. /\ q[i + 1].buf = Len(nt) + Len(ic) + (i + 1)
            /\ q[i + 1].off < L[Len(nt) + Len(ic) + (i + 1)] /\ q[i + 1].off = 0
        BY <2>1, <3>2
      <3>. QED  BY <3>1, <3>2, <3>3
    <2>. QED  BY <2>3
  <1>7. ASSUME e.status.sent = TRUE PROVE Ordered(nt, id, r, L)
    <2>1. \A i \in 1 .. Len(id) : i \in 1 .. Len(ic) \/ i = Len(ic) + 1
      BY SMT, <1>2, <1>4
    <2>2. \A i \in 1 .. Len(ic) : ic[i].buf = Len(nt) + i /\ ic[i].status.sent = TRUE
      BY DEF Ordered
    <2>3. Len(nt) + (Len(ic) + 1) = Len(nt) + Len(ic) + 1
      BY SMT, <1>2
    <2>4. \A i \in 1 .. Len(id) : id[i].buf = Len(nt) + i /\ id[i].status.sent = TRUE
      BY <1>3, <1>4, <1>7, <2>1, <2>2, <2>3
    <2>5. Len(nt) + Len(id) = Len(nt) + Len(ic) + 1 /\ Len(nt) + Len(id) \in Nat
      BY SMT, <1>2, <1>4
    <2>6. Len(nt) + Len(id) + Len(r) = Len(L)
      BY SMT, <1>1, <1>2, <1>4
    <2>7. \A i \in 1 .. Len(r) : /\ r[i].buf = Len(nt) + Len(id) + i
                                 /\ r[i].off < L[Len(nt) + Len(id) + i]
                                 /\ i > 1 => r[i].off = 0
      BY <1>6, <2>5
    <2>. QED  BY <1>0, <1>1, <1>4, <2>4, <2>6, <2>7 DEF Ordered, Entry
  <1>8. ASSUME ic = <<>> PROVE Ordered(nu, ic, r, L)
    <2>0. Len(ic) = 0
      BY <1>8
    <2>1. \A i \in 1 .. Len(nu) : i \in 1 .. Len(nt) \/ i = Len(nt) + 1
      BY SMT, <1>2, <1>5
    <2>2. \A i \in 1 .. Len(nt) : nt[i].buf = i
      BY DEF Ordered
    <2>3. e.buf = Len(nt) + 1
      BY SMT, <1>2, <1>3, <2>0
    <2>4. \A i \in 1 .. Len(nu) : nu[i].buf = i
      BY <1>5, <2>1, <2>2, <2>3
    <2>5. Len(nu) + Len(ic) = Len(nt) + Len(ic) + 1 /\ Len(nu) + Len(ic) \in Nat
      BY SMT, <1>2, <1>5
    <2>6. Len(nu) + Len(ic) + Len(r) = Len(L)
      <3>1. Len(nu) = Len(nt) + 1 /\ Len(r) = Len(q) - 1
        BY <1>1, <1>5
      <3>. QED  BY SMT, <1>2, <3>1
    <2>7. \A i \in 1 .. Len(r) : /\ r[i].buf = Len(nu) + Len(ic) + i
                                 /\ r[i].off < L[Len(nu) + Len(ic) + i]
                                 /\ i > 1 => r[i].off = 0
      BY <1>6, <2>5
    <2>8. \A i \in 1 .. Len(ic) : ic[i].buf = Len(nu) + i /\ ic[i].status.sent = TRUE
      BY SMT, <2>0
    <2>. QED  BY <1>0, <1>1, <1>5, <2>4, <2>6, <2>7, <2>8 DEF Ordered, Entry
  <1>. QED  BY <1>3, <1>7, <1>8 DEF r, id, nu

\* A buffer is accepted and written at once.
LEMMA AcceptWhole ==
  ASSUME NEW nt, NEW ic, NEW q, NEW L, Ordered(nt, ic, q, L), q = <<>>,
         NEW l \in Lengths, Len(L) < MaxSends,
         NEW e \in Notice, e.buf = Len(L) + 1, e.status.sent = TRUE
  PROVE  Ordered(nt, Append(ic, e), q, Append(L, l))
  <1>. DEFINE id == Append(ic, e)
              K == Append(L, l)
  <1>0. nt \in Seq(Notice) /\ ic \in Seq(Notice) /\ q \in Seq(Entry) /\ L \in Seq(Lengths)
    BY DEF Ordered, Entry
  <1>1. Len(nt) \in Nat /\ Len(ic) \in Nat /\ Len(q) = 0 /\ Len(L) = Len(nt) + Len(ic) /\ Len(L) \in Nat
    <2>1. Len(q) = 0
      OBVIOUS
    <2>2. Len(nt) + Len(ic) + Len(q) = Len(L)
      BY DEF Ordered
    <2>. QED  BY SMT, <2>1, <2>2, OrderedLens
  <1>2. /\ id \in Seq(Notice) /\ Len(id) = Len(ic) + 1 /\ id[Len(ic) + 1] = e
        /\ \A i \in 1 .. Len(ic) : id[i] = ic[i]
    BY SMT, <1>0, AppendProperties
  <1>3. K \in Seq(Lengths) /\ Len(K) = Len(L) + 1
    BY <1>0, AppendProperties
  <1>. HIDE DEF id, K
  <1>4. Len(K) <= MaxSends /\ Len(nt) + Len(id) + Len(q) = Len(K)
    BY SMT, <1>1, <1>2, <1>3, BoundsAssumption
  <1>5. \A i \in 1 .. Len(id) : id[i].buf = Len(nt) + i /\ id[i].status.sent = TRUE
    <2>1. \A i \in 1 .. Len(id) : i \in 1 .. Len(ic) \/ i = Len(ic) + 1
      BY SMT, <1>1, <1>2
    <2>2. \A i \in 1 .. Len(ic) : ic[i].buf = Len(nt) + i /\ ic[i].status.sent = TRUE
      BY DEF Ordered
    <2>3. e.buf = Len(nt) + (Len(ic) + 1)
      BY SMT, <1>1
    <2>. QED  BY <1>2, <2>1, <2>2, <2>3
  <1>6. \A i \in 1 .. Len(nt) : nt[i].buf = i
    BY DEF Ordered
  <1>7. \A i \in 1 .. Len(q) : FALSE
    BY SMT, <1>1
  <1>. QED  BY <1>0, <1>2, <1>3, <1>4, <1>5, <1>6, <1>7 DEF Ordered, Entry, id, K

\* A buffer is accepted and queued.
LEMMA AcceptQueued ==
  ASSUME NEW nt, NEW ic, NEW q, NEW L, Ordered(nt, ic, q, L),
         NEW l \in Lengths, Len(L) < MaxSends,
         NEW r \in Entry, r.buf = Len(L) + 1, r.off < l, q # <<>> => r.off = 0
  PROVE  Ordered(nt, ic, Append(q, r), Append(L, l))
  <1>. DEFINE p == Append(q, r)
              K == Append(L, l)
  <1>0. nt \in Seq(Notice) /\ ic \in Seq(Notice) /\ q \in Seq(Entry) /\ L \in Seq(Lengths)
    BY DEF Ordered, Entry
  <1>1. /\ Len(nt) \in Nat /\ Len(ic) \in Nat /\ Len(q) \in Nat /\ Len(L) \in Nat
        /\ Len(nt) + Len(ic) + Len(q) = Len(L)
    BY SMT, OrderedLens DEF Ordered
  <1>2. /\ p \in Seq(Entry) /\ Len(p) = Len(q) + 1 /\ p[Len(q) + 1] = r
        /\ \A i \in 1 .. Len(q) : p[i] = q[i]
    BY SMT, <1>0, AppendProperties
  <1>3. /\ K \in Seq(Lengths) /\ Len(K) = Len(L) + 1 /\ K[Len(L) + 1] = l
        /\ \A i \in 1 .. Len(L) : K[i] = L[i]
    BY SMT, <1>0, AppendProperties
  <1>. HIDE DEF p, K
  <1>4. Len(K) <= MaxSends /\ Len(nt) + Len(ic) + Len(p) = Len(K)
    <2>1. Len(p) = Len(q) + 1 /\ Len(K) = Len(L) + 1
      BY <1>2, <1>3
    <2>. QED  BY SMT, <1>1, <2>1, BoundsAssumption
  <1>. DEFINE Placed(i) == /\ p[i].buf = Len(nt) + Len(ic) + i
                           /\ p[i].off < K[Len(nt) + Len(ic) + i]
                           /\ i > 1 => p[i].off = 0
  <1>5. ASSUME NEW i \in 1 .. Len(q) PROVE Placed(i)
    <2>1. /\ q[i].buf = Len(nt) + Len(ic) + i
          /\ q[i].off < L[Len(nt) + Len(ic) + i]
          /\ i > 1 => q[i].off = 0
      BY DEF Ordered
    <2>2. Len(nt) + Len(ic) + i \in 1 .. Len(L)
      BY SMT, <1>1
    <2>. QED  BY <1>2, <1>3, <2>1, <2>2
  <1>6. Placed(Len(q) + 1)
    <2>1. Len(nt) + Len(ic) + (Len(q) + 1) = Len(L) + 1
      BY SMT, <1>1
    <2>2. Len(q) + 1 > 1 => q # <<>>
      BY SMT, <1>1
    <2>. QED  BY <1>2, <1>3, <2>1, <2>2
  <1>7. \A i \in 1 .. Len(p) : Placed(i)
    <2>1. \A i \in 1 .. Len(p) : i \in 1 .. Len(q) \/ i = Len(q) + 1
      BY SMT, <1>1, <1>2
    <2>. QED  BY <1>5, <1>6, <2>1
  <1>8. /\ \A i \in 1 .. Len(nt) : nt[i].buf = i
        /\ \A i \in 1 .. Len(ic) : ic[i].buf = Len(nt) + i /\ ic[i].status.sent = TRUE
    BY DEF Ordered
  <1>. QED  BY <1>0, <1>2, <1>3, <1>4, <1>7, <1>8 DEF Ordered, Entry, p, K

\* More of the buffer at the head of the queue is written, and not all of it.
LEMMA AdvanceFirst ==
  ASSUME NEW nt, NEW ic, NEW q, NEW L, Ordered(nt, ic, q, L), q # <<>>,
         NEW n \in Nat, q[1].off + n < L[q[1].buf]
  PROVE  LET p == [q EXCEPT ![1].off = @ + n]
         IN  Ordered(nt, ic, p, L) /\ p # <<>> /\ p[1].off = q[1].off + n
  <1>. DEFINE r == [q[1] EXCEPT !.off = @ + n]
              p == [q EXCEPT ![1] = r]
  <1>0. nt \in Seq(Notice) /\ ic \in Seq(Notice) /\ q \in Seq(Entry) /\ L \in Seq(Lengths)
    BY DEF Ordered, Entry
  <1>1. Len(q) \in Nat /\ Len(q) > 0 /\ 1 \in 1 .. Len(q) /\ Len(nt) \in Nat /\ Len(ic) \in Nat
    BY SMT, OrderedLens
  <1>2. q[1] \in Entry
    BY <1>0, <1>1, ElementOfSeq
  <1>3. r \in Entry /\ r.buf = q[1].buf /\ r.off = q[1].off + n
    BY SMT, <1>2 DEF Entry
  <1>. HIDE DEF r
  <1>4. /\ p \in Seq(Entry) /\ Len(p) = Len(q) /\ p[1] = r
        /\ \A i \in 1 .. Len(q) : p[i] = IF i = 1 THEN r ELSE q[i]
    BY SMT, <1>0, <1>1, <1>3, ExceptSeq
  <1>. HIDE DEF p
  <1>5. p # <<>>
    BY SMT, <1>1, <1>4
  <1>6. ASSUME NEW i \in 1 .. Len(p)
        PROVE  /\ p[i].buf = Len(nt) + Len(ic) + i
               /\ p[i].off < L[Len(nt) + Len(ic) + i]
               /\ i > 1 => p[i].off = 0
    <2>1. /\ q[i].buf = Len(nt) + Len(ic) + i
          /\ q[i].off < L[Len(nt) + Len(ic) + i]
          /\ i > 1 => q[i].off = 0
      BY <1>4 DEF Ordered
    <2>2. i > 1 => i # 1
      BY SMT
    <2>3. ~(1 > 1)
      BY SMT
    <2>. QED  BY <1>3, <1>4, <2>1, <2>2, <2>3
  <1>7. /\ \A i \in 1 .. Len(nt) : nt[i].buf = i
        /\ \A i \in 1 .. Len(ic) : ic[i].buf = Len(nt) + i /\ ic[i].status.sent = TRUE
        /\ Len(nt) + Len(ic) + Len(q) = Len(L) /\ Len(L) <= MaxSends
    BY DEF Ordered
  <1>8. Ordered(nt, ic, p, L)
    BY <1>0, <1>4, <1>6, <1>7 DEF Ordered, Entry
  <1>. QED  BY <1>3, <1>4, <1>5, <1>8 DEF p, r

\* pomp_loop_idle_remove of the first entry, which no other one equals.
LEMMA WithoutFirst ==
  ASSUME NEW S, NEW s \in Seq(S), s # <<>>, \A i \in 1 .. Len(s) : s[i] = s[1] => i = 1
  PROVE  Without(s, Head(s)) = Tail(s)
  <1>. DEFINE keep == {i \in 1 .. Len(s) : s[i] # Head(s)}
              Before(i) == {j \in keep : j < i}
              Pick(k) == CHOOSE i \in keep : Cardinality(Before(i)) = k - 1
              f == [k \in 1 .. Cardinality(keep) |-> s[Pick(k)]]
  <1>0. Without(s, Head(s)) = f
    BY DEF Without
  <1>1. Len(s) \in Nat /\ Len(s) > 0 /\ Head(s) = s[1] /\ 1 \in 1 .. Len(s)
    BY SMT, LenProperties, EmptySeq
  <1>2. keep = 2 .. Len(s)
    BY SMT, <1>1
  <1>3. Cardinality(keep) = Len(s) - 1
    <2>1. Cardinality(2 .. Len(s)) = IF 2 > Len(s) THEN 0 ELSE Len(s) - 2 + 1
      BY SMT, <1>1, FS_Interval
    <2>2. (IF 2 > Len(s) THEN 0 ELSE Len(s) - 2 + 1) = Len(s) - 1
      <3>1. \A n \in Nat : n > 0 => (IF 2 > n THEN 0 ELSE n - 2 + 1) = n - 1
        BY SMT
      <3>. QED  BY <1>1, <3>1
    <2>. QED  BY <1>2, <2>1, <2>2
  <1>4. ASSUME NEW i \in keep PROVE Cardinality(Before(i)) = i - 2
    <2>1. i \in Nat /\ i >= 2
      BY SMT, <1>1, <1>2
    <2>2. Before(i) = 2 .. i - 1
      BY SMT, <1>1, <1>2, <2>1
    <2>3. Cardinality(2 .. i - 1) = IF 2 > i - 1 THEN 0 ELSE (i - 1) - 2 + 1
      BY SMT, <2>1, FS_Interval
    <2>4. (IF 2 > i - 1 THEN 0 ELSE (i - 1) - 2 + 1) = i - 2
      BY SMT, <2>1
    <2>. QED  BY <2>2, <2>3, <2>4
  <1>. HIDE DEF Before
  <1>5. ASSUME NEW k \in 1 .. Len(s) - 1
        PROVE  Pick(k) = k + 1
    <2>1. k + 1 \in keep /\ (k + 1) - 2 = k - 1
      BY SMT, <1>1, <1>2
    <2>2. Cardinality(Before(k + 1)) = k - 1
      BY <1>4, <2>1
    <2>3. \A i \in keep : Cardinality(Before(i)) = k - 1 => i = k + 1
      BY SMT, <1>1, <1>2, <1>4
    <2>. HIDE DEF keep
    <2>. QED  BY <2>1, <2>2, <2>3
  <1>. DEFINE u == Tail(s)
  <1>6. u \in Seq(S) /\ Len(u) = Len(s) - 1 /\ \A i \in 1 .. Len(u) : u[i] = s[i + 1]
    BY HeadTailProperties
  <1>. HIDE DEF keep, u, Pick
  <1>7. f = [k \in 1 .. Len(s) - 1 |-> s[k + 1]]
    BY <1>3, <1>5
  <1>8. \A k \in 1 .. Len(s) - 1 : s[k + 1] \in S
    BY SMT, <1>1, ElementOfSeq
  <1>9. f \in [1 .. Len(s) - 1 -> S]
    BY <1>7, <1>8
  <1>. HIDE DEF f
  <1>10. f \in Seq(S) /\ Len(f) = Len(s) - 1
    <2>1. f \in Seq(S)
      BY SMT, <1>1, <1>9, SeqDef
    <2>. QED  BY SMT, <1>1, <1>9, <2>1, LenProperties
  <1>11. \A i \in 1 .. Len(f) : f[i] = u[i]
    BY <1>6, <1>7, <1>10
  <1>12. f = u
    BY <1>6, <1>10, <1>11, SeqEqual
  <1>. QED  BY <1>0, <1>12 DEF u

(***************************************************************************)
(* The stack                                                                *)
(***************************************************************************)
Calls == Library \cup Program

LEMMA AtOutermost ==
  ASSUME StackInv, NEW g \in Outermost, At(g)
  PROVE  Len(stack) = 1 /\ stack # <<>> /\ stack[1] = g /\ Bottom = g
  <1>1. Len(stack) \in Nat /\ Len(stack) > 0
    BY SMT, LenProperties, EmptySeq DEF StackInv, At
  <1>2. Len(stack) = 1
    <2>1. Len(stack) \notin 2 .. Len(stack)
      BY DEF StackInv, At
    <2>2. \A n \in Nat : n > 0 /\ n \notin 2 .. n => n = 1
      BY SMT
    <2>. QED  BY <1>1, <2>1, <2>2
  <1>. QED  BY <1>2 DEF At, Bottom

LEMMA PushStep ==
  ASSUME StackInv, NEW f \in Calls, stack = <<>> \/ f \notin Outermost, Push(f)
  PROVE  StackInv' /\ Bottom' = IF stack = <<>> THEN f ELSE Bottom
  <1>0. stack \in Seq(Calls)
    BY DEF StackInv, Calls
  <1>1. /\ stack' \in Seq(Calls) /\ Len(stack') = Len(stack) + 1 /\ stack'[Len(stack) + 1] = f
        /\ \A i \in 1 .. Len(stack) : stack'[i] = stack[i]
    BY SMT, <1>0, AppendProperties DEF Push
  <1>2. Len(stack) \in Nat /\ (stack = <<>> <=> Len(stack) = 0)
    BY <1>0, LenProperties, EmptySeq
  <1>3. \A i \in 2 .. Len(stack') : stack'[i] \notin Outermost
    <2>1. \A i \in 2 .. Len(stack') : \/ i \in 2 .. Len(stack) /\ i \in 1 .. Len(stack)
                                      \/ i = Len(stack) + 1 /\ stack # <<>>
      BY SMT, <1>1, <1>2
    <2>. QED  BY <1>1, <2>1 DEF StackInv
  <1>4. stack' # <<>>
    BY SMT, <1>1, <1>2
  <1>5. stack'[1] = IF stack = <<>> THEN f ELSE stack[1]
    BY SMT, <1>1, <1>2
  <1>. QED  BY <1>1, <1>3, <1>4, <1>5 DEF StackInv, Calls, Bottom

LEMMA PopStep ==
  ASSUME StackInv, NEW g, At(g), Pop
  PROVE  StackInv' /\ (Bottom' = Bottom \/ (Bottom = g /\ Bottom' = "none"))
  <1>0. stack \in Seq(Calls)
    BY DEF StackInv, Calls
  <1>1. Len(stack) \in Nat /\ Len(stack) > 0
    BY SMT, <1>0, LenProperties, EmptySeq DEF At
  <1>2. /\ stack' \in Seq(Calls) /\ Len(stack') = Len(stack) - 1
        /\ \A i \in 1 .. Len(stack) - 1 : stack'[i] = stack[i]
    <2>1. \A i \in 1 .. Len(stack) - 1 : stack[i] \in Calls
      BY SMT, <1>0, <1>1
    <2>2. /\ SubSeq(stack, 1, Len(stack) - 1) \in Seq(Calls)
          /\ Len(SubSeq(stack, 1, Len(stack) - 1)) = IF 1 <= Len(stack) - 1 THEN Len(stack) - 1 - 1 + 1 ELSE 0
          /\ \A i \in 1 .. Len(stack) - 1 - 1 + 1 : SubSeq(stack, 1, Len(stack) - 1)[i] = stack[1 + i - 1]
      BY SMT, <1>1, <2>1, SubSeqProperties
    <2>3. \A n \in Nat : n > 0 => /\ (IF 1 <= n - 1 THEN n - 1 - 1 + 1 ELSE 0) = n - 1
                                  /\ n - 1 - 1 + 1 = n - 1 /\ \A i \in 1 .. n - 1 : 1 + i - 1 = i
      BY SMT
    <2>4. /\ (IF 1 <= Len(stack) - 1 THEN Len(stack) - 1 - 1 + 1 ELSE 0) = Len(stack) - 1
          /\ Len(stack) - 1 - 1 + 1 = Len(stack) - 1 /\ \A i \in 1 .. Len(stack) - 1 : 1 + i - 1 = i
      BY <1>1, <2>3
    <2>5. \A i \in 1 .. Len(stack) - 1 : SubSeq(stack, 1, Len(stack) - 1)[i] = stack[i]
      BY <2>2, <2>4
    <2>. QED  BY <2>2, <2>4, <2>5 DEF Pop
  <1>3. StackInv'
    BY SMT, <1>1, <1>2 DEF StackInv, Calls
  <1>4. CASE Len(stack) = 1
    <2>1. Len(stack') = 0
      BY SMT, <1>2, <1>4
    <2>2. stack' = <<>>
      BY <1>2, <2>1, EmptySeq
    <2>3. Bottom' = "none" /\ Bottom = g
      BY <1>4, <2>2 DEF Bottom, At
    <2>. QED  BY <1>3, <2>3
  <1>5. CASE Len(stack) > 1
    <2>1. stack' # <<>> /\ stack # <<>> /\ stack'[1] = stack[1]
      BY SMT, <1>1, <1>2, <1>5
    <2>. QED  BY <1>3, <2>1 DEF Bottom
  <1>6. \A n \in Nat : n > 0 => n = 1 \/ n > 1
    BY SMT
  <1>. QED  BY <1>1, <1>4, <1>5, <1>6

LEMMA BecomeStep ==
  ASSUME StackInv, NEW g \in Outermost, At(g), NEW f \in Calls, Become(f)
  PROVE  StackInv' /\ Bottom = g /\ Bottom' = f
  <1>0. stack \in Seq(Calls)
    BY DEF StackInv, Calls
  <1>1. Len(stack) = 1 /\ stack # <<>> /\ Bottom = g
    BY AtOutermost
  <1>2. stack' = [stack EXCEPT ![1] = f]
    BY <1>1 DEF Become
  <1>3. stack' \in Seq(Calls) /\ Len(stack') = 1 /\ stack'[1] = f
    <2>1. 1 \in 1 .. Len(stack)
      BY SMT, <1>1
    <2>. QED  BY SMT, <1>0, <1>1, <1>2, <2>1, ExceptSeq
  <1>4. stack' # <<>>
    BY SMT, <1>3, EmptySeq
  <1>. QED  BY SMT, <1>1, <1>3, <1>4 DEF StackInv, Calls, Bottom

(***************************************************************************)
(* The steps                                                                *)
(***************************************************************************)
\* A step that changes neither the buffers nor the notifications.
LEMMA QuietStep ==
  ASSUME SendInv, UNCHANGED <<len, queue, idlecbs, idle, wire, notified>>,
         FlagsType', StackInv', ShutInv', Aborting => Aborting'
  PROVE  SendInv'
  <1>1. WireInv'
    <2>1. PICK t \in Nat, k \in Nat :
             /\ Taken(wire, len, t, k) /\ Told(notified, t) /\ t <= Len(notified) + Len(idlecbs)
             /\ ~Aborting => t = Len(notified) + Len(idlecbs) /\ k = Offset(queue)
      BY DEF SendInv, WireInv
    <2>2. /\ Taken(wire', len', t, k) /\ Told(notified', t) /\ t <= Len(notified') + Len(idlecbs')
          /\ ~Aborting' => t = Len(notified') + Len(idlecbs') /\ k = Offset(queue')
      BY <2>1
    <2>. QED  BY <2>2 DEF WireInv
  <1>. QED  BY <1>1 DEF SendInv

\* A step of an open connection that changes the stack only, and may shut the connection down.
LEMMA OpenStep ==
  ASSUME SendInv, UNCHANGED <<len, queue, idlecbs, idle, wire, notified, open>>,
         FlagsType', StackInv', shut => shut',
         \/ Bottom' = Bottom
         \/ Bottom # "abort" /\ Bottom' \notin {"clear", "abort"}
  PROVE  SendInv'
  <1>1. ShutInv'
    BY DEF SendInv, ShutInv, Aborting
  <1>2. Aborting => Aborting'
    BY DEF Aborting
  <1>. QED  BY <1>1, <1>2, QuietStep

LEMMA CallsAre ==
  /\ Library \subseteq Calls /\ Program \subseteq Calls /\ Outermost \subseteq Calls
  /\ {"readcb", "sendcb", "disc", "flush"} \subseteq Calls
  /\ \A f \in {"readcb", "sendcb", "disc", "flush"} : f \notin Outermost
  BY DEF Calls, Library, Program, Outermost

\* The loop calls pomp_conn_cb.
LEMMA ConnCbStep ==
  ASSUME SendInv, NEW r \in Events, ConnCb(r)
  PROVE  SendInv'
  <1>1. FlagsType'
    <2>1. r \subseteq {"IN", "OUT", "ERR"}
      BY DEF Events
    <2>. QED  BY <2>1 DEF SendInv, FlagsType, ConnCb
  <1>2. PICK f \in {"read", "write", "end"} : Push(f)
    BY DEF ConnCb
  <1>3. StackInv' /\ Bottom = "none" /\ Bottom' = f
    <2>1. f \in Calls /\ stack = <<>>
      BY CallsAre DEF ConnCb, Outermost
    <2>. QED  BY <1>2, <2>1, PushStep DEF SendInv, Bottom
  <1>4. Bottom # "abort" /\ Bottom' \notin {"clear", "abort"}
    BY <1>3
  <1>5. UNCHANGED <<len, queue, idlecbs, idle, wire, notified, open>> /\ shut' = shut
    BY DEF ConnCb
  <1>. QED  BY <1>1, <1>3, <1>4, <1>5, OpenStep

\* The program is called for a message or a disconnection, disconnects or flushes.
LEMMA CallStep ==
  ASSUME SendInv, ReadMsg \/ CtxStop \/ Disconnect \/ Flush
  PROVE  SendInv'
  <1>1. FlagsType'
    BY DEF SendInv, FlagsType, ReadMsg, CtxStop, Disconnect, Flush
  <1>2. PICK f \in {"readcb", "disc", "flush", "eventcb"} : Push(f) /\ (f = "eventcb" => stack = <<>>)
    BY DEF ReadMsg, CtxStop, Disconnect, Flush
  <1>3. StackInv' /\ Bottom' = IF stack = <<>> THEN f ELSE Bottom
    <2>1. f \in Calls /\ (stack = <<>> \/ f \notin Outermost)
      BY <1>2, CallsAre DEF Outermost
    <2>. QED  BY <1>2, <2>1, PushStep DEF SendInv
  <1>4. \/ Bottom' = Bottom
        \/ Bottom # "abort" /\ Bottom' \notin {"clear", "abort"}
    BY <1>3 DEF Bottom
  <1>5. UNCHANGED <<len, queue, idlecbs, idle, wire, notified, open>> /\ (shut => shut')
    BY SMT DEF ReadMsg, CtxStop, Disconnect, Flush
  <1>. QED  BY <1>1, <1>3, <1>4, <1>5, OpenStep

\* pomp_conn_cb goes on.
LEMMA GoOnStep ==
  ASSUME SendInv, (\E eof \in BOOLEAN : ReadEnd(eof)) \/ WriteBlocks \/ WriteFails \/ WriteDone
  PROVE  SendInv'
  <1>1. FlagsType'
    BY DEF SendInv, FlagsType, ReadEnd, WriteBlocks, WriteFails, WriteDone
  <1>2. PICK g \in {"read", "write"}, f \in {"write", "end"} : At(g) /\ Become(f)
    BY DEF ReadEnd, WriteBlocks, WriteFails, WriteDone
  <1>3. StackInv' /\ Bottom = g /\ Bottom' = f
    <2>1. g \in Outermost /\ f \in Calls
      BY CallsAre DEF Outermost
    <2>. QED  BY <1>2, <2>1, BecomeStep DEF SendInv
  <1>4. Bottom # "abort" /\ Bottom' \notin {"clear", "abort"}
    BY <1>3
  <1>5. UNCHANGED <<len, queue, idlecbs, idle, wire, notified, open>> /\ shut' = shut
    BY DEF ReadEnd, WriteBlocks, WriteFails, WriteDone
  <1>. QED  BY <1>1, <1>3, <1>4, <1>5, OpenStep

\* A callback or a flush returns, or clear_pending_callbacks called by pomp_conn_disconnect.
LEMMA ReturnStep ==
  ASSUME SendInv, CallbackReturn \/ FlushEnd \/ (ClearEnd /\ ~At("clear"))
  PROVE  SendInv'
  <1>1. FlagsType'
    BY DEF SendInv, FlagsType, CallbackReturn, FlushEnd, ClearEnd
  <1>2. PICK g \in {"readcb", "sendcb", "flush", "disc"} : At(g) /\ Pop
    BY DEF CallbackReturn, FlushEnd, ClearEnd
  <1>3. StackInv' /\ (Bottom' = Bottom \/ (Bottom = g /\ Bottom' = "none"))
    BY <1>2, PopStep DEF SendInv
  <1>4. \/ Bottom' = Bottom
        \/ Bottom # "abort" /\ Bottom' \notin {"clear", "abort"}
    BY <1>3
  <1>5. UNCHANGED <<len, queue, idlecbs, idle, wire, notified, open>> /\ shut' = shut
    BY DEF CallbackReturn, FlushEnd, ClearEnd
  <1>. QED  BY <1>1, <1>3, <1>4, <1>5, OpenStep

\* pomp_conn_cb ends: the connection is removed, or stays.
LEMMA ConnCbEndStep ==
  ASSUME SendInv, ConnCbEnd
  PROVE  SendInv'
  <1>1. FlagsType'
    BY DEF SendInv, FlagsType, ConnCbEnd
  <1>2. At("end") /\ (Become("eventcb") \/ Pop) /\ "end" \in Outermost /\ "eventcb" \in Calls
    BY CallsAre DEF ConnCbEnd, Outermost
  <1>3. StackInv' /\ Bottom = "end" /\ Bottom' \notin {"clear", "abort"}
    <2>1. Bottom = "end"
      BY <1>2, AtOutermost DEF SendInv
    <2>2. CASE Become("eventcb")
      BY <1>2, <2>1, <2>2, BecomeStep DEF SendInv
    <2>3. CASE Pop
      BY <1>2, <2>1, <2>3, PopStep DEF SendInv
    <2>. QED  BY <1>2, <2>2, <2>3
  <1>4. Bottom # "abort" /\ Bottom' \notin {"clear", "abort"}
    BY <1>3
  <1>5. UNCHANGED <<len, queue, idlecbs, idle, wire, notified, open>> /\ shut' = shut
    BY DEF ConnCbEnd
  <1>. QED  BY <1>1, <1>3, <1>4, <1>5, OpenStep

\* pomp_conn_close begins, has notified what waited in the loop, and ends.
LEMMA CloseStep ==
  ASSUME SendInv, EventReturn \/ (ClearEnd /\ At("clear")) \/ AbortEnd
  PROVE  SendInv'
  <1>1. FlagsType'
    BY DEF SendInv, FlagsType, EventReturn, ClearEnd, AbortEnd
  <1>2. UNCHANGED <<len, queue, idlecbs, idle, wire, notified>>
    BY DEF EventReturn, ClearEnd, AbortEnd
  <1>3. {"eventcb", "clear", "abort"} \subseteq Outermost /\ {"clear", "abort"} \subseteq Calls
    BY CallsAre DEF Outermost
  <1>4. CASE EventReturn
    <2>1. StackInv' /\ Bottom = "eventcb" /\ Bottom' = "clear"
      BY <1>3, <1>4, BecomeStep DEF EventReturn, SendInv
    <2>2. shut' = TRUE /\ open' = open
      BY <1>4 DEF EventReturn
    <2>3. ShutInv' /\ (Aborting => Aborting')
      BY <1>2, <2>1, <2>2 DEF SendInv, ShutInv, Aborting
    <2>. QED  BY <1>1, <1>2, <2>1, <2>3, QuietStep
  <1>5. CASE ClearEnd /\ At("clear")
    <2>1. StackInv' /\ Bottom = "clear" /\ Bottom' = "abort"
      BY <1>3, <1>5, BecomeStep DEF ClearEnd, SendInv
    <2>2. shut' = shut /\ open' = open /\ idlecbs = <<>>
      BY <1>5 DEF ClearEnd
    <2>3. ShutInv' /\ (Aborting => Aborting')
      BY <1>2, <2>1, <2>2 DEF SendInv, ShutInv, Aborting
    <2>. QED  BY <1>1, <1>2, <2>1, <2>3, QuietStep
  <1>6. CASE AbortEnd
    <2>1. Bottom = "abort" /\ StackInv' /\ Bottom' \in {"none", "abort"}
      <3>1. Bottom = "abort" /\ At("abort")
        BY <1>3, <1>6, AtOutermost DEF AbortEnd, SendInv
      <3>. QED  BY <1>6, <3>1, PopStep DEF AbortEnd, SendInv
    <2>2. shut' = shut /\ open' = FALSE /\ queue = <<>>
      BY <1>6 DEF AbortEnd
    <2>3. ShutInv' /\ (Aborting => Aborting')
      BY <1>2, <2>1, <2>2 DEF SendInv, ShutInv, Aborting
    <2>. QED  BY <1>1, <1>2, <2>1, <2>3, QuietStep
  <1>. QED  BY <1>4, <1>5, <1>6

\* The buffers of which the program has been or is going to be told.
Done == Len(notified) + Len(idlecbs)

\* While the connection is not closing, the queue begins where the socket is.
LEMMA WhereQueueBegins ==
  ASSUME SendInv, ~Aborting
  PROVE  /\ Taken(wire, len, Done, Offset(queue)) /\ Told(notified, Done)
         /\ Done \in Nat /\ Len(notified) <= Done
         /\ Ordered(notified, idlecbs, queue, len) /\ Done + Len(queue) = Len(len)
  <1>1. Ordered(notified, idlecbs, queue, len)
    BY DEF SendInv
  <1>2. Len(notified) \in Nat /\ Len(idlecbs) \in Nat
    BY <1>1, OrderedLens
  <1>3. Len(notified) + Len(idlecbs) + Len(queue) = Len(len)
    BY <1>1 DEF Ordered
  <1>4. PICK t \in Nat, k \in Nat :
           /\ Taken(wire, len, t, k) /\ Told(notified, t)
           /\ t = Len(notified) + Len(idlecbs) /\ k = Offset(queue)
    BY DEF SendInv, WireInv
  <1>5. Done \in Nat /\ Len(notified) <= Done
    BY SMT, <1>2 DEF Done
  <1>. QED  BY <1>1, <1>3, <1>4, <1>5 DEF Done

\* When all notifications made are those of whole buffers, it stays so.
LEMMA StillTold ==
  ASSUME NEW nt, NEW t \in Nat, Len(nt) \in Nat, Len(nt) <= t, Told(nt, t)
  PROVE  Told(nt, t + 1)
  <1>1. \A n \in Nat : n <= t => \A i \in 1 .. n : i <= t /\ i <= t + 1
    BY SMT
  <1>2. \A i \in 1 .. Len(nt) : i <= t /\ i <= t + 1
    BY <1>1
  <1>. QED  BY <1>2 DEF Told

\* A step of a connection that is not shut down, and that writes or accepts buffers.
LEMMA ActiveStep ==
  ASSUME SendInv, ~shut, UNCHANGED <<shut, removeflag, open, revents, stack, notified>>,
         out' \in BOOLEAN, idle' = idlecbs', Ordered(notified', idlecbs', queue', len'),
         NEW t \in Nat, Taken(wire', len', t, Offset(queue')), Told(notified', t),
         t = Len(notified') + Len(idlecbs')
  PROVE  SendInv'
  <1>1. FlagsType'
    BY DEF SendInv, FlagsType
  <1>2. StackInv' /\ Bottom' = Bottom
    BY DEF SendInv, StackInv, Bottom
  <1>3. ~Aborting'
    BY <1>2 DEF SendInv, ShutInv, Aborting
  <1>4. ShutInv'
    BY <1>2, <1>3 DEF SendInv, ShutInv, Aborting
  <1>5. WireInv'
    <2>1. Offset(queue') \in Nat
      BY DEF Taken, Position
    <2>2. t <= Len(notified') + Len(idlecbs')
      BY SMT
    <2>. QED  BY <2>1, <2>2 DEF WireInv
  <1>. QED  BY <1>1, <1>2, <1>4, <1>5 DEF SendInv

\* The buffers accepted, and the buffer at the head of the queue.
LEMMA AcceptFacts ==
  ASSUME SendInv, NEW l \in Lengths, Accept(l)
  PROVE  /\ l \in Nat \ {0} /\ ~Aborting /\ ~shut
         /\ UNCHANGED <<shut, removeflag, open, revents, stack, notified>>
         /\ len' = Append(len, l) /\ Len(len) < MaxSends /\ Len(len) \in Nat
         /\ len' \in Seq(Lengths) /\ Len(len') = Len(len) + 1 /\ len'[Len(len) + 1] = l
         /\ Len(len') \in Buffers
  <1>1. ~shut /\ len' = Append(len, l) /\ Len(len) < MaxSends
        /\ UNCHANGED <<shut, removeflag, open, revents, stack, notified>>
    BY DEF Accept
  <1>2. len \in Seq(Lengths)
    BY DEF SendInv, Ordered
  <1>3. len' \in Seq(Lengths) /\ Len(len') = Len(len) + 1 /\ len'[Len(len) + 1] = l /\ Len(len) \in Nat
    BY <1>1, <1>2, AppendProperties, LenProperties
  <1>4. Len(len') \in Buffers
    <2>1. \A n \in Nat : n < MaxSends => n + 1 \in 1 .. MaxSends
      BY SMT, BoundsAssumption
    <2>. QED  BY <1>1, <1>3, <2>1 DEF Buffers
  <1>5. ~Aborting
    BY <1>1 DEF SendInv, ShutInv
  <1>. QED  BY <1>1, <1>3, <1>4, <1>5, LengthsAssumption

\* The notification of a buffer.
LEMMA NoticeIs ==
  ASSUME NEW b \in Buffers, NEW x \in BOOLEAN, NEW y \in BOOLEAN
  PROVE  LET e == [buf |-> b, status |-> [sent |-> x, empty |-> y]]
         IN  e \in Notice /\ e.buf = b /\ e.status.sent = x
  BY DEF Notice, Status

\* A buffer is written at once.
LEMMA SendNowStep ==
  ASSUME SendInv, NEW l \in Lengths, SendNow(l)
  PROVE  SendInv'
  <1>. DEFINE e == [buf |-> Len(len'), status |-> [sent |-> TRUE, empty |-> TRUE]]
              t == Done
  <1>1. /\ queue = <<>> /\ Accept(l) /\ queue' = queue /\ out' = out
        /\ Write(Len(len'), 0, l) /\ idlecbs' = Append(idlecbs, e) /\ idle' = Append(idle, e)
    BY DEF SendNow, AddIdleCb
  <1>2. /\ l \in Nat \ {0} /\ ~Aborting /\ ~shut
        /\ UNCHANGED <<shut, removeflag, open, revents, stack, notified>>
        /\ len' = Append(len, l) /\ Len(len) < MaxSends /\ Len(len) \in Nat
        /\ len' \in Seq(Lengths) /\ Len(len') = Len(len) + 1 /\ len'[Len(len) + 1] = l
        /\ Len(len') \in Buffers
    BY <1>1, AcceptFacts
  <1>3. /\ Taken(wire, len, t, Offset(queue)) /\ Told(notified, t)
        /\ t \in Nat /\ Len(notified) <= t
        /\ Ordered(notified, idlecbs, queue, len) /\ t + Len(queue) = Len(len)
    BY <1>2, WhereQueueBegins
  <1>4. Offset(queue) = 0 /\ Len(queue) = 0
    BY <1>1 DEF Offset
  <1>5. e \in Notice /\ e.buf = Len(len) + 1 /\ e.status.sent = TRUE
    BY <1>2, NoticeIs
  <1>. HIDE DEF e, t
  <1>6. t = Len(len) /\ Len(len') = t + 1 /\ t < Len(len')
    BY SMT, <1>2, <1>3, <1>4
  <1>7. Taken(wire', len', t + 1, 0)
    <2>1. Taken(wire, len', t, 0)
      BY <1>2, <1>3, <1>4, Longer
    <2>2. 0 + l = len'[t + 1] /\ 0 + l <= len'[t + 1] /\ l \in Nat
      BY SMT, <1>2, <1>6
    <2>3. wire' = wire \o Bytes(t + 1, 0, l)
      BY <1>1, <1>6 DEF Write, Bytes
    <2>. QED  BY <1>6, <2>1, <2>2, <2>3, Written
  <1>8. Ordered(notified', idlecbs', queue', len')
    BY <1>1, <1>2, <1>3, <1>5, AcceptWhole
  <1>9. t + 1 = Len(notified') + Len(idlecbs') /\ t + 1 \in Nat
    <2>1. idlecbs \in Seq(Notice) /\ Len(notified) \in Nat /\ Len(idlecbs) \in Nat
      BY <1>3, OrderedLens DEF Ordered
    <2>2. Len(idlecbs') = Len(idlecbs) + 1
      BY SMT, <1>1, <1>5, <2>1, AppendProperties
    <2>. QED  BY SMT, <1>2, <2>1, <2>2 DEF t, Done
  <1>10. Told(notified', t + 1)
    <2>1. Len(notified) \in Nat
      BY <1>3, OrderedLens
    <2>. QED  BY <1>2, <1>3, <2>1, StillTold
  <1>11. out' \in BOOLEAN /\ idle' = idlecbs' /\ Offset(queue') = 0
    BY <1>1, <1>4 DEF SendInv, FlagsType
  <1>. QED  BY <1>2, <1>7, <1>8, <1>9, <1>10, <1>11, ActiveStep

LEMMA EntryIs ==
  ASSUME NEW b \in Nat, NEW k \in Nat
  PROVE  /\ [buf |-> b, off |-> k] \in Entry
         /\ [buf |-> b, off |-> k].buf = b /\ [buf |-> b, off |-> k].off = k
  BY DEF Entry

LEMMA OneEntry ==
  ASSUME NEW r \in Entry
  PROVE  Append(<<>>, r) = <<r>> /\ Offset(<<r>>) = r.off
  <1>1. <<>> \in Seq(Entry) /\ Len(<<>>) = 0
    BY EmptySeq
  <1>2. /\ Append(<<>>, r) \in Seq(Entry) /\ Len(Append(<<>>, r)) = Len(<<>>) + 1
        /\ Append(<<>>, r)[Len(<<>>) + 1] = r
    BY <1>1, AppendProperties
  <1>. DEFINE u == <<r>>
              v == Append(<<>>, r)
  <1>3. u \in Seq(Entry) /\ Len(u) = 1 /\ u[1] = r /\ u # <<>>
    BY SMT
  <1>4. v \in Seq(Entry) /\ Len(v) = 1 /\ v[1] = r
    BY SMT, <1>1, <1>2
  <1>. HIDE DEF u, v
  <1>5. \A i \in 1 .. Len(u) : u[i] = v[i]
    BY SMT, <1>3, <1>4
  <1>6. u = v
    BY <1>3, <1>4, <1>5, SeqEqual
  <1>7. Offset(u) = r.off
    BY <1>3 DEF Offset
  <1>. QED  BY <1>6, <1>7 DEF u, v

\* A buffer is written in part, or not at all, and queued.
LEMMA SendPartStep ==
  ASSUME SendInv, NEW l \in Lengths, NEW n \in 0 .. l - 1, SendPart(l, n)
  PROVE  SendInv'
  <1>. DEFINE r == [buf |-> Len(len'), off |-> n]
              t == Done
  <1>1. /\ queue = <<>> /\ Accept(l) /\ Write(Len(len'), 0, n) /\ queue' = <<r>> /\ out' = TRUE
        /\ UNCHANGED <<idlecbs, idle>>
    BY DEF SendPart
  <1>2. /\ l \in Nat \ {0} /\ ~Aborting /\ ~shut
        /\ UNCHANGED <<shut, removeflag, open, revents, stack, notified>>
        /\ len' = Append(len, l) /\ Len(len) < MaxSends /\ Len(len) \in Nat
        /\ len' \in Seq(Lengths) /\ Len(len') = Len(len) + 1 /\ len'[Len(len) + 1] = l
        /\ Len(len') \in Buffers
    BY <1>1, AcceptFacts
  <1>3. /\ Taken(wire, len, t, Offset(queue)) /\ Told(notified, t)
        /\ t \in Nat /\ Len(notified) <= t
        /\ Ordered(notified, idlecbs, queue, len) /\ t + Len(queue) = Len(len)
    BY <1>2, WhereQueueBegins
  <1>4. Offset(queue) = 0 /\ Len(queue) = 0
    BY <1>1 DEF Offset
  <1>5. n \in Nat /\ n < l /\ 0 + n = n
    BY SMT, <1>2
  <1>6. r \in Entry /\ r.buf = Len(len) + 1 /\ r.off = n
    <2>1. Len(len') \in Nat
      BY SMT, <1>2
    <2>. QED  BY <1>2, <1>5, <2>1, EntryIs
  <1>. HIDE DEF r, t
  <1>7. t = Len(len) /\ Len(len') = t + 1 /\ t < Len(len')
    BY SMT, <1>2, <1>3, <1>4
  <1>8. Taken(wire', len', t, n)
    <2>1. Taken(wire, len', t, 0)
      BY <1>2, <1>3, <1>4, Longer
    <2>2. len'[t + 1] = l /\ 0 + n # len'[t + 1] /\ 0 + n <= len'[t + 1]
      <3>1. len'[t + 1] = l
        BY <1>2, <1>7
      <3>2. 0 + n # l /\ 0 + n <= l
        BY SMT, <1>2, <1>5
      <3>. QED  BY <3>1, <3>2
    <2>3. wire' = wire \o Bytes(t + 1, 0, n)
      BY <1>1, <1>7 DEF Write, Bytes
    <2>4. Taken(wire', len', t, 0 + n)
      BY <1>5, <1>7, <2>1, <2>2, <2>3, Written
    <2>. QED  BY <1>5, <2>4
  <1>9. Ordered(notified', idlecbs', queue', len') /\ Offset(queue') = n
    <2>1. queue' = Append(queue, r) /\ Offset(queue') = n
      BY <1>1, <1>6, OneEntry
    <2>2. r.off < l
      BY <1>5, <1>6
    <2>. QED  BY <1>1, <1>2, <1>3, <1>6, <2>1, <2>2, AcceptQueued
  <1>10. t = Len(notified') + Len(idlecbs') /\ out' \in BOOLEAN /\ idle' = idlecbs'
    BY <1>1, <1>2 DEF SendInv, t, Done
  <1>. QED  BY <1>2, <1>3, <1>8, <1>9, <1>10, ActiveStep

\* A buffer is queued behind others.
LEMMA SendQueuedStep ==
  ASSUME SendInv, NEW l \in Lengths, SendQueued(l)
  PROVE  SendInv'
  <1>. DEFINE r == [buf |-> Len(len'), off |-> 0]
              t == Done
  <1>1. /\ queue # <<>> /\ Accept(l) /\ queue' = Append(queue, r)
        /\ UNCHANGED <<idlecbs, idle, out, wire>>
    BY DEF SendQueued
  <1>2. /\ l \in Nat \ {0} /\ ~Aborting /\ ~shut
        /\ UNCHANGED <<shut, removeflag, open, revents, stack, notified>>
        /\ len' = Append(len, l) /\ Len(len) < MaxSends /\ Len(len) \in Nat
        /\ len' \in Seq(Lengths) /\ Len(len') = Len(len) + 1 /\ len'[Len(len) + 1] = l
        /\ Len(len') \in Buffers
    BY <1>1, AcceptFacts
  <1>3. /\ Taken(wire, len, t, Offset(queue)) /\ Told(notified, t)
        /\ t \in Nat /\ Len(notified) <= t
        /\ Ordered(notified, idlecbs, queue, len) /\ t + Len(queue) = Len(len)
    BY <1>2, WhereQueueBegins
  <1>4. r \in Entry /\ r.buf = Len(len) + 1 /\ r.off = 0 /\ r.off < l
    <2>1. Len(len') \in Nat /\ 0 < l
      BY SMT, <1>2
    <2>. QED  BY <1>2, <2>1, EntryIs
  <1>. HIDE DEF r, t
  <1>5. Ordered(notified', idlecbs', queue', len')
    BY <1>1, <1>2, <1>3, <1>4, AcceptQueued
  <1>6. Offset(queue') = Offset(queue)
    <2>1. queue \in Seq(Entry) /\ Len(queue) > 0 /\ Len(queue) \in Nat
      BY <1>1, <1>3, OrderedLens DEF Ordered, Entry
    <2>2. queue' # <<>> /\ queue'[1] = queue[1]
      BY SMT, <1>1, <1>4, <2>1, AppendProperties
    <2>. QED  BY <1>1, <2>2 DEF Offset
  <1>7. Taken(wire', len', t, Offset(queue'))
    BY <1>1, <1>2, <1>3, <1>6, Longer
  <1>8. t = Len(notified') + Len(idlecbs') /\ out' \in BOOLEAN /\ idle' = idlecbs'
    BY <1>1, <1>2 DEF SendInv, FlagsType, t, Done
  <1>. QED  BY <1>2, <1>3, <1>5, <1>7, <1>8, ActiveStep

\* The buffer at the head of the queue is written, in part or up to its end.
LEMMA WriteSomeStep ==
  ASSUME SendInv, WriteSome
  PROVE  SendInv'
  <1>. DEFINE t == Done
              k == Offset(queue)
              b == Head(queue).buf
              e == [buf |-> b, status |-> [sent |-> TRUE, empty |-> queue' = <<>>]]
  <1>1. /\ queue # <<>> /\ ~shut /\ UNCHANGED <<shut, removeflag, open, revents, stack, notified>>
        /\ len' = len /\ out' = out
    BY DEF WriteSome
  <1>2. ~Aborting
    BY <1>1 DEF SendInv, ShutInv
  <1>3. /\ Taken(wire, len, t, k) /\ Told(notified, t) /\ t \in Nat /\ Len(notified) <= t
        /\ Ordered(notified, idlecbs, queue, len) /\ t + Len(queue) = Len(len)
    BY <1>2, WhereQueueBegins
  <1>4. /\ Head(queue) = queue[1] /\ Len(queue) > 0 /\ Len(queue) \in Nat /\ Len(len) \in Nat
        /\ Len(notified) \in Nat /\ Len(idlecbs) \in Nat
    BY <1>1, <1>3, OrderedLens
  <1>5. b = t + 1 /\ k = Head(queue).off /\ k = queue[1].off
    <2>1. 1 \in 1 .. Len(queue)
      BY SMT, <1>4
    <2>2. queue[1].buf = Len(notified) + Len(idlecbs) + 1
      BY <1>3, <2>1 DEF Ordered
    <2>. QED  BY <1>1, <1>4, <2>2 DEF Done, Offset
  <1>6. Rest = len[t + 1] - k
    BY <1>5 DEF Rest
  <1>7. /\ t < Len(len) /\ len[t + 1] \in Nat \ {0} /\ k \in Nat /\ k < len[t + 1] /\ t + 1 \in Buffers
    <2>1. t < Len(len) /\ t + 1 \in 1 .. Len(len)
      BY SMT, <1>3, <1>4
    <2>2. len \in Seq(Nat \ {0}) /\ k \in Nat /\ (k > 0 => k < len[t + 1])
      BY <1>3 DEF Taken, Position
    <2>3. len[t + 1] \in Nat \ {0}
      BY <2>1, <2>2, ElementOfSeq
    <2>4. Len(len) <= MaxSends
      BY <1>3 DEF Ordered
    <2>5. t + 1 \in Buffers
      BY SMT, <1>3, <1>4, <2>1, <2>4, BoundsAssumption DEF Buffers
    <2>. HIDE DEF k, t
    <2>6. k < len[t + 1]
      BY SMT, <2>2, <2>3
    <2>. QED  BY <2>1, <2>2, <2>3, <2>5, <2>6
  <1>8. e \in Notice /\ e.buf = Head(queue).buf /\ e.status.sent = TRUE
    <2>1. (queue' = <<>>) \in BOOLEAN /\ b \in Buffers
      BY <1>5, <1>7
    <2>. QED  BY <2>1, NoticeIs
  <1>9. t = Len(notified) + Len(idlecbs)
    BY DEF Done
  <1>10. out \in BOOLEAN /\ idle = idlecbs
    BY DEF SendInv, FlagsType
  <1>. HIDE DEF t, k, b, e
  <1>11. CASE /\ Write(Head(queue).buf, Head(queue).off, Rest)
              /\ queue' = Tail(queue)
              /\ AddIdleCb(Head(queue).buf, [sent |-> TRUE, empty |-> queue' = <<>>])
    <2>1. wire' = wire \o Bytes(t + 1, k, Rest)
      BY <1>5, <1>11 DEF Write, Bytes, b
    <2>2. Rest \in Nat /\ k + Rest = len[t + 1] /\ k + Rest <= len[t + 1]
      <3>1. \A m \in Nat : k < m => m - k \in Nat /\ k + (m - k) = m /\ k + (m - k) <= m
        BY SMT, <1>7
      <3>2. len[t + 1] \in Nat
        BY <1>7
      <3>. QED  BY <1>6, <1>7, <3>1, <3>2
    <2>3. Taken(wire', len', t + 1, 0)
      BY <1>1, <1>3, <1>7, <2>1, <2>2, Written
    <2>4. idlecbs' = Append(idlecbs, e) /\ idle' = Append(idle, e) /\ queue' = Tail(queue)
      BY <1>11 DEF AddIdleCb, e, b
    <2>5. Ordered(notified', idlecbs', queue', len')
      BY <1>1, <1>3, <1>8, <2>4, Dequeue
    <2>6. Offset(queue') = 0
      <3>1. /\ queue \in Seq(Entry)
            /\ \A i \in 1 .. Len(queue) : i > 1 => queue[i].off = 0
        BY <1>3 DEF Ordered, Entry
      <3>2. /\ queue' \in Seq(Entry) /\ Len(queue') = Len(queue) - 1
            /\ \A i \in 1 .. Len(queue') : queue'[i] = queue[i + 1]
        BY <1>1, <2>4, <3>1, HeadTailProperties
      <3>3. ASSUME queue' # <<>> PROVE queue'[1].off = 0
        <4>1. 1 \in 1 .. Len(queue') /\ 1 + 1 \in 1 .. Len(queue) /\ 1 + 1 > 1
          BY SMT, <1>4, <3>2, <3>3, EmptySeq
        <4>. QED  BY <3>1, <3>2, <4>1
      <3>. QED  BY <3>3 DEF Offset
    <2>7. t + 1 = Len(notified') + Len(idlecbs') /\ t + 1 \in Nat
      <3>1. idlecbs \in Seq(Notice)
        BY <1>3 DEF Ordered
      <3>2. Len(idlecbs') = Len(idlecbs) + 1
        BY <1>8, <2>4, <3>1, AppendProperties
      <3>. QED  BY SMT, <1>1, <1>4, <1>9, <3>2
    <2>8. Told(notified', t + 1)
      BY <1>1, <1>3, <1>4, StillTold
    <2>9. out' \in BOOLEAN /\ idle' = idlecbs'
      BY <1>1, <1>10, <2>4
    <2>. QED  BY <1>1, <2>3, <2>5, <2>6, <2>7, <2>8, <2>9, ActiveStep
  <1>12. CASE \E n \in 1 .. Rest - 1 : /\ Write(Head(queue).buf, Head(queue).off, n)
                                       /\ queue' = [queue EXCEPT ![1].off = @ + n]
                                       /\ UNCHANGED <<idlecbs, idle>>
    <2>1. PICK n \in 1 .. Rest - 1 : /\ Write(Head(queue).buf, Head(queue).off, n)
                                     /\ queue' = [queue EXCEPT ![1].off = @ + n]
                                     /\ UNCHANGED <<idlecbs, idle>>
      BY <1>12
    <2>2. wire' = wire \o Bytes(t + 1, k, n)
      BY <1>5, <2>1 DEF Write, Bytes, b
    <2>3. n \in Nat /\ k + n < len[t + 1] /\ k + n # len[t + 1] /\ k + n <= len[t + 1] /\ k + n \in Nat
      <3>1. \A m \in Nat : n \in 1 .. (m - k) - 1 =>
               n \in Nat /\ k + n < m /\ k + n # m /\ k + n <= m /\ k + n \in Nat
        BY SMT, <1>7
      <3>2. len[t + 1] \in Nat /\ n \in 1 .. (len[t + 1] - k) - 1
        BY <1>6, <1>7
      <3>. QED  BY <3>1, <3>2
    <2>4. Taken(wire', len', t, k + n)
      BY <1>1, <1>3, <1>7, <2>2, <2>3, Written
    <2>5. Ordered(notified', idlecbs', queue', len') /\ Offset(queue') = k + n
      <3>1. queue[1].off + n < len[queue[1].buf]
        BY <1>4, <1>5, <2>3 DEF b
      <3>2. /\ Ordered(notified, idlecbs, queue', len) /\ queue' # <<>>
            /\ queue'[1].off = queue[1].off + n
        <4>. DEFINE p == [queue EXCEPT ![1].off = @ + n]
        <4>1. Ordered(notified, idlecbs, p, len) /\ p # <<>> /\ p[1].off = queue[1].off + n
          BY SMT, <1>1, <1>3, <2>3, <3>1, AdvanceFirst
        <4>2. queue' = p
          BY <2>1
        <4>. HIDE DEF p
        <4>. QED  BY <4>1, <4>2
      <3>. QED  BY <1>1, <1>5, <2>1, <3>2 DEF Offset
    <2>6. t = Len(notified') + Len(idlecbs') /\ Told(notified', t)
      BY <1>1, <1>3, <1>9, <2>1
    <2>7. out' \in BOOLEAN /\ idle' = idlecbs'
      BY <1>1, <1>10, <2>1
    <2>. QED  BY <1>1, <1>3, <2>4, <2>5, <2>6, <2>7, ActiveStep
  <1>. QED  BY <1>11, <1>12 DEF WriteSome

\* The oldest notification that waits is made.
LEMMA NotifyStep ==
  ASSUME SendInv, idlecbs # <<>>, idlecbs' = Tail(idlecbs), idle' = Tail(idlecbs),
         Notify(Head(idlecbs).buf, Head(idlecbs).status),
         UNCHANGED <<len, queue, out, shut, removeflag, open, revents, wire>>
  PROVE  SendInv'
  <1>. DEFINE e == Head(idlecbs)
              t == Done
  <1>1. FlagsType'
    BY DEF SendInv, FlagsType
  <1>2. StackInv' /\ Bottom' = IF stack = <<>> THEN "sendcb" ELSE Bottom
    BY CallsAre, PushStep DEF SendInv, Notify
  <1>3. ~Aborting
    BY DEF SendInv, ShutInv
  <1>4. ~Aborting'
    BY <1>2, <1>3 DEF Aborting
  <1>5. ShutInv'
    BY <1>2, <1>3, <1>4 DEF SendInv, ShutInv, Aborting, Bottom
  <1>6. /\ Taken(wire, len, t, Offset(queue)) /\ Told(notified, t) /\ t \in Nat
        /\ Ordered(notified, idlecbs, queue, len)
    BY <1>3, WhereQueueBegins
  <1>7. /\ notified \in Seq(Notice) /\ idlecbs \in Seq(Notice)
        /\ Len(notified) \in Nat /\ Len(idlecbs) \in Nat /\ Len(idlecbs) > 0 /\ e = idlecbs[1]
    BY <1>6, OrderedLens DEF Ordered
  <1>8. e \in Notice /\ e.status.sent = TRUE
    <2>1. 1 \in 1 .. Len(idlecbs)
      BY SMT, <1>7
    <2>. QED  BY SMT, <1>6, <1>7, <2>1, ElementOfSeq DEF Ordered
  <1>9. notified' = Append(notified, e)
    <2>1. [buf |-> e.buf, status |-> e.status] = e
      BY <1>8 DEF Notice
    <2>. QED  BY <2>1 DEF Notify
  <1>. HIDE DEF e
  <1>10. Ordered(notified', idlecbs', queue', len')
    BY <1>6, <1>9, NotifyOldest DEF e
  <1>11. /\ Len(notified') = Len(notified) + 1 /\ notified'[Len(notified) + 1] = e
         /\ \A i \in 1 .. Len(notified) : notified'[i] = notified[i]
    BY SMT, <1>7, <1>8, <1>9, AppendProperties
  <1>12. Len(idlecbs') = Len(idlecbs) - 1
    BY <1>7, HeadTailProperties
  <1>13. t = Len(notified') + Len(idlecbs') /\ t <= Len(notified') + Len(idlecbs')
    BY SMT, <1>7, <1>11, <1>12 DEF Done
  <1>14. Told(notified', t)
    <2>1. \A i \in 1 .. Len(notified') : i \in 1 .. Len(notified) \/ i = Len(notified) + 1
      BY SMT, <1>7, <1>11
    <2>2. Len(notified) + 1 <= t
      BY SMT, <1>7 DEF Done
    <2>3. \A i \in 1 .. Len(notified) : notified[i].status.sent = TRUE <=> i <= t
      BY <1>6 DEF Told
    <2>. HIDE DEF t
    <2>4. \A i \in 1 .. Len(notified') : notified'[i].status.sent = TRUE <=> i <= t
      BY <1>8, <1>11, <2>1, <2>2, <2>3
    <2>. QED  BY <2>4 DEF Told
  <1>15. WireInv'
    <2>1. Offset(queue) \in Nat
      BY <1>6 DEF Taken, Position
    <2>. HIDE DEF t
    <2>. QED  BY <1>6, <1>13, <1>14, <2>1 DEF WireInv
  <1>. QED  BY <1>1, <1>2, <1>5, <1>10, <1>15 DEF SendInv

\* clear_pending_callbacks makes the oldest notification.
LEMMA ClearNextStep ==
  ASSUME SendInv, ClearNext
  PROVE  SendInv'
  <1>1. idlecbs # <<>> /\ idle = idlecbs /\ Ordered(notified, idlecbs, queue, len)
    BY DEF SendInv, ClearNext
  <1>2. idlecbs \in Seq(Notice) /\ Len(idlecbs) \in Nat /\ Len(idlecbs) > 0 /\ Len(notified) \in Nat
    BY <1>1, OrderedLens DEF Ordered
  <1>3. \A i \in 1 .. Len(idlecbs) : idlecbs[i] = idlecbs[1] => i = 1
    <2>1. \A i \in 1 .. Len(idlecbs) : idlecbs[i].buf = Len(notified) + i
      BY <1>1 DEF Ordered
    <2>2. 1 \in 1 .. Len(idlecbs)
      BY SMT, <1>2
    <2>3. \A i \in 1 .. Len(idlecbs) : Len(notified) + i = Len(notified) + 1 => i = 1
      BY SMT, <1>2
    <2>. QED  BY <2>1, <2>2, <2>3
  <1>4. Without(idle, Head(idlecbs)) = Tail(idlecbs)
    BY <1>1, <1>2, <1>3, WithoutFirst
  <1>5. idle' = Tail(idlecbs)
    BY <1>4 DEF ClearNext
  <1>. QED  BY <1>1, <1>5, NotifyStep DEF ClearNext

\* The loop, or a flush, calls pomp_idle_cb: the notification is always the oldest one.
LEMMA IdleCbStep ==
  ASSUME SendInv, IdleCb
  PROVE  SendInv'
  <1>1. idle = idlecbs /\ idlecbs # <<>>
    BY DEF SendInv, IdleCb
  <1>. QED  BY <1>1, NotifyStep DEF IdleCb

\* pomp_conn_close aborts the buffer at the head of the queue.
LEMMA AbortNextStep ==
  ASSUME SendInv, AbortNext
  PROVE  SendInv'
  <1>. DEFINE e == [buf |-> Head(queue).buf, status |-> [sent |-> FALSE, empty |-> queue' = <<>>]]
  <1>0. /\ At("abort") /\ queue # <<>> /\ queue' = Tail(queue)
        /\ notified' = Append(notified, e) /\ Push("sendcb")
        /\ UNCHANGED <<len, idlecbs, idle, out, shut, removeflag, open, revents, wire>>
    BY DEF AbortNext, Notify
  <1>1. FlagsType'
    BY <1>0 DEF SendInv, FlagsType
  <1>2. stack # <<>> /\ Bottom = "abort"
    BY <1>0, AtOutermost DEF SendInv, Outermost
  <1>3. StackInv' /\ Bottom' = "abort"
    BY <1>0, <1>2, CallsAre, PushStep DEF SendInv
  <1>4. Aborting /\ Aborting' /\ shut /\ idlecbs = <<>> /\ open
    BY <1>0, <1>2, <1>3 DEF SendInv, ShutInv, Aborting
  <1>5. ShutInv'
    BY <1>0, <1>4 DEF ShutInv
  <1>6. Ordered(notified, idlecbs, queue, len) /\ idle = idlecbs
    BY DEF SendInv
  <1>7. /\ notified \in Seq(Notice) /\ Len(notified) \in Nat /\ Len(idlecbs) = 0
        /\ Len(queue) > 0 /\ Len(queue) \in Nat /\ Head(queue) = queue[1]
    <2>1. notified \in Seq(Notice)
      BY <1>6 DEF Ordered
    <2>2. /\ Len(notified) \in Nat /\ Len(queue) \in Nat
          /\ Head(queue) = queue[1] /\ Len(queue) > 0
      BY <1>0, <1>6, OrderedLens
    <2>3. Len(idlecbs) = 0
      BY <1>4
    <2>. QED  BY <2>1, <2>2, <2>3
  <1>8. Head(queue).buf \in Buffers
    <2>1. 1 \in 1 .. Len(queue)
      BY SMT, <1>7
    <2>2. queue[1].buf = Len(notified) + Len(idlecbs) + 1
      BY <1>6, <2>1 DEF Ordered
    <2>3. Len(notified) + Len(idlecbs) + Len(queue) = Len(len) /\ Len(len) <= MaxSends /\ Len(len) \in Nat
      BY SMT, <1>6, OrderedLens DEF Ordered
    <2>4. Len(notified) + Len(idlecbs) + 1 \in 1 .. MaxSends
      BY SMT, <1>7, <2>3, BoundsAssumption
    <2>. QED  BY <1>7, <2>2, <2>4 DEF Buffers
  <1>9. e \in Notice /\ e.buf = Head(queue).buf /\ e.status.sent = FALSE
    <2>1. (queue' = <<>>) \in BOOLEAN
      OBVIOUS
    <2>. QED  BY <1>8, <2>1, NoticeIs
  <1>. HIDE DEF e
  <1>10. Ordered(notified', idlecbs', queue', len')
    BY <1>0, <1>4, <1>6, <1>9, Dequeue
  <1>11. /\ Len(notified') = Len(notified) + 1 /\ notified'[Len(notified) + 1] = e
         /\ \A i \in 1 .. Len(notified) : notified'[i] = notified[i]
    BY SMT, <1>0, <1>7, <1>9, AppendProperties
  <1>12. PICK t \in Nat, k \in Nat :
            Taken(wire, len, t, k) /\ Told(notified, t) /\ t <= Len(notified) + Len(idlecbs)
    BY DEF SendInv, WireInv
  <1>13. ~(Len(notified) + 1 <= t) /\ t <= Len(notified') + Len(idlecbs')
    BY SMT, <1>0, <1>7, <1>11, <1>12
  <1>14. Told(notified', t)
    <2>1. \A i \in 1 .. Len(notified') : i \in 1 .. Len(notified) \/ i = Len(notified) + 1
      BY SMT, <1>7, <1>11
    <2>2. \A i \in 1 .. Len(notified) : notified[i].status.sent = TRUE <=> i <= t
      BY <1>12 DEF Told
    <2>3. e.status.sent # TRUE
      BY <1>9
    <2>4. \A i \in 1 .. Len(notified') : notified'[i].status.sent = TRUE <=> i <= t
      BY <1>11, <1>13, <2>1, <2>2, <2>3
    <2>. QED  BY <2>4 DEF Told
  <1>15. WireInv'
    BY <1>0, <1>4, <1>12, <1>13, <1>14 DEF WireInv
  <1>. QED  BY <1>0, <1>1, <1>3, <1>5, <1>6, <1>10, <1>15 DEF SendInv

(***************************************************************************)
(* The theorems                                                             *)
(***************************************************************************)
LEMMA Invariance == Spec => []SendInv
  <1>1. Init => SendInv
    <2>. SUFFICES ASSUME Init PROVE SendInv
      OBVIOUS
    <2>1. FlagsType
      BY DEF Init, FlagsType
    <2>2. StackInv
      BY SMT, EmptySeq DEF Init, StackInv
    <2>3. ShutInv
      BY DEF Init, ShutInv, Aborting, Bottom
    <2>4. Ordered(notified, idlecbs, queue, len)
      <3>1. /\ Len(<<>>) = 0 /\ 0 + 0 + 0 = 0 /\ 0 <= MaxSends /\ \A i \in 1 .. 0 : FALSE
            /\ <<>> \in Seq(Lengths) /\ <<>> \in Seq(Notice) /\ <<>> \in Seq([buf : Nat, off : Nat])
        BY SMT, BoundsAssumption, EmptySeq
      <3>. QED  BY <3>1 DEF Init, Ordered
    <2>5. Taken(wire, len, 0, 0) /\ Told(notified, 0)
      <3>1. /\ Len(<<>>) = 0 /\ 0 \in 0 .. 0 /\ 0 \in Nat /\ ~(0 > 0)
            /\ \A i \in 1 .. 0 : FALSE
            /\ \A i \in 1 .. 0 - 1 : FALSE
            /\ <<>> \in Seq(Nat \ {0}) /\ <<>> \in Seq(Nat \X Nat)
        BY SMT, EmptySeq
      <3>2. Position(<<>>, 0, 0)
        BY <3>1 DEF Position
      <3>3. InOrder(<<>>, <<>>)
        BY <3>1 DEF InOrder
      <3>4. Taken(<<>>, <<>>, 0, 0)
        BY <3>1, <3>2, <3>3 DEF Taken
      <3>. QED  BY <3>1, <3>4 DEF Init, Told
    <2>6. WireInv
      <3>1. 0 = Len(<<>>) + Len(<<>>) /\ 0 <= Len(<<>>) + Len(<<>>) /\ 0 \in Nat
        BY SMT
      <3>2. Offset(queue) = 0
        BY DEF Init, Offset
      <3>. QED  BY <2>5, <3>1, <3>2 DEF Init, WireInv
    <2>. QED  BY <2>1, <2>2, <2>3, <2>4, <2>6 DEF Init, SendInv
  <1>2. SendInv /\ [Next]_vars => SendInv'
    <2>. SUFFICES ASSUME SendInv, [Next]_vars PROVE SendInv'
      OBVIOUS
    <2>1. CASE Send
      BY <2>1, SendNowStep, SendPartStep, SendQueuedStep DEF Send
    <2>2. CASE \E r \in Events : ConnCb(r)
      BY <2>2, ConnCbStep
    <2>3. CASE ReadMsg \/ CtxStop \/ Disconnect \/ Flush
      BY <2>3, CallStep
    <2>4. CASE IdleCb
      BY <2>4, IdleCbStep
    <2>5. CASE Progress
      <3>1. CASE ReadEnd(FALSE) \/ ReadEnd(TRUE) \/ WriteBlocks \/ WriteFails \/ WriteDone
        BY <3>1, GoOnStep
      <3>2. CASE CallbackReturn \/ FlushEnd \/ (ClearEnd /\ ~At("clear"))
        BY <3>2, ReturnStep
      <3>3. CASE EventReturn \/ (ClearEnd /\ At("clear")) \/ AbortEnd
        BY <3>3, CloseStep
      <3>. QED  BY <2>5, <3>1, <3>2, <3>3, WriteSomeStep, ConnCbEndStep, ClearNextStep, AbortNextStep
                DEF Progress
    <2>6. CASE UNCHANGED vars
      BY <2>6 DEF vars, SendInv, FlagsType, StackInv, ShutInv, WireInv, Aborting, Bottom
    <2>. QED  BY <2>1, <2>2, <2>3, <2>4, <2>5, <2>6 DEF Next
  <1>. QED  BY <1>1, <1>2, PTL DEF Spec

\* The variables of a connection keep their types, and every buffer of the queue has bytes left.
THEOREM SendType == Spec => []TypeOK
  <1>1. SendInv => TypeOK
    <2>. SUFFICES ASSUME SendInv PROVE TypeOK
      OBVIOUS
    <2>1. Ordered(notified, idlecbs, queue, len) /\ idle = idlecbs
      BY DEF SendInv
    <2>2. /\ Len(notified) \in Nat /\ Len(idlecbs) \in Nat /\ Len(queue) \in Nat /\ Len(len) \in Nat
          /\ Len(notified) + Len(idlecbs) + Len(queue) = Len(len) /\ Len(len) <= MaxSends
      BY SMT, <2>1, OrderedLens DEF Ordered
    <2>3. queue \in Seq([buf : 1 .. Len(len), off : Nat])
      <3>1. queue \in [1 .. Len(queue) -> Entry]
        BY <2>1, LenProperties DEF Ordered, Entry
      <3>2. ASSUME NEW i \in 1 .. Len(queue) PROVE queue[i] \in [buf : 1 .. Len(len), off : Nat]
        <4>1. queue[i] \in Entry /\ queue[i].buf = Len(notified) + Len(idlecbs) + i
          BY <2>1, <3>1 DEF Ordered
        <4>2. Len(notified) + Len(idlecbs) + i \in 1 .. Len(len)
          BY SMT, <2>2
        <4>. QED  BY <4>1, <4>2 DEF Entry
      <3>3. queue \in [1 .. Len(queue) -> [buf : 1 .. Len(len), off : Nat]]
        BY <3>1, <3>2
      <3>. QED  BY <2>2, <3>3, SeqDef
    <2>4. \A i \in 1 .. Len(queue) : queue[i].off < len[queue[i].buf]
      BY <2>1 DEF Ordered
    <2>5. wire \in Seq(Buffers \X Nat)
      <3>1. wire \in Seq(Nat \X Nat) /\ \A i \in 1 .. Len(wire) : wire[i][1] \in 1 .. Len(len)
        BY DEF SendInv, WireInv, Taken
      <3>2. wire \in [1 .. Len(wire) -> Nat \X Nat] /\ Len(wire) \in Nat
        BY <3>1, LenProperties
      <3>3. 1 .. Len(len) \subseteq Buffers
        BY SMT, <2>2, BoundsAssumption DEF Buffers
      <3>4. \A p \in Nat \X Nat : p[1] \in Buffers => p \in Buffers \X Nat
        OBVIOUS
      <3>5. \A i \in 1 .. Len(wire) : wire[i] \in Buffers \X Nat
        BY <3>1, <3>2, <3>3, <3>4
      <3>6. wire \in [1 .. Len(wire) -> Buffers \X Nat]
        BY <3>2, <3>5
      <3>. QED  BY ZenonT(30), <3>2, <3>6, SeqDef
    <2>. QED  BY <2>1, <2>3, <2>4, <2>5 DEF SendInv, FlagsType, StackInv, Ordered, TypeOK
  <1>. QED  BY <1>1, Invariance, PTL

\* The peer gets the bytes of the buffers in the order of the sends, none twice and none left out,
\* whatever pomp_io_buffer_write takes at a time.
THEOREM WireIsInOrder == Spec => []WireInOrder
  <1>1. SendInv => WireInOrder
    <2>. SUFFICES ASSUME SendInv, NEW i \in 1 .. Len(wire)
                  PROVE  wire[i] = IF i = 1 THEN <<1, 1>>
                                   ELSE IF wire[i - 1][2] < len[wire[i - 1][1]]
                                        THEN <<wire[i - 1][1], wire[i - 1][2] + 1>>
                                   ELSE <<wire[i - 1][1] + 1, 1>>
      BY DEF WireInOrder
    <2>1. wire \in Seq(Nat \X Nat) /\ InOrder(wire, len)
      BY DEF SendInv, WireInv, Taken
    <2>2. Len(wire) \in Nat /\ wire[i] \in Nat \X Nat
      BY <2>1, LenProperties, ElementOfSeq
    <2>3. \A a, b : Byte(wire, i, a, b) => wire[i] = <<a, b>>
      BY SMT, <2>2 DEF Byte
    <2>4. CASE i = 1
      <3>1. wire # <<>>
        BY SMT, <2>1, <2>2
      <3>. QED  BY <2>1, <2>3, <2>4, <3>1 DEF InOrder
    <2>5. CASE i # 1
      <3>1. i - 1 \in 1 .. Len(wire) - 1 /\ (i - 1) + 1 = i
        BY SMT, <2>2, <2>5
      <3>2. IF wire[i - 1][2] < len[wire[i - 1][1]] THEN Byte(wire, i, wire[i - 1][1], wire[i - 1][2] + 1)
            ELSE Byte(wire, i, wire[i - 1][1] + 1, 1)
        BY <2>1, <3>1 DEF InOrder
      <3>. QED  BY <2>3, <2>5, <3>2
    <2>. QED  BY <2>4, <2>5
  <1>. QED  BY <1>1, Invariance, PTL

\* The send callback is called for the buffers in the order of the sends, for none twice, whether
\* the notification comes from the loop, a flush, a disconnection or pomp_conn_close.
THEOREM NotificationsAreInOrder == Spec => []NotifiedInOrder
  <1>1. SendInv => NotifiedInOrder
    BY DEF SendInv, Ordered, NotifiedInOrder
  <1>. QED  BY <1>1, Invariance, PTL

\* A buffer is notified as sent exactly when the socket has taken all of it.
THEOREM StatusesAreTrue == Spec => []StatusIsTrue
  <1>1. SendInv => StatusIsTrue
    <2>. SUFFICES ASSUME SendInv, NEW i \in 1 .. Len(notified)
                  PROVE  notified[i].status.sent <=>
                            \E j \in 1 .. Len(wire) : wire[j] = <<notified[i].buf, len[notified[i].buf]>>
      BY DEF StatusIsTrue
    <2>1. PICK t \in Nat, k \in Nat : Taken(wire, len, t, k) /\ Told(notified, t)
      BY DEF SendInv, WireInv
    <2>2. notified \in Seq(Notice) /\ notified[i].buf = i
      BY DEF SendInv, Ordered
    <2>3. i \in 1 .. Len(len)
      <3>1. /\ Len(notified) \in Nat /\ Len(idlecbs) \in Nat /\ Len(queue) \in Nat /\ Len(len) \in Nat
            /\ Len(notified) + Len(idlecbs) + Len(queue) = Len(len)
        BY SMT, OrderedLens DEF SendInv, Ordered
      <3>. QED  BY SMT, <3>1
    <2>4. Whole(wire, len, i) <=> notified[i].status.sent = TRUE
      BY <2>1, <2>3 DEF Taken, Told
    <2>5. notified[i].status.sent \in BOOLEAN
      <3>1. notified[i] \in Notice
        BY <2>2, ElementOfSeq
      <3>. QED  BY <3>1 DEF Notice, Status
    <2>6. \A j \in 1 .. Len(wire) : Byte(wire, j, i, len[i]) <=> wire[j] = <<i, len[i]>>
      <3>1. \A j \in 1 .. Len(wire) : wire[j] \in Nat \X Nat
        BY <2>1, ElementOfSeq DEF Taken
      <3>2. ASSUME NEW j \in 1 .. Len(wire)
            PROVE  (wire[j][1] = i /\ wire[j][2] = len[i]) <=> wire[j] = <<i, len[i]>>
        <4>1. wire[j] \in Nat \X Nat
          BY <3>1
        <4>. QED  BY SMT, <4>1
      <3>. QED  BY <3>2 DEF Byte
    <2>. QED  BY <2>2, <2>4, <2>5, <2>6 DEF Whole
  <1>. QED  BY <1>1, Invariance, PTL

\* A closed connection has notified every buffer it accepted, and left no idle entry in the loop.
THEOREM ClosedConnectionsAreClean == Spec => []ClosedIsClean
  <1>1. SendInv => ClosedIsClean
    <2>. SUFFICES ASSUME SendInv, ~open PROVE Len(notified) = Len(len) /\ idle = <<>>
      BY DEF ClosedIsClean
    <2>1. idlecbs = <<>> /\ queue = <<>> /\ idle = idlecbs
      BY DEF SendInv, ShutInv, Aborting
    <2>2. Len(notified) + Len(idlecbs) + Len(queue) = Len(len) /\ Len(notified) \in Nat
      BY OrderedLens DEF SendInv, Ordered
    <2>3. Len(idlecbs) = 0 /\ Len(queue) = 0
      BY <2>1
    <2>. QED  BY SMT, <2>1, <2>2, <2>3
  <1>. QED  BY <1>1, Invariance, PTL

\* A buffer accepted is notified, waits in the loop to be, or is in the queue, and the idle entries of
\* the loop are the notifications that wait, in their order: pomp_idle_cb never ignores one.
NoneIsLost ==
    /\ Len(notified) + Len(idlecbs) + Len(queue) = Len(len)
    /\ idle = idlecbs

\* No buffer is lost between the queue, the loop and the program, whatever the nesting of the calls.
THEOREM NoBufferIsLost == Spec => []NoneIsLost
  <1>1. SendInv => NoneIsLost
    BY DEF SendInv, Ordered, NoneIsLost
  <1>. QED  BY <1>1, Invariance, PTL

=============================================================================
