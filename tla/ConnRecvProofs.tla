--------------------------- MODULE ConnRecvProofs ---------------------------
(***************************************************************************)
(* Proofs about ConnRecv for any messages of the peer, however the kernel    *)
(* cuts its stream.                                                         *)
(***************************************************************************)
EXTENDS ConnRecv, WellFoundedInduction, TLAPS

\* A leaf that names no prover is for Zenon.
USE Zenon

(***************************************************************************)
(* Induction and recursion, in a form without an operator as a parameter     *)
(***************************************************************************)
\* Induction: a set of naturals with 0 and with the successors of its elements has all of them.
LEMMA Induction ==
  ASSUME NEW P, 0 \in P, \A n \in Nat : n \in P => n + 1 \in P
  PROVE  Nat \subseteq P
  <1>. SUFFICES ASSUME Nat \ P # {} PROVE FALSE
    BY SMT
  <1>. DEFINE R == {ss \in Nat \X Nat : ss[1] < ss[2]}
              S == Nat \ P
  <1>1. OpToRel(<, Nat) = R
    BY SMT DEF OpToRel
  <1>2. IsWellFoundedOn(R, Nat)
    BY <1>1, NatLessThanWellFounded
  <1>3. PICK x \in S : \A y \in S : ~(<<y, x>> \in R)
    <2>1. S \in SUBSET Nat /\ S # {}
      BY SMT
    <2>. HIDE DEF R, S
    <2>. QED  BY <1>2, <2>1, WFMin
  <1>4. x \in Nat /\ x # 0 /\ x \notin P
    BY SMT
  <1>5. x - 1 \in Nat /\ x - 1 < x /\ (x - 1) + 1 = x
    BY SMT, <1>4
  <1>6. <<x - 1, x>> \in R
    <2>1. <<x - 1, x>> \in Nat \X Nat /\ <<x - 1, x>>[1] = x - 1 /\ <<x - 1, x>>[2] = x
      BY SMT, <1>4, <1>5
    <2>. QED  BY SMT, <1>5, <2>1
  <1>7. x - 1 \in P
    BY <1>3, <1>5, <1>6
  <1>. QED  BY <1>4, <1>5, <1>7

\* f is defined on a .. b by its first value and, from a value to the next, by step.
Follows(f, a, b, x0, step) == \A i \in a .. b : f[i] = IF i = a THEN x0 ELSE step[i][f[i - 1]]

\* Recursion: there is such a function.
LEMMA Recursion ==
  ASSUME NEW S, NEW a \in Int, NEW x0 \in S, NEW step \in [Int -> [S -> S]]
  PROVE  \A n \in Nat : \E f \in [a .. a + n -> S] : Follows(f, a, a + n, x0, step)
  <1>. DEFINE P == {n \in Nat : \E f \in [a .. a + n -> S] : Follows(f, a, a + n, x0, step)}
  <1>1. 0 \in P
    <2>. DEFINE f == [i \in a .. a + 0 |-> x0]
    <2>1. f \in [a .. a + 0 -> S] /\ Follows(f, a, a + 0, x0, step)
      BY SMT DEF Follows
    <2>. HIDE DEF f
    <2>. QED  BY <2>1
  <1>2. ASSUME NEW n \in Nat, n \in P PROVE n + 1 \in P
    <2>1. PICK f \in [a .. a + n -> S] : Follows(f, a, a + n, x0, step)
      BY SMT, <1>2
    <2>. DEFINE x == step[a + (n + 1)][f[a + n]]
                g == [i \in a .. a + (n + 1) |-> IF i = a + (n + 1) THEN x ELSE f[i]]
    <2>2. a + n \in a .. a + n /\ x \in S
      BY SMT
    <2>3. \A i \in a .. a + (n + 1) : i = a + (n + 1) \/ i \in a .. a + n
      BY SMT
    <2>. HIDE DEF x
    <2>4. g \in [a .. a + (n + 1) -> S]
      BY SMT, <2>2, <2>3
    <2>5. ASSUME NEW i \in a .. a + (n + 1) PROVE g[i] = IF i = a THEN x0 ELSE step[i][g[i - 1]]
      <3>1. CASE i = a + (n + 1)
        <4>1. i # a /\ i - 1 = a + n /\ i - 1 \in a .. a + (n + 1) /\ i - 1 # a + (n + 1)
          BY SMT, <3>1
        <4>2. g[i] = x /\ g[i - 1] = f[a + n]
          BY SMT, <3>1, <4>1
        <4>. QED  BY SMT, <3>1, <4>1, <4>2 DEF x
      <3>2. CASE i \in a .. a + n
        <4>1. i # a + (n + 1) /\ (i # a => i - 1 \in a .. a + n /\ i - 1 # a + (n + 1) /\ i - 1 \in a .. a + (n + 1))
          BY SMT, <3>2
        <4>2. g[i] = f[i] /\ (i # a => g[i - 1] = f[i - 1])
          BY SMT, <4>1
        <4>3. f[i] = IF i = a THEN x0 ELSE step[i][f[i - 1]]
          BY SMT, <2>1, <3>2 DEF Follows
        <4>. HIDE DEF g
        <4>. QED  BY SMT, <4>2, <4>3
      <3>. QED  BY SMT, <2>3, <3>1, <3>2
    <2>6. Follows(g, a, a + (n + 1), x0, step)
      BY SMT, <2>5 DEF Follows
    <2>. HIDE DEF g
    <2>. QED  BY SMT, <2>4, <2>6
  <1>3. Nat \subseteq P
    <2>. HIDE DEF P
    <2>. QED  BY <1>1, <1>2, Induction
  <1>. QED  BY <1>3

(***************************************************************************)
(* The decoder                                                              *)
(***************************************************************************)
\* The decoder in the loop at first
Start(p, in) == [prot |-> [p EXCEPT !.state = IF @ = IDLE THEN MAGIC_0 ELSE @, !.alloc = FALSE],
                 in |-> in, used |-> 0]

\* What every turn of the loop keeps holds of the decoder at its end.
LEMMA DecodeKeeps ==
  ASSUME NEW p, NEW in \in Seq(Nat), NEW S \in SUBSET Looping, Start(p, in) \in S,
         \A x \in S : LoopTurn[x] \in S
  PROVE  decode_msg(p, in) \in S
  <1>. DEFINE n == Len(in)
              x0 == Start(p, in)
              step == [i \in Int |-> [x \in S |-> LoopTurn[x]]]
              loop == CHOOSE f : f = [i \in 0 .. n |-> IF i = 0 THEN x0 ELSE LoopTurn[f[i - 1]]]
  <1>1. n \in Nat
    BY SMT
  <1>2. decode_msg(p, in) = loop[n]
    BY SMT DEF decode_msg, Start
  <1>. HIDE DEF n, x0
  <1>3. step \in [Int -> [S -> S]]
    OBVIOUS
  <1>. HIDE DEF step
  <1>4. PICK f \in [0 .. n -> S] : Follows(f, 0, n, x0, step)
    <2>1. 0 \in Int /\ 0 + n = n /\ x0 \in S
      BY SMT, <1>1 DEF x0
    <2>2. \A m \in Nat : \E f \in [0 .. 0 + m -> S] : Follows(f, 0, 0 + m, x0, step)
      BY <1>3, <2>1, Recursion
    <2>3. \E f \in [0 .. 0 + n -> S] : Follows(f, 0, 0 + n, x0, step)
      BY <1>1, <2>2
    <2>. QED  BY <2>1, <2>3
  <1>5. \A i \in 0 .. n : f[i] = IF i = 0 THEN x0 ELSE LoopTurn[f[i - 1]]
    <2>. TAKE i \in 0 .. n
    <2>1. CASE i = 0
      BY <1>4, <2>1 DEF Follows
    <2>2. CASE i # 0
      <3>1. i - 1 \in 0 .. n /\ i \in Int
        BY SMT, <1>1, <2>2
      <3>2. f[i - 1] \in S
        BY <1>4, <3>1
      <3>3. step[i][f[i - 1]] = LoopTurn[f[i - 1]]
        BY <3>1, <3>2 DEF step
      <3>. QED  BY <1>4, <2>2, <3>3 DEF Follows
    <2>. QED  BY SMT, <2>1, <2>2
  <1>6. f = [i \in 0 .. n |-> IF i = 0 THEN x0 ELSE LoopTurn[f[i - 1]]]
    BY <1>4, <1>5
  <1>7. loop = [i \in 0 .. n |-> IF i = 0 THEN x0 ELSE LoopTurn[loop[i - 1]]]
    BY <1>6
  <1>. HIDE DEF loop
  <1>8. \A i \in 0 .. n : loop[i] = IF i = 0 THEN x0 ELSE LoopTurn[loop[i - 1]]
    BY <1>7
  <1>. DEFINE P == {k \in Nat : k \in 0 .. n => loop[k] \in S}
  <1>9. 0 \in P
    BY <1>8 DEF x0
  <1>10. ASSUME NEW k \in Nat, k \in P PROVE k + 1 \in P
    <2>. SUFFICES ASSUME k + 1 \in 0 .. n PROVE loop[k + 1] \in S
      BY SMT
    <2>1. k \in 0 .. n /\ k + 1 # 0 /\ (k + 1) - 1 = k
      BY SMT, <1>1
    <2>2. loop[k + 1] = LoopTurn[loop[k]]
      BY <1>8, <2>1
    <2>3. loop[k] \in S
      BY <1>10, <2>1
    <2>. QED  BY <2>2, <2>3
  <1>11. n \in P
    <2>. HIDE DEF P
    <2>. QED  BY <1>1, <1>9, <1>10, Induction
  <1>12. n \in 0 .. n
    BY SMT, <1>1
  <1>. QED  BY <1>2, <1>11, <1>12

\* A decoder and its fields
Fields(q, s, h, z, d, a) ==
    q \in Decoder /\ q.state = s /\ q.headerbuf = h /\ q.size = z /\ q.data = d /\ q.alloc = a

\* Each field is assigned alone.
LEMMA Assigned ==
  ASSUME NEW p \in Decoder
  PROVE  /\ Fields(p, p.state, p.headerbuf, p.size, p.data, p.alloc)
         /\ \A s \in IDLE .. PAYLOAD : Fields([p EXCEPT !.state = s], s, p.headerbuf, p.size, p.data, p.alloc)
         /\ \A h \in Seq(Nat) : Fields([p EXCEPT !.headerbuf = h], p.state, h, p.size, p.data, p.alloc)
         /\ \A z \in Nat : Fields([p EXCEPT !.size = z], p.state, p.headerbuf, z, p.data, p.alloc)
         /\ \A d \in Seq(Nat) : Fields([p EXCEPT !.data = d], p.state, p.headerbuf, p.size, d, p.alloc)
         /\ \A a \in BOOLEAN : Fields([p EXCEPT !.alloc = a], p.state, p.headerbuf, p.size, p.data, a)
  <1>1. Fields(p, p.state, p.headerbuf, p.size, p.data, p.alloc)
    BY SMT DEF Fields
  <1>2. \A s \in IDLE .. PAYLOAD : Fields([p EXCEPT !.state = s], s, p.headerbuf, p.size, p.data, p.alloc)
    BY DEF Fields, Decoder
  <1>3. \A h \in Seq(Nat) : Fields([p EXCEPT !.headerbuf = h], p.state, h, p.size, p.data, p.alloc)
    BY DEF Fields, Decoder
  <1>4. \A z \in Nat : Fields([p EXCEPT !.size = z], p.state, p.headerbuf, z, p.data, p.alloc)
    BY DEF Fields, Decoder
  <1>5. \A d \in Seq(Nat) : Fields([p EXCEPT !.data = d], p.state, p.headerbuf, p.size, d, p.alloc)
    BY DEF Fields, Decoder
  <1>6. \A a \in BOOLEAN : Fields([p EXCEPT !.alloc = a], p.state, p.headerbuf, p.size, p.data, a)
    BY DEF Fields, Decoder
  <1>. QED  BY <1>1, <1>2, <1>3, <1>4, <1>5, <1>6

\* What a bad header, a header, the search for a message and the start of a call assign
LEMMA AssignedTogether ==
  ASSUME NEW p \in Decoder
  PROVE  /\ \A z \in Nat : Fields([p EXCEPT !.size = z, !.state = MAGIC_0], MAGIC_0, p.headerbuf, z, p.data, p.alloc)
         /\ \A z \in Nat : Fields([p EXCEPT !.size = z, !.state = PAYLOAD, !.data = p.headerbuf, !.alloc = TRUE],
                                  PAYLOAD, p.headerbuf, z, p.headerbuf, TRUE)
         /\ Fields([reset_state(p) EXCEPT !.state = MAGIC_0], MAGIC_0, <<>>, 0, <<>>, p.alloc)
         /\ Fields([p EXCEPT !.state = IF @ = IDLE THEN MAGIC_0 ELSE @, !.alloc = FALSE],
                   IF p.state = IDLE THEN MAGIC_0 ELSE p.state, p.headerbuf, p.size, p.data, FALSE)
  <1>0. MAGIC_0 \in IDLE .. PAYLOAD /\ PAYLOAD \in IDLE .. PAYLOAD /\ 0 \in Nat /\ <<>> \in Seq(Nat)
        /\ (IF p.state = IDLE THEN MAGIC_0 ELSE p.state) \in IDLE .. PAYLOAD
    BY SMT DEF Decoder, MAGIC_0, PAYLOAD, IDLE
  <1>1. \A z \in Nat : Fields([p EXCEPT !.size = z, !.state = MAGIC_0], MAGIC_0, p.headerbuf, z, p.data, p.alloc)
    BY <1>0 DEF Fields, Decoder
  <1>2. \A z \in Nat : Fields([p EXCEPT !.size = z, !.state = PAYLOAD, !.data = p.headerbuf, !.alloc = TRUE],
                              PAYLOAD, p.headerbuf, z, p.headerbuf, TRUE)
    BY <1>0 DEF Fields, Decoder
  <1>3. Fields([reset_state(p) EXCEPT !.state = MAGIC_0], MAGIC_0, <<>>, 0, <<>>, p.alloc)
    BY <1>0 DEF Fields, Decoder, reset_state
  <1>4. Fields([p EXCEPT !.state = IF @ = IDLE THEN MAGIC_0 ELSE @, !.alloc = FALSE],
               IF p.state = IDLE THEN MAGIC_0 ELSE p.state, p.headerbuf, p.size, p.data, FALSE)
    BY <1>0 DEF Fields, Decoder
  <1>. QED  BY <1>1, <1>2, <1>3, <1>4

\* The end of a turn: the decoder is idle when the message is complete.
Ended(t) == IF t.prot.state = PAYLOAD /\ Len(t.prot.data) = t.prot.size THEN [t EXCEPT !.prot.state = IDLE] ELSE t

LEMMA EndedIs ==
  ASSUME NEW q, NEW n
  PROVE  /\ q.state = PAYLOAD /\ Len(q.data) = q.size
            => Ended([prot |-> q, used |-> n]) = [prot |-> [q EXCEPT !.state = IDLE], used |-> n]
         /\ ~(q.state = PAYLOAD /\ Len(q.data) = q.size)
            => Ended([prot |-> q, used |-> n]) = [prot |-> q, used |-> n]
  BY DEF Ended


\* How far the decoder is: what headerbuf and data hold in each state.
Sound(p) ==
    /\ p \in Decoder
    /\ p.state \in MAGIC_0 + 1 .. HEADER - 1 => Len(p.headerbuf) = p.state - MAGIC_0
    /\ p.state = HEADER => Len(p.headerbuf) \in 4 .. 5
    /\ p.state = PAYLOAD => Len(p.data) < p.size

LEMMA ElementIs ==
  ASSUME NEW s \in Seq(Nat), NEW i \in 1 .. Len(s)
  PROVE  s[i] \in Nat
  BY SMT

\* The bytes s with the first n of in
Joined(s, in, n) == s \o SubSeq(in, 1, n)

LEMMA JoinIs ==
  ASSUME NEW s \in Seq(Nat), NEW in \in Seq(Nat), NEW n \in 0 .. Len(in)
  PROVE  Joined(s, in, n) \in Seq(Nat) /\ Len(Joined(s, in, n)) = Len(s) + n
  <1>1. SubSeq(in, 1, n) \in Seq(Nat) /\ Len(SubSeq(in, 1, n)) = n
    BY SMT
  <1>. QED  BY SMT, <1>1 DEF Joined

\* A turn in the state PAYLOAD
PayloadTurned(p, in, t) ==
    \E n \in 1 .. Len(in) :
        /\ n = Smaller(Len(in), p.size - Len(p.data)) /\ t.used = n
        /\ Len(Joined(p.data, in, n)) = Len(p.data) + n
        /\ Fields(t.prot, IF Len(p.data) + n = p.size THEN IDLE ELSE PAYLOAD,
                  p.headerbuf, p.size, Joined(p.data, in, n), p.alloc)

LEMMA PayloadTurn ==
  ASSUME NEW p, Sound(p), p.state = PAYLOAD, NEW in \in Seq(Nat), in # <<>>
  PROVE  PayloadTurned(p, in, Turn(p, in))
  <1>. DEFINE n == Smaller(Len(in), p.size - Len(p.data))
              d == Joined(p.data, in, n)
              q == [p EXCEPT !.data = d]
              r == [q EXCEPT !.state = IDLE]
  <1>0. p \in Decoder
    BY SMT DEF Sound
  <1>1. Len(in) \in Nat \ {0} /\ Len(p.data) \in Nat /\ p.size \in Nat /\ Len(p.data) < p.size /\ p.data \in Seq(Nat)
    BY SMT, <1>0 DEF Sound, Decoder
  <1>2. n \in 1 .. Len(in)
    BY SMT, <1>1 DEF Smaller
  <1>3. copy_payload(p, in) = [prot |-> q, used |-> n]
    BY DEF copy_payload, Joined
  <1>4. Turn(p, in) = Ended([prot |-> q, used |-> n])
    BY <1>3 DEF Turn, Ended
  <1>5. n = Smaller(Len(in), p.size - Len(p.data))
    BY SMT
  <1>. HIDE DEF n
  <1>6. d \in Seq(Nat) /\ Len(d) = Len(p.data) + n
    <2>1. n \in 0 .. Len(in)
      BY SMT, <1>1, <1>2
    <2>. QED  BY <1>1, <2>1, JoinIs
  <1>7. Fields(q, PAYLOAD, p.headerbuf, p.size, d, p.alloc)
    BY <1>0, <1>6, Assigned
  <1>8. IDLE \in IDLE .. PAYLOAD
    BY SMT DEF IDLE, PAYLOAD
  <1>9. Fields(r, IDLE, p.headerbuf, p.size, d, p.alloc)
    <2>1. q \in Decoder /\ q.headerbuf = p.headerbuf /\ q.size = p.size /\ q.data = d /\ q.alloc = p.alloc
      BY <1>7 DEF Fields
    <2>2. Fields(r, IDLE, q.headerbuf, q.size, q.data, q.alloc)
      BY <1>8, <2>1, Assigned
    <2>. QED  BY <2>1, <2>2
  <1>10. q.state = PAYLOAD /\ q.data = d /\ q.size = p.size
    BY <1>7 DEF Fields
  <1>. HIDE DEF q
  <1>11. CASE Len(p.data) + n = p.size
    <2>1. Turn(p, in) = [prot |-> r, used |-> n]
      BY <1>4, <1>6, <1>10, <1>11, EndedIs
    <2>. HIDE DEF r, d
    <2>2. Turn(p, in).prot = r /\ Turn(p, in).used = n
      BY SMT, <2>1
    <2>. QED  BY <1>2, <1>5, <1>6, <1>9, <1>11, <2>2 DEF PayloadTurned, d
  <1>12. CASE Len(p.data) + n # p.size
    <2>1. Turn(p, in) = [prot |-> q, used |-> n]
      BY <1>4, <1>6, <1>10, <1>12, EndedIs
    <2>2. Turn(p, in).prot = q /\ Turn(p, in).used = n
      BY SMT, <2>1
    <2>. QED  BY <1>2, <1>5, <1>6, <1>7, <1>12, <2>2 DEF PayloadTurned
  <1>. QED  BY SMT, <1>11, <1>12


\* A turn in the state HEADER: h is the header as far as it is known.
HeaderTurned(p, in, t) ==
    \E n \in 1 .. Len(in) :
        /\ n = Smaller(Len(in), 6 - Len(p.headerbuf)) /\ t.used = n
        /\ LET h == Joined(p.headerbuf, in, n)
           IN  /\ Len(h) = Len(p.headerbuf) + n /\ Len(h) <= 6
               /\ Len(h) # 6 => Fields(t.prot, HEADER, h, p.size, p.data, p.alloc)
               /\ Len(h) = 6 /\ h[6] < 6 => Fields(t.prot, MAGIC_0, h, h[6], p.data, p.alloc)
               /\ Len(h) = 6 /\ h[6] >= 6
                  => Fields(t.prot, IF h[6] = 6 THEN IDLE ELSE PAYLOAD, h, h[6], h, TRUE)

LEMMA HeaderTurn ==
  ASSUME NEW p, Sound(p), p.state = HEADER, NEW in \in Seq(Nat), in # <<>>
  PROVE  HeaderTurned(p, in, Turn(p, in))
  <1>. DEFINE n == Smaller(Len(in), HeaderSize - Len(p.headerbuf))
              h == Joined(p.headerbuf, in, n)
              q == [p EXCEPT !.headerbuf = h]
              bad == [q EXCEPT !.size = h[6], !.state = MAGIC_0]
              good == [q EXCEPT !.size = h[6], !.state = PAYLOAD, !.data = q.headerbuf, !.alloc = TRUE]
              full == [good EXCEPT !.state = IDLE]
              t == Turn(p, in)
  <1>0. p \in Decoder
    BY SMT DEF Sound
  <1>1. Len(in) \in Nat \ {0} /\ Len(p.headerbuf) \in 4 .. 5 /\ p.headerbuf \in Seq(Nat)
    BY SMT, <1>0 DEF Sound, Decoder
  <1>2. HeaderSize = 6 /\ HEADER # PAYLOAD /\ MAGIC_0 # PAYLOAD /\ IDLE \in IDLE .. PAYLOAD
    BY SMT DEF HeaderSize, Magic, HEADER, PAYLOAD, MAGIC_0, IDLE
  <1>3. n \in 1 .. Len(in) /\ Len(p.headerbuf) + n <= 6 /\ n = Smaller(Len(in), 6 - Len(p.headerbuf))
    <2>. HIDE DEF h, q, bad, good, full, t
    <2>. DEFINE l == Len(p.headerbuf)
                k == Len(in)
    <2>1. l \in 4 .. 5 /\ k \in Nat \ {0}
      BY <1>1
    <2>2. n = Smaller(k, 6 - l)
      BY <1>2
    <2>. HIDE DEF n, l, k
    <2>3. n \in 1 .. k /\ l + n <= 6
      BY SMT, <2>1, <2>2 DEF Smaller
    <2>. QED  BY <2>2, <2>3 DEF l, k
  <1>4. copy_header(p, in) = [prot |-> q, used |-> n]
    BY DEF copy_header, Joined
  <1>. HIDE DEF n
  <1>5. h \in Seq(Nat) /\ Len(h) = Len(p.headerbuf) + n
    <2>1. n \in 0 .. Len(in)
      BY SMT, <1>1, <1>3
    <2>. QED  BY <1>1, <2>1, JoinIs
  <1>6. Fields(q, HEADER, h, p.size, p.data, p.alloc)
    BY <1>0, <1>5, Assigned
  <1>7. q \in Decoder /\ q.state = HEADER /\ q.headerbuf = h /\ q.size = p.size /\ q.data = p.data /\ q.alloc = p.alloc
    BY <1>6 DEF Fields
  <1>8. Turn(p, in) = Ended(ReadHeader(p, in))
    BY <1>2 DEF Turn, Ended
  <1>9. SUFFICES /\ t.used = n
                 /\ Len(h) # 6 => Fields(t.prot, HEADER, h, p.size, p.data, p.alloc)
                 /\ Len(h) = 6 /\ h[6] < 6 => Fields(t.prot, MAGIC_0, h, h[6], p.data, p.alloc)
                 /\ Len(h) = 6 /\ h[6] >= 6 => Fields(t.prot, IF h[6] = 6 THEN IDLE ELSE PAYLOAD, h, h[6], h, TRUE)
    <2>1. Len(h) <= 6
      BY SMT, <1>3, <1>5
    <2>. HIDE DEF t, q
    <2>. QED  BY <1>3, <1>5, <2>1 DEF HeaderTurned, t
  <1>. HIDE DEF q, h
  <1>10. CASE Len(h) # 6
    <2>1. ReadHeader(p, in) = [prot |-> q, used |-> n]
      BY SMT, <1>2, <1>4, <1>7, <1>10 DEF ReadHeader
    <2>2. t = [prot |-> q, used |-> n]
      BY <1>2, <1>7, <1>8, <2>1, EndedIs
    <2>. HIDE DEF t
    <2>3. t.prot = q /\ t.used = n
      BY SMT, <2>2
    <2>. QED  BY <1>6, <1>10, <2>3
  <1>11. CASE Len(h) = 6
    <2>0. h[6] \in Nat
      <3>1. 6 \in 1 .. Len(h)
        BY SMT, <1>11
      <3>. QED  BY SMT, <1>5, <3>1
    <2>1. ReadHeader(p, in) = [prot |-> decode_header(q), used |-> n]
      BY SMT, <1>2, <1>4, <1>7, <1>11 DEF ReadHeader
    <2>2. decode_header(q) = IF h[6] < 6 THEN bad ELSE good
      BY <1>2, <1>7 DEF decode_header
    <2>3. Fields(bad, MAGIC_0, h, h[6], p.data, p.alloc)
      BY <1>7, <2>0, AssignedTogether
    <2>4. Fields(good, PAYLOAD, h, h[6], h, TRUE)
      BY <1>7, <2>0, AssignedTogether
    <2>5. bad.state = MAGIC_0 /\ good \in Decoder /\ good.state = PAYLOAD /\ good.headerbuf = h
          /\ good.size = h[6] /\ good.data = h /\ good.alloc = TRUE
      BY <2>3, <2>4 DEF Fields
    <2>. HIDE DEF bad, good
    <2>6. Fields(full, IDLE, h, h[6], h, TRUE)
      <3>1. Fields(full, IDLE, good.headerbuf, good.size, good.data, good.alloc)
        BY <1>2, <2>5, Assigned
      <3>. QED  BY <2>5, <3>1
    <2>7. CASE h[6] < 6
      <3>1. t = [prot |-> bad, used |-> n]
        BY <1>2, <1>8, <2>1, <2>2, <2>5, <2>7, EndedIs
      <3>. HIDE DEF t
      <3>2. t.prot = bad /\ t.used = n
        BY SMT, <3>1
      <3>3. ~(h[6] >= 6)
        BY SMT, <2>0, <2>7
      <3>. QED  BY <1>11, <2>3, <3>2, <3>3
    <2>8. CASE h[6] = 6
      <3>0. ~(h[6] < 6)
        BY SMT, <2>8
      <3>1. t = [prot |-> full, used |-> n]
        BY <1>8, <1>11, <2>1, <2>2, <2>5, <2>8, <3>0, EndedIs
      <3>. HIDE DEF t, full
      <3>2. t.prot = full /\ t.used = n
        BY SMT, <3>1
      <3>. QED  BY <1>11, <2>6, <2>8, <3>0, <3>2
    <2>9. CASE h[6] > 6
      <3>0. ~(h[6] < 6) /\ h[6] # 6
        BY SMT, <2>0, <2>9
      <3>1. t = [prot |-> good, used |-> n]
        <4>1. t = Ended([prot |-> good, used |-> n])
          BY <1>8, <2>1, <2>2, <3>0
        <4>2. ~(good.state = PAYLOAD /\ Len(good.data) = good.size)
          BY <1>11, <2>5, <3>0
        <4>. QED  BY <4>1, <4>2, EndedIs
      <3>. HIDE DEF t
      <3>2. t.prot = good /\ t.used = n
        BY SMT, <3>1
      <3>. QED  BY <1>11, <2>4, <3>0, <3>2
    <2>10. h[6] < 6 \/ h[6] = 6 \/ h[6] > 6
      <3>. HIDE DEF t, full
      <3>. QED  BY SMT, <2>0
    <2>. QED  BY <2>7, <2>8, <2>9, <2>10
  <1>. QED  BY <1>10, <1>11


\* A turn in a state HEADER_MAGIC_i
MagicTurned(p, in, t) ==
    /\ t.used = 1
    /\ \E h \in Seq(Nat), z \in Nat, d \in Seq(Nat) :
          /\ h = Append(IF p.state = MAGIC_0 THEN <<>> ELSE p.headerbuf, in[1]) /\ Len(h) = p.state
          /\ Fields(t.prot, IF in[1] # Magic[p.state] THEN MAGIC_0 ELSE p.state + 1, h, z, d, p.alloc)

LEMMA MagicTurn ==
  ASSUME NEW p, Sound(p), p.state \in MAGIC_0 .. HEADER - 1, NEW in \in Seq(Nat), in # <<>>
  PROVE  MagicTurned(p, in, Turn(p, in))
  <1>. DEFINE q == IF p.state = MAGIC_0 THEN [reset_state(p) EXCEPT !.state = MAGIC_0] ELSE p
              h == Append(q.headerbuf, in[1])
              r == [q EXCEPT !.headerbuf = h]
              s == IF in[1] # Magic[p.state] THEN MAGIC_0 ELSE p.state + 1
              v == [r EXCEPT !.state = s]
              t == Turn(p, in)
  <1>0. p \in Decoder
    BY SMT DEF Sound
  <1>1. p.state \in 1 .. 4 /\ MAGIC_0 = 1 /\ p.state - MAGIC_0 + 1 = p.state /\ MAGIC_0 + (p.state - MAGIC_0) + 1 = p.state + 1
        /\ p.state # HEADER /\ p.state # PAYLOAD
    BY SMT DEF MAGIC_0, HEADER, PAYLOAD
  <1>2. in[1] \in Nat
    <2>1. Len(in) \in Nat /\ Len(in) # 0
      BY SMT
    <2>2. 1 \in 1 .. Len(in)
      BY SMT, <2>1
    <2>. QED  BY SMT, <2>2
  <1>3. q \in Decoder /\ q.alloc = p.alloc /\ q.headerbuf = IF p.state = MAGIC_0 THEN <<>> ELSE p.headerbuf
    <2>1. CASE p.state = MAGIC_0
      <3>1. Fields(q, MAGIC_0, <<>>, 0, <<>>, p.alloc)
        BY <1>0, <2>1, AssignedTogether
      <3>. HIDE DEF q
      <3>. QED  BY <2>1, <3>1 DEF Fields
    <2>2. CASE p.state # MAGIC_0
      BY <1>0, <2>2
    <2>. QED  BY <2>1, <2>2
  <1>4. Len(q.headerbuf) = p.state - 1
    <2>. HIDE DEF q
    <2>1. CASE p.state = MAGIC_0
      BY SMT, <1>1, <1>3, <2>1
    <2>2. CASE p.state # MAGIC_0
      <3>1. p.state \in MAGIC_0 + 1 .. HEADER - 1
        BY SMT, <2>2 DEF MAGIC_0, HEADER
      <3>2. Len(p.headerbuf) = p.state - MAGIC_0
        BY <3>1 DEF Sound
      <3>. QED  BY SMT, <1>1, <1>3, <2>2, <3>2
    <2>. QED  BY SMT, <2>1, <2>2
  <1>. HIDE DEF q
  <1>5. q.headerbuf \in Seq(Nat) /\ q.size \in Nat /\ q.data \in Seq(Nat)
    BY SMT, <1>3 DEF Decoder
  <1>6. h \in Seq(Nat) /\ Len(h) = p.state /\ h[p.state] = in[1]
    <2>. DEFINE b == q.headerbuf
    <2>1. b \in Seq(Nat) /\ Len(b) = p.state - 1
      BY <1>4, <1>5
    <2>. HIDE DEF b
    <2>2. Append(b, in[1]) \in Seq(Nat) /\ Len(Append(b, in[1])) = Len(b) + 1 /\ Append(b, in[1])[Len(b) + 1] = in[1]
      BY SMT, <1>2, <2>1
    <2>3. Len(b) + 1 = p.state
      BY SMT, <1>1, <2>1
    <2>. QED  BY <2>2, <2>3 DEF b
  <1>7. s \in IDLE .. PAYLOAD /\ s # PAYLOAD
    BY SMT, <1>1 DEF IDLE, PAYLOAD
  <1>. HIDE DEF h
  <1>8. Fields(r, q.state, h, q.size, q.data, q.alloc)
    BY <1>3, <1>6, Assigned
  <1>9. r \in Decoder /\ r.headerbuf = h /\ r.size = q.size /\ r.data = q.data /\ r.alloc = q.alloc
    BY <1>8 DEF Fields
  <1>10. ReadMagic(p, in) = [prot |-> v, used |-> 1]
    <2>1. ReadMagic(p, in) = [prot |-> check_magic(r, p.state - MAGIC_0), used |-> 1]
      BY DEF ReadMagic, q, h
    <2>. HIDE DEF r
    <2>2. check_magic(r, p.state - MAGIC_0) = v
      BY <1>1, <1>6, <1>9 DEF check_magic
    <2>. QED  BY <2>1, <2>2
  <1>. HIDE DEF r, s
  <1>11. Fields(v, s, h, q.size, q.data, p.alloc)
    <2>1. Fields(v, s, r.headerbuf, r.size, r.data, r.alloc)
      BY <1>7, <1>9, Assigned
    <2>. QED  BY <1>3, <1>9, <2>1
  <1>12. v.state # PAYLOAD
    BY <1>7, <1>11 DEF Fields
  <1>. HIDE DEF v
  <1>13. t = [prot |-> v, used |-> 1]
    <2>1. t = Ended(ReadMagic(p, in))
      BY <1>1 DEF Turn, Ended
    <2>. QED  BY <1>10, <1>12, <2>1, EndedIs
  <1>. HIDE DEF t
  <1>14. t.prot = v /\ t.used = 1
    BY SMT, <1>13
  <1>15. h = Append(IF p.state = MAGIC_0 THEN <<>> ELSE p.headerbuf, in[1])
    BY <1>3 DEF h
  <1>. QED  BY <1>5, <1>6, <1>11, <1>14, <1>15 DEF MagicTurned, s, t


\* What a turn does to the flag that tells that a header was decoded
Flagged(p, q) ==
    /\ p.state = PAYLOAD => q.alloc = p.alloc /\ q.state \in {PAYLOAD, IDLE}
    /\ p.state # PAYLOAD => (q.alloc <=> p.alloc \/ q.state \in {PAYLOAD, IDLE})

LEMMA TurnKeeps ==
  ASSUME NEW p, Sound(p), p.state # IDLE, NEW in \in Seq(Nat), in # <<>>
  PROVE  LET t == Turn(p, in) IN Sound(t.prot) /\ t.used \in 1 .. Len(in) /\ Flagged(p, t.prot)
  <1>. DEFINE t == Turn(p, in)
  <1>0. p.state \in 0 .. 6 /\ p.alloc \in BOOLEAN /\ Len(in) \in Nat /\ Len(in) >= 1
        /\ p.size \in Nat /\ Len(p.data) \in Nat
    BY SMT DEF Sound, Decoder, IDLE, PAYLOAD
  <1>1. CASE p.state = PAYLOAD
    <2>1. PayloadTurned(p, in, t)
      BY <1>1, PayloadTurn
    <2>. HIDE DEF t
    <2>2. PICK n \in 1 .. Len(in) :
            /\ n = Smaller(Len(in), p.size - Len(p.data)) /\ t.used = n
            /\ Len(Joined(p.data, in, n)) = Len(p.data) + n
            /\ Fields(t.prot, IF Len(p.data) + n = p.size THEN IDLE ELSE PAYLOAD,
                      p.headerbuf, p.size, Joined(p.data, in, n), p.alloc)
      BY <2>1 DEF PayloadTurned
    <2>3. t.prot \in Decoder /\ t.prot.state = (IF Len(p.data) + n = p.size THEN IDLE ELSE PAYLOAD)
          /\ t.prot.size = p.size /\ Len(t.prot.data) = Len(p.data) + n /\ t.prot.alloc = p.alloc /\ t.used = n
      BY <2>2 DEF Fields
    <2>4. Len(p.data) < p.size
      BY <1>1 DEF Sound
    <2>5. n <= p.size - Len(p.data)
      <3>. DEFINE a == Len(in)
                  b == p.size - Len(p.data)
      <3>1. a \in Nat /\ b \in Nat /\ n = Smaller(a, b)
        <4>1. b \in Nat
          BY SMT, <1>0, <2>4
        <4>. QED  BY <1>0, <2>2, <4>1
      <3>. HIDE DEF a, b
      <3>2. n <= b
        BY SMT, <3>1 DEF Smaller
      <3>. QED  BY <3>2 DEF b
    <2>6. Sound(t.prot)
      BY SMT, <1>0, <2>3, <2>5 DEF Sound, IDLE, PAYLOAD, HEADER, MAGIC_0
    <2>7. Flagged(p, t.prot)
      BY SMT, <1>1, <2>3 DEF Flagged
    <2>. QED  BY <2>2, <2>6, <2>7 DEF t
  <1>2. CASE p.state = HEADER
    <2>1. HeaderTurned(p, in, t)
      BY <1>2, HeaderTurn
    <2>. HIDE DEF t
    <2>2. PICK n \in 1 .. Len(in) :
            /\ n = Smaller(Len(in), 6 - Len(p.headerbuf)) /\ t.used = n
            /\ LET h == Joined(p.headerbuf, in, n)
               IN  /\ Len(h) = Len(p.headerbuf) + n /\ Len(h) <= 6
                   /\ Len(h) # 6 => Fields(t.prot, HEADER, h, p.size, p.data, p.alloc)
                   /\ Len(h) = 6 /\ h[6] < 6 => Fields(t.prot, MAGIC_0, h, h[6], p.data, p.alloc)
                   /\ Len(h) = 6 /\ h[6] >= 6
                      => Fields(t.prot, IF h[6] = 6 THEN IDLE ELSE PAYLOAD, h, h[6], h, TRUE)
      BY <2>1 DEF HeaderTurned
    <2>. DEFINE h == Joined(p.headerbuf, in, n)
    <2>3. Len(p.headerbuf) \in 4 .. 5 /\ p.headerbuf \in Seq(Nat)
      BY SMT, <1>2 DEF Sound, Decoder
    <2>4. h \in Seq(Nat)
      <3>1. n \in 0 .. Len(in)
        BY SMT, <1>0
      <3>. QED  BY <2>3, <3>1, JoinIs
    <2>5. Len(h) = Len(p.headerbuf) + n
      BY <2>2
    <2>6. Len(h) \in 5 .. 6
      <3>. DEFINE k == Len(h)
                  l == Len(p.headerbuf)
      <3>1. k <= 6 /\ k = l + n /\ l \in 4 .. 5 /\ n \in Nat /\ n >= 1
        <4>1. n \in Nat /\ n >= 1
          BY SMT, <1>0
        <4>. QED  BY <2>2, <2>3, <2>5, <4>1
      <3>. HIDE DEF k, l
      <3>2. k \in 5 .. 6
        BY SMT, <3>1
      <3>. QED  BY <3>2 DEF k
    <2>7. CASE Len(h) # 6
      <3>1. Fields(t.prot, HEADER, h, p.size, p.data, p.alloc)
        BY <2>2, <2>7
      <3>. HIDE DEF h
      <3>2. t.prot \in Decoder /\ t.prot.state = HEADER /\ t.prot.headerbuf = h /\ t.prot.alloc = p.alloc
        BY <3>1 DEF Fields
      <3>3. Sound(t.prot)
        BY SMT, <2>6, <2>7, <3>2 DEF Sound, PAYLOAD, HEADER, MAGIC_0
      <3>4. Flagged(p, t.prot)
        BY SMT, <1>2, <3>2 DEF Flagged, PAYLOAD, HEADER, IDLE
      <3>. QED  BY <2>2, <3>3, <3>4 DEF t
    <2>8. CASE Len(h) = 6 /\ h[6] < 6
      <3>1. Fields(t.prot, MAGIC_0, h, h[6], p.data, p.alloc)
        BY <2>2, <2>8
      <3>. HIDE DEF h
      <3>2. t.prot \in Decoder /\ t.prot.state = MAGIC_0 /\ t.prot.alloc = p.alloc
        BY <3>1 DEF Fields
      <3>3. Sound(t.prot)
        BY SMT, <3>2 DEF Sound, PAYLOAD, HEADER, MAGIC_0
      <3>4. Flagged(p, t.prot)
        BY SMT, <1>2, <3>2 DEF Flagged, PAYLOAD, HEADER, IDLE, MAGIC_0
      <3>. QED  BY <2>2, <3>3, <3>4 DEF t
    <2>9. CASE Len(h) = 6 /\ h[6] >= 6
      <3>1. Fields(t.prot, IF h[6] = 6 THEN IDLE ELSE PAYLOAD, h, h[6], h, TRUE)
        BY <2>2, <2>9
      <3>. HIDE DEF h
      <3>0. h[6] \in Nat
        <4>1. 6 \in 1 .. Len(h)
          BY SMT, <2>9
        <4>. QED  BY <2>4, <4>1, ElementIs
      <3>2. t.prot \in Decoder /\ t.prot.state = (IF h[6] = 6 THEN IDLE ELSE PAYLOAD) /\ t.prot.size = h[6]
            /\ t.prot.data = h /\ t.prot.alloc = TRUE
        BY <3>1 DEF Fields
      <3>3. Sound(t.prot)
        <4>. DEFINE q == t.prot
                    z == h[6]
        <4>1. q \in Decoder /\ q.state = (IF z = 6 THEN IDLE ELSE PAYLOAD) /\ q.size = z /\ Len(q.data) = 6
              /\ z \in Nat /\ z >= 6
          BY <2>9, <3>0, <3>2
        <4>. HIDE DEF q, z
        <4>2. Sound(q)
          BY SMT, <4>1 DEF Sound, PAYLOAD, HEADER, MAGIC_0, IDLE
        <4>. QED  BY <4>2 DEF q
      <3>4. Flagged(p, t.prot)
        BY SMT, <1>2, <3>2 DEF Flagged, PAYLOAD, HEADER, IDLE
      <3>. QED  BY <2>2, <3>3, <3>4 DEF t
    <2>10. h[6] < 6 \/ h[6] >= 6 \/ Len(h) # 6
      <3>. HIDE DEF h
      <3>1. Len(h) = 6 => h[6] \in Nat
        <4>1. Len(h) = 6 => 6 \in 1 .. Len(h)
          BY SMT
        <4>. QED  BY <2>4, <4>1, ElementIs
      <3>. QED  BY SMT, <3>1
    <2>. QED  BY <2>7, <2>8, <2>9, <2>10
  <1>3. CASE p.state \in MAGIC_0 .. HEADER - 1
    <2>1. MagicTurned(p, in, t)
      BY <1>3, MagicTurn
    <2>. HIDE DEF t
    <2>2. PICK h \in Seq(Nat), z \in Nat, d \in Seq(Nat) :
            /\ Len(h) = p.state
            /\ Fields(t.prot, IF in[1] # Magic[p.state] THEN MAGIC_0 ELSE p.state + 1, h, z, d, p.alloc)
      BY <2>1 DEF MagicTurned
    <2>3. t.used = 1
      BY <2>1 DEF MagicTurned
    <2>4. t.prot \in Decoder /\ t.prot.state \in {MAGIC_0, p.state + 1} /\ t.prot.headerbuf = h /\ t.prot.alloc = p.alloc
      BY <2>2 DEF Fields
    <2>5. Len(t.prot.headerbuf) = p.state
      BY <2>2, <2>4
    <2>6. Sound(t.prot)
      <3>. DEFINE q == t.prot
                  k == p.state
      <3>1. q \in Decoder /\ q.state \in {1, k + 1} /\ Len(q.headerbuf) = k /\ k \in 1 .. 4
        BY SMT, <1>3, <2>4, <2>5 DEF MAGIC_0, HEADER
      <3>. HIDE DEF q, k
      <3>2. Sound(q)
        BY SMT, <3>1 DEF Sound, PAYLOAD, HEADER, MAGIC_0
      <3>. QED  BY <3>2 DEF q
    <2>7. Flagged(p, t.prot)
      BY SMT, <1>3, <2>4 DEF Flagged, PAYLOAD, HEADER, IDLE, MAGIC_0
    <2>8. t.used \in 1 .. Len(in)
      BY SMT, <1>0, <2>3
    <2>. QED  BY <2>6, <2>7, <2>8 DEF t
  <1>4. p.state = PAYLOAD \/ p.state = HEADER \/ p.state \in MAGIC_0 .. HEADER - 1
    BY SMT, <1>0 DEF PAYLOAD, HEADER, IDLE, MAGIC_0
  <1>. QED  BY <1>1, <1>2, <1>3, <1>4


LEMMA LoopTurnIs ==
  ASSUME NEW x \in Looping
  PROVE  /\ x.in = <<>> \/ x.prot.state = IDLE => LoopTurn[x] = x
         /\ ~(x.in = <<>> \/ x.prot.state = IDLE)
            => LoopTurn[x] = [prot |-> Turn(x.prot, x.in).prot, in |-> DropFirst(x.in, Turn(x.prot, x.in).used),
                              used |-> x.used + Turn(x.prot, x.in).used]
  BY DEF LoopTurn

\* The rest of the input after n bytes
LEMMA RestIs ==
  ASSUME NEW T, NEW s \in Seq(T), NEW n \in 0 .. Len(s)
  PROVE  DropFirst(s, n) \in Seq(T) /\ Len(DropFirst(s, n)) = Len(s) - n
         /\ \A i \in 1 .. Len(s) - n : DropFirst(s, n)[i] = s[i + n]
  BY SMT DEF DropFirst

\* The decoder in the call of pomp_prot_decode_msg that began with the decoder p and N bytes
Going(p, N, x) ==
    /\ x \in Looping /\ Sound(x.prot) /\ x.used + Len(x.in) = N
    /\ p.state = PAYLOAD => ~x.prot.alloc /\ x.prot.state \in {PAYLOAD, IDLE}
    /\ p.state # PAYLOAD => (x.prot.alloc <=> x.prot.state \in {PAYLOAD, IDLE})

LEMMA TurnGoing ==
  ASSUME NEW p, NEW N \in Nat, NEW x, Going(p, N, x)
  PROVE  Going(p, N, LoopTurn[x])
  <1>. DEFINE t == Turn(x.prot, x.in)
              y == LoopTurn[x]
              rest == DropFirst(x.in, t.used)
  <1>0. x \in Looping /\ x.prot \in Decoder /\ x.in \in Seq(Nat) /\ x.used \in Nat /\ Sound(x.prot)
    BY SMT DEF Going, Looping
  <1>1. CASE x.in = <<>> \/ x.prot.state = IDLE
    BY <1>0, <1>1, LoopTurnIs
  <1>2. CASE ~(x.in = <<>> \/ x.prot.state = IDLE)
    <2>1. Sound(t.prot) /\ t.used \in 1 .. Len(x.in) /\ Flagged(x.prot, t.prot)
      BY <1>0, <1>2, TurnKeeps
    <2>2. y = [prot |-> t.prot, in |-> rest, used |-> x.used + t.used]
      BY <1>0, <1>2, LoopTurnIs
    <2>. HIDE DEF t, y
    <2>3. rest \in Seq(Nat) /\ Len(rest) = Len(x.in) - t.used
      <3>1. t.used \in 0 .. Len(x.in)
        BY SMT, <2>1
      <3>. QED  BY <1>0, <3>1, RestIs
    <2>. HIDE DEF rest
    <2>4. y.prot = t.prot /\ y.in = rest /\ y.used = x.used + t.used
      BY SMT, <2>2
    <2>5. t.prot \in Decoder /\ x.used + t.used \in Nat
      BY SMT, <1>0, <2>1 DEF Sound
    <2>6. y \in Looping
      BY <2>2, <2>3, <2>5 DEF Looping
    <2>7. y.used + Len(y.in) = N
      <3>. DEFINE k == Len(x.in)
                  u == t.used
      <3>1. k \in Nat /\ u \in 1 .. k /\ x.used + k = N
        BY SMT, <1>0, <2>1 DEF Going
      <3>. HIDE DEF k, u
      <3>2. (x.used + u) + (k - u) = N
        BY SMT, <1>0, <3>1
      <3>. QED  BY <2>3, <2>4, <3>2 DEF k, u
    <2>8. CASE p.state = PAYLOAD
      <3>1. ~x.prot.alloc /\ x.prot.state \in {PAYLOAD, IDLE}
        BY <2>8 DEF Going
      <3>2. x.prot.state = PAYLOAD
        BY <1>2, <3>1
      <3>. QED  BY <2>1, <2>4, <2>6, <2>7, <2>8, <3>1, <3>2 DEF Going, Flagged, y
    <2>9. CASE p.state # PAYLOAD
      <3>1. x.prot.alloc <=> x.prot.state \in {PAYLOAD, IDLE}
        BY <2>9 DEF Going
      <3>2. x.prot.alloc <=> x.prot.state = PAYLOAD
        BY <1>2, <3>1
      <3>3. t.prot.alloc <=> t.prot.state \in {PAYLOAD, IDLE}
        BY <2>1, <3>2 DEF Flagged
      <3>. QED  BY <2>1, <2>4, <2>6, <2>7, <2>9, <3>3 DEF Going, y
    <2>. QED  BY <2>8, <2>9
  <1>. QED  BY <1>1, <1>2

LEMMA DecodeIs ==
  ASSUME NEW p, Sound(p), NEW in \in Seq(Nat)
  PROVE  Going(p, Len(in), decode_msg(p, in))
  <1>. DEFINE N == Len(in)
              S == {x \in Looping : Going(p, N, x)}
              q == [p EXCEPT !.state = IF @ = IDLE THEN MAGIC_0 ELSE @, !.alloc = FALSE]
              x0 == Start(p, in)
  <1>1. Fields(q, IF p.state = IDLE THEN MAGIC_0 ELSE p.state, p.headerbuf, p.size, p.data, FALSE)
    BY AssignedTogether DEF Sound
  <1>2. x0 = [prot |-> q, in |-> in, used |-> 0]
    BY DEF Start
  <1>. HIDE DEF q, x0
  <1>3. x0.prot = q /\ x0.in = in /\ x0.used = 0
    BY SMT, <1>2
  <1>4. q \in Decoder /\ q.state = (IF p.state = IDLE THEN MAGIC_0 ELSE p.state) /\ q.headerbuf = p.headerbuf
        /\ q.size = p.size /\ q.data = p.data /\ q.alloc = FALSE
    BY <1>1 DEF Fields
  <1>5. Sound(q)
    <2>1. CASE p.state = IDLE
      BY SMT, <1>4, <2>1 DEF Sound, IDLE, MAGIC_0, HEADER, PAYLOAD
    <2>2. CASE p.state # IDLE
      BY <1>4, <2>2 DEF Sound
    <2>. QED  BY <2>1, <2>2
  <1>6. x0 \in Looping
    <2>1. 0 \in Nat
      BY SMT
    <2>. QED  BY <1>2, <1>4, <2>1 DEF Looping
  <1>7. N \in Nat /\ x0.used + Len(x0.in) = N
    BY SMT, <1>3
  <1>8. Going(p, N, x0)
    <2>1. IDLE # PAYLOAD /\ MAGIC_0 # PAYLOAD /\ MAGIC_0 # IDLE
      BY SMT DEF IDLE, PAYLOAD, MAGIC_0
    <2>2. p.state = PAYLOAD => q.state \in {PAYLOAD, IDLE}
      BY <1>4, <2>1
    <2>3. p.state # PAYLOAD => q.state \notin {PAYLOAD, IDLE}
      BY <1>4, <2>1
    <2>. HIDE DEF N
    <2>. QED  BY <1>3, <1>4, <1>5, <1>6, <1>7, <2>2, <2>3 DEF Going
  <1>9. x0 \in S /\ \A x \in S : LoopTurn[x] \in S
    <2>. HIDE DEF N
    <2>1. \A x : Going(p, N, x) => x \in Looping
      BY DEF Going
    <2>. QED  BY <1>7, <1>8, <2>1, TurnGoing
  <1>10. decode_msg(p, in) \in S
    <2>. HIDE DEF S
    <2>1. S \in SUBSET Looping
      BY DEF S
    <2>. QED  BY <1>9, <2>1, DecodeKeeps DEF x0
  <1>. QED  BY <1>10


(***************************************************************************)
(* Tables of descriptors                                                    *)
(***************************************************************************)
\* A sequence of at most MaxFds descriptors, all different
Table(s) ==
    /\ s \in Seq(Fds) /\ Len(s) <= MaxFds
    /\ \A i, j \in 1 .. Len(s) : s[i] = s[j] => i = j

LEMMA MembersAre ==
  ASSUME NEW T, NEW s \in Seq(T)
  PROVE  /\ \A f : f \in Range(s) <=> \E i \in 1 .. Len(s) : f = s[i]
         /\ Range(s) \subseteq T
  <1>1. DOMAIN s = 1 .. Len(s) /\ \A i \in 1 .. Len(s) : s[i] \in T
    BY SMT
  <1>. QED  BY <1>1 DEF Range

LEMMA EmptyTable == Table(<<>>) /\ Range(<<>>) = {}
  <1>1. <<>> \in Seq(Fds) /\ Len(<<>>) = 0
    BY SMT
  <1>2. Table(<<>>)
    BY SMT, <1>1, Bounds DEF Table
  <1>3. ASSUME NEW f \in Range(<<>>) PROVE FALSE
    <2>1. \E i \in 1 .. Len(<<>>) : f = (<<>>)[i]
      <3>. DEFINE e == <<>>
      <3>1. e \in Seq(Fds) /\ f \in Range(e)
        BY <1>1, <1>3
      <3>. HIDE DEF e
      <3>2. \E i \in 1 .. Len(e) : f = e[i]
        BY <3>1, MembersAre
      <3>. QED  BY <3>2 DEF e
    <2>. QED  BY SMT, <1>1, <2>1
  <1>. QED  BY <1>2, <1>3

\* The occurrences of x in s
Counted(s, x) ==
    /\ Occurrences(s, x) \in Nat
    /\ (\A i \in 1 .. Len(s) : s[i] # x) => Occurrences(s, x) = 0
    /\ (\E i \in 1 .. Len(s) : s[i] = x) /\ (\A i, j \in 1 .. Len(s) : s[i] = x /\ s[j] = x => i = j)
       => Occurrences(s, x) = 1

LEMMA OccurrencesAre ==
  ASSUME NEW T, NEW s \in Seq(T), NEW x
  PROVE  Counted(s, x)
  <1>. DEFINE n == Len(s)
              One(i) == IF s[i] = x THEN 1 ELSE 0
              D(h) == [i \in 0 .. n |-> IF i = 0 THEN 0 ELSE h[i - 1] + One(i)]
              step == [i \in Int |-> [k \in Nat |-> k + One(i)]]
              g == CHOOSE h : h = D(h)
  <1>1. n \in Nat /\ 0 + n = n /\ 0 \in Int /\ 0 \in Nat
    BY SMT
  <1>2. \A i \in Int : One(i) \in Nat
    BY SMT
  <1>3. Occurrences(s, x) = g[n]
    BY DEF Occurrences
  <1>. HIDE DEF n, One
  <1>4. step \in [Int -> [Nat -> Nat]]
    BY SMT, <1>2
  <1>. HIDE DEF step
  <1>5. PICK f \in [0 .. n -> Nat] : Follows(f, 0, n, 0, step)
    <2>1. \A m \in Nat : \E f \in [0 .. 0 + m -> Nat] : Follows(f, 0, 0 + m, 0, step)
      BY <1>1, <1>4, Recursion
    <2>2. \E f \in [0 .. 0 + n -> Nat] : Follows(f, 0, 0 + n, 0, step)
      BY <1>1, <2>1
    <2>. QED  BY <1>1, <2>2
  <1>6. \A i \in 0 .. n : f[i] = IF i = 0 THEN 0 ELSE f[i - 1] + One(i)
    <2>. TAKE i \in 0 .. n
    <2>1. CASE i = 0
      BY <1>5, <2>1 DEF Follows
    <2>2. CASE i # 0
      <3>1. i - 1 \in 0 .. n /\ i \in Int
        BY SMT, <1>1, <2>2
      <3>2. f[i - 1] \in Nat
        BY <1>5, <3>1
      <3>3. step[i][f[i - 1]] = f[i - 1] + One(i)
        BY <3>1, <3>2 DEF step
      <3>. QED  BY <1>5, <2>2, <3>3 DEF Follows
    <2>. QED  BY <2>1, <2>2
  <1>7. f = D(f)
    BY <1>5, <1>6
  <1>8. g = D(g)
    <2>. HIDE DEF D
    <2>. QED  BY <1>7
  <1>9. \A i \in 0 .. n : g[i] = IF i = 0 THEN 0 ELSE g[i - 1] + One(i)
    <2>. HIDE DEF g
    <2>. QED  BY <1>8
  <1>. HIDE DEF g, D
  <1>. DEFINE None(k) == \A i \in 1 .. k : s[i] # x
              Single(k) == /\ \E i \in 1 .. k : s[i] = x
                           /\ \A i, j \in 1 .. k : s[i] = x /\ s[j] = x => i = j
              P == {k \in Nat : k <= n => g[k] \in Nat /\ (None(k) => g[k] = 0) /\ (Single(k) => g[k] = 1)}
  <1>10. 0 \in P
    <2>1. g[0] = 0 /\ 1 .. 0 = {}
      BY SMT, <1>1, <1>9
    <2>. QED  BY SMT, <2>1
  <1>11. ASSUME NEW k \in Nat, k \in P PROVE k + 1 \in P
    <2>. SUFFICES ASSUME k + 1 <= n
                  PROVE  g[k + 1] \in Nat /\ (None(k + 1) => g[k + 1] = 0) /\ (Single(k + 1) => g[k + 1] = 1)
      BY SMT, <1>11
    <2>1. k <= n /\ k + 1 \in 0 .. n /\ k + 1 # 0 /\ (k + 1) - 1 = k /\ k + 1 \in Int /\ k + 1 \in 1 .. k + 1
      BY SMT, <1>1
    <2>2. g[k + 1] = g[k] + One(k + 1)
      BY <1>9, <2>1
    <2>3. g[k] \in Nat /\ (None(k) => g[k] = 0) /\ (Single(k) => g[k] = 1)
      BY <1>11, <2>1
    <2>4. One(k + 1) \in Nat /\ (s[k + 1] = x => One(k + 1) = 1) /\ (s[k + 1] # x => One(k + 1) = 0)
      BY SMT, <1>2, <2>1 DEF One
    <2>5. \A i \in 1 .. k + 1 : i = k + 1 \/ i \in 1 .. k
      BY SMT
    <2>6. \A i \in 1 .. k : i \in 1 .. k + 1 /\ i # k + 1
      BY SMT
    <2>7. None(k + 1) => None(k) /\ s[k + 1] # x
      BY <2>1, <2>6
    <2>8. Single(k + 1) => (s[k + 1] = x /\ None(k)) \/ (s[k + 1] # x /\ Single(k))
      BY <2>1, <2>5, <2>6
    <2>. HIDE DEF None, Single
    <2>. QED  BY SMT, <2>2, <2>3, <2>4, <2>7, <2>8
  <1>12. n \in P
    <2>. HIDE DEF P
    <2>1. Nat \subseteq P
      BY <1>10, <1>11, Induction
    <2>. QED  BY <1>1, <2>1
  <1>13. g[n] \in Nat /\ (None(n) => g[n] = 0) /\ (Single(n) => g[n] = 1)
    <2>1. n <= n
      BY SMT, <1>1
    <2>. QED  BY <1>12, <2>1
  <1>. QED  BY <1>3, <1>13 DEF Counted, n

\* How often a descriptor is in a table
LEMMA OccurrencesIs ==
  ASSUME NEW s, Table(s), NEW f
  PROVE  Occurrences(s, f) = IF f \in Range(s) THEN 1 ELSE 0
  <1>1. s \in Seq(Fds) /\ DOMAIN s = 1 .. Len(s)
    BY SMT DEF Table
  <1>2. Counted(s, f)
    BY <1>1, OccurrencesAre
  <1>3. \A i, j \in 1 .. Len(s) : s[i] = f /\ s[j] = f => i = j
    BY DEF Table
  <1>. QED  BY <1>1, <1>2, <1>3, MembersAre DEF Counted

\* A table cut in two
LEMMA TableCut ==
  ASSUME NEW s, Table(s), NEW k \in 0 .. Len(s)
  PROVE  /\ Table(SubSeq(s, 1, k))
         /\ Range(SubSeq(s, 1, k)) \cup Range(DropFirst(s, k)) = Range(s)
         /\ Range(SubSeq(s, 1, k)) \cap Range(DropFirst(s, k)) = {}
  <1>. DEFINE a == SubSeq(s, 1, k)
              b == DropFirst(s, k)
              n == Len(s)
  <1>1. s \in Seq(Fds) /\ n \in Nat /\ n <= MaxFds /\ k \in 0 .. n
    BY SMT DEF Table
  <1>2. a \in Seq(Fds) /\ Len(a) = k /\ \A i \in 1 .. k : a[i] = s[i]
    BY SMT, <1>1
  <1>3. b \in Seq(Fds) /\ Len(b) = n - k /\ \A i \in 1 .. n - k : b[i] = s[i + k]
    BY <1>1, RestIs
  <1>4. \A i, j \in 1 .. n : s[i] = s[j] => i = j
    BY DEF Table
  <1>. HIDE DEF a, b, n
  <1>m. /\ \A f : f \in Range(a) <=> \E i \in 1 .. Len(a) : f = a[i]
        /\ \A f : f \in Range(b) <=> \E i \in 1 .. Len(b) : f = b[i]
    <2>1. a \in Seq(Fds) /\ b \in Seq(Fds)
      BY <1>2, <1>3
    <2>. QED  BY <2>1, MembersAre
  <1>5. 1 .. k \subseteq 1 .. n /\ k <= MaxFds
    BY SMT, <1>1, Bounds
  <1>6. Table(a)
    <2>1. \A i, j \in 1 .. Len(a) : a[i] = a[j] => i = j
      BY <1>2, <1>4, <1>5
    <2>. QED  BY <1>2, <1>5, <2>1 DEF Table
  <1>7. ASSUME NEW f \in Range(a) PROVE f \in Range(s) /\ f \notin Range(b)
    <2>1. PICK i \in 1 .. k : f = s[i]
      <3>1. PICK i \in 1 .. Len(a) : f = a[i]
        BY <1>7, <1>m
      <3>. QED  BY <1>2, <3>1
    <2>2. f \in Range(s)
      BY <1>1, <1>5, <2>1, MembersAre DEF n
    <2>3. ASSUME f \in Range(b) PROVE FALSE
      <3>1. PICK j \in 1 .. n - k : f = s[j + k]
        <4>1. PICK j \in 1 .. Len(b) : f = b[j]
          BY <2>3, <1>m
        <4>. QED  BY <1>3, <4>1
      <3>2. j + k \in 1 .. n /\ i \in 1 .. n /\ i # j + k
        BY SMT, <1>1
      <3>. QED  BY <1>4, <2>1, <3>1, <3>2
    <2>. QED  BY <2>2, <2>3
  <1>8. ASSUME NEW f \in Range(b) PROVE f \in Range(s)
    <2>1. PICK j \in 1 .. n - k : f = s[j + k]
      <3>1. PICK j \in 1 .. Len(b) : f = b[j]
        BY <1>8, <1>m
      <3>. QED  BY <1>3, <3>1
    <2>2. j + k \in 1 .. n
      BY SMT, <1>1
    <2>. QED  BY <1>1, <2>1, <2>2, MembersAre DEF n
  <1>9. ASSUME NEW f \in Range(s) PROVE f \in Range(a) \/ f \in Range(b)
    <2>1. PICK i \in 1 .. n : f = s[i]
      BY <1>1, <1>9, MembersAre DEF n
    <2>2. CASE i <= k
      <3>1. i \in 1 .. k
        BY SMT, <1>1, <2>2
      <3>. QED  BY <1>2, <2>1, <3>1, MembersAre
    <2>3. CASE i > k
      <3>1. i - k \in 1 .. n - k /\ (i - k) + k = i
        BY SMT, <1>1, <2>3
      <3>2. f = b[i - k]
        BY <1>3, <2>1, <3>1
      <3>. QED  BY <1>3, <3>1, <3>2, MembersAre
    <2>4. i <= k \/ i > k
      BY SMT, <1>1
    <2>. QED  BY <2>2, <2>3, <2>4
  <1>. QED  BY <1>6, <1>7, <1>8, <1>9 DEF a, b


(***************************************************************************)
(* The stream of the peer                                                   *)
(***************************************************************************)
\* What Init chooses of the peer
PeerIs ==
    /\ sent \in Seq(Shapes) /\ Len(sent) \in 1 .. MaxMsgs /\ junk \in Seq(Nat)
    /\ kind \in {"local", "inet", "dgram"} /\ israw \in BOOLEAN

LEMMA SentIs ==
  ASSUME PeerIs
  PROVE  /\ Len(sent) \in Nat /\ DOMAIN sent = 1 .. Len(sent) /\ Len(sent) <= MaxMsgs
         /\ \A m \in 1 .. Len(sent) : sent[m].args \in Seq(Nat) /\ sent[m].fds \in Nat /\ sent[m].fds <= MaxFds
  <1>1. Len(sent) \in Nat /\ DOMAIN sent = 1 .. Len(sent) /\ Len(sent) <= MaxMsgs
        /\ \A m \in 1 .. Len(sent) : sent[m] \in Shapes
    BY SMT, Bounds DEF PeerIs
  <1>2. ASSUME NEW m \in 1 .. Len(sent) PROVE sent[m].args \in Seq(Nat) /\ sent[m].fds \in 0 .. MaxFds
    BY <1>1, Peer
  <1>3. \A n \in 0 .. MaxFds : n \in Nat /\ n <= MaxFds
    BY SMT, Bounds
  <1>. QED  BY <1>1, <1>2, <1>3

\* The elements of two sequences, one after the other
Concat(u, s, t) ==
    /\ Len(u) = Len(s) + Len(t)
    /\ \A i \in 1 .. Len(s) : u[i] = s[i]
    /\ \A i \in 1 .. Len(t) : u[Len(s) + i] = t[i]

LEMMA ConcatIs ==
  ASSUME NEW T, NEW s \in Seq(T), NEW t \in Seq(T)
  PROVE  s \o t \in Seq(T) /\ Concat(s \o t, s, t)
  BY SMT DEF Concat

LEMMA BytesAre ==
  ASSUME PeerIs, NEW m \in 1 .. Len(sent)
  PROVE  /\ Bytes(m) \in Seq(Nat) /\ Len(Bytes(m)) = 6 + Len(sent[m].args) /\ Len(Bytes(m)) >= 6
         /\ \A i \in 1 .. 4 : Bytes(m)[i] = Magic[i]
         /\ Bytes(m)[5] = m /\ Bytes(m)[6] = Len(Bytes(m))
         /\ \A i \in 1 .. Len(sent[m].args) : Bytes(m)[6 + i] = sent[m].args[i]
  <1>. DEFINE a == sent[m].args
              n == Len(a)
              g == <<m, 6 + n>>
              h == Magic \o g
              b == Bytes(m)
  <1>1. a \in Seq(Nat) /\ n \in Nat /\ m \in Nat
    <2>1. a \in Seq(Nat)
      BY SentIs
    <2>2. m \in Nat
      BY SMT, SentIs
    <2>. HIDE DEF a
    <2>. QED  BY SMT, <2>1, <2>2
  <1>2. HeaderSize = 6 /\ Magic \in Seq(Nat) /\ Len(Magic) = 4
    BY SMT DEF HeaderSize, Magic
  <1>3. b = h \o a
    BY <1>2 DEF Bytes
  <1>. HIDE DEF a, n, b
  <1>4. g \in Seq(Nat) /\ Len(g) = 2 /\ g[1] = m /\ g[2] = 6 + n
    BY SMT, <1>1
  <1>. HIDE DEF g
  <1>5. /\ h \in Seq(Nat) /\ Len(h) = 4 + 2
        /\ \A i \in 1 .. 4 : h[i] = Magic[i]
        /\ \A i \in 1 .. 2 : h[4 + i] = g[i]
    <2>1. Magic \in Seq(Nat) /\ g \in Seq(Nat)
      BY <1>2, <1>4
    <2>2. h \in Seq(Nat) /\ Concat(h, Magic, g)
      BY <2>1, ConcatIs
    <2>. HIDE DEF h
    <2>. QED  BY <1>2, <1>4, <2>2 DEF Concat
  <1>. HIDE DEF h
  <1>6. /\ b \in Seq(Nat) /\ Len(b) = 6 + n
        /\ \A i \in 1 .. 6 : b[i] = h[i]
        /\ \A i \in 1 .. n : b[6 + i] = a[i]
    <2>1. Len(h) = 6
      BY SMT, <1>5
    <2>2. h \in Seq(Nat)
      BY SMT, <1>5
    <2>3. b \in Seq(Nat) /\ Concat(b, h, a)
      BY <1>1, <1>3, <2>2, ConcatIs
    <2>. QED  BY <2>1, <2>3 DEF n, Concat
  <1>7. b[5] = m /\ b[6] = 6 + n
    <2>1. h[4 + 1] = g[1] /\ h[4 + 2] = g[2]
      BY SMT, <1>5
    <2>2. b[5] = h[5] /\ b[6] = h[6]
      BY SMT, <1>6
    <2>. QED  BY SMT, <1>4, <2>1, <2>2
  <1>8. \A i \in 1 .. 4 : b[i] = Magic[i]
    <2>1. \A i \in 1 .. 4 : i \in 1 .. 6
      BY SMT
    <2>. QED  BY <1>5, <1>6, <2>1
  <1>9. 6 + n >= 6
    BY SMT, <1>1
  <1>. QED  BY <1>6, <1>7, <1>8, <1>9 DEF a, n, b

\* The stream is made of the messages, one after the other.
LEMMA UpToIs ==
  ASSUME PeerIs
  PROVE  /\ UpTo[0] = junk
         /\ \A k \in 0 .. Len(sent) : UpTo[k] \in Seq(Nat)
         /\ \A k \in 1 .. Len(sent) : UpTo[k] = UpTo[k - 1] \o Bytes(k)
  <1>. DEFINE S == Seq(Nat)
              n == Len(sent)
              step == [i \in Int |-> [x \in S |-> IF i \in 1 .. n THEN x \o Bytes(i) ELSE x]]
  <1>1. n \in Nat /\ 0 + n = n /\ 0 \in Int
    <2>1. n \in Nat
      BY SentIs
    <2>. HIDE DEF n
    <2>. QED  BY SMT, <2>1
  <1>2. junk \in S /\ \A i \in 1 .. n : Bytes(i) \in S
    BY BytesAre DEF PeerIs
  <1>c. ASSUME NEW x \in S, NEW y \in S PROVE x \o y \in S
    BY SMT
  <1>3. step \in [Int -> [S -> S]]
    <2>. HIDE DEF S, n
    <2>. QED  BY <1>2, <1>c
  <1>. HIDE DEF S, n, step
  <1>4. PICK f \in [0 .. n -> S] : Follows(f, 0, n, junk, step)
    <2>1. \A m \in Nat : \E f \in [0 .. 0 + m -> S] : Follows(f, 0, 0 + m, junk, step)
      BY <1>1, <1>2, <1>3, Recursion
    <2>2. \E f \in [0 .. 0 + n -> S] : Follows(f, 0, 0 + n, junk, step)
      BY <1>1, <2>1
    <2>. QED  BY <1>1, <2>2
  <1>5. \A i \in 0 .. n : f[i] = IF i = 0 THEN junk ELSE f[i - 1] \o Bytes(i)
    <2>. TAKE i \in 0 .. n
    <2>1. CASE i = 0
      BY <1>4, <2>1 DEF Follows
    <2>2. CASE i # 0
      <3>1. i - 1 \in 0 .. n /\ i \in Int /\ i \in 1 .. n
        BY SMT, <1>1, <2>2
      <3>2. f[i - 1] \in S
        BY <1>4, <3>1
      <3>3. step[i][f[i - 1]] = f[i - 1] \o Bytes(i)
        BY <3>1, <3>2 DEF step
      <3>. QED  BY <1>4, <2>2, <3>3 DEF Follows
    <2>. QED  BY <2>1, <2>2
  <1>6. f = [i \in 0 .. n |-> IF i = 0 THEN junk ELSE f[i - 1] \o Bytes(i)]
    BY <1>4, <1>5
  <1>7. UpTo = [i \in 0 .. n |-> IF i = 0 THEN junk ELSE UpTo[i - 1] \o Bytes(i)]
    BY <1>6 DEF UpTo, n
  <1>8. \A i \in 0 .. n : UpTo[i] = IF i = 0 THEN junk ELSE UpTo[i - 1] \o Bytes(i)
    BY <1>7
  <1>9. Nat \subseteq {k \in Nat : k \in 0 .. n => UpTo[k] \in S}
    <2>. DEFINE P == {k \in Nat : k \in 0 .. n => UpTo[k] \in S}
    <2>1. 0 \in P
      <3>1. 0 \in Nat
        BY SMT
      <3>. QED  BY <1>2, <1>8, <3>1
    <2>2. ASSUME NEW k \in Nat, k \in P PROVE k + 1 \in P
      <3>. SUFFICES ASSUME k + 1 \in 0 .. n PROVE UpTo[k + 1] \in S
        BY SMT, <2>2
      <3>1. k \in 0 .. n /\ k + 1 # 0 /\ (k + 1) - 1 = k /\ k + 1 \in 1 .. n
        BY SMT, <1>1
      <3>2. UpTo[k + 1] = UpTo[k] \o Bytes(k + 1)
        BY <1>8, <3>1
      <3>3. UpTo[k] \in S /\ Bytes(k + 1) \in S
        BY <1>2, <2>2, <3>1
      <3>. QED  BY <1>c, <3>2, <3>3
    <2>. HIDE DEF P
    <2>3. Nat \subseteq P
      BY <2>1, <2>2, Induction
    <2>. QED  BY <2>3 DEF P
  <1>10. /\ 0 \in 0 .. n /\ \A k \in 0 .. n : k \in Nat
         /\ \A k \in 1 .. n : k \in 0 .. n /\ k # 0
    BY SMT, <1>1
  <1>11. \A k \in 0 .. n : UpTo[k] \in S
    BY <1>9, <1>10
  <1>. QED  BY <1>8, <1>10, <1>11 DEF S, n

\* How many bytes there are up to the end of message k
End(k) == Len(UpTo[k])

LEMMA EndIs ==
  ASSUME PeerIs
  PROVE  /\ \A k \in 0 .. Len(sent) : End(k) \in Nat
         /\ End(0) = Len(junk)
         /\ \A k \in 1 .. Len(sent) : End(k) = End(k - 1) + Len(Bytes(k)) /\ End(k) > End(k - 1)
  <1>. DEFINE N == Len(sent)
  <1>0. N \in Nat /\ Len(junk) \in Nat
    BY SMT DEF PeerIs
  <1>. HIDE DEF N
  <1>1. ASSUME NEW k \in 0 .. N PROVE End(k) \in Nat
    <2>1. UpTo[k] \in Seq(Nat)
      BY UpToIs DEF N
    <2>. QED  BY SMT, <2>1 DEF End
  <1>2. End(0) = Len(junk)
    BY UpToIs DEF End
  <1>3. ASSUME NEW k \in 1 .. N PROVE End(k) = End(k - 1) + Len(Bytes(k)) /\ End(k) > End(k - 1)
    <2>0. k \in 0 .. N /\ k - 1 \in 0 .. N
      BY SMT, <1>0
    <2>1. UpTo[k] = UpTo[k - 1] \o Bytes(k)
      BY UpToIs DEF N
    <2>2. UpTo[k - 1] \in Seq(Nat) /\ Bytes(k) \in Seq(Nat)
      BY <2>0, UpToIs, BytesAre DEF N
    <2>3. Concat(UpTo[k], UpTo[k - 1], Bytes(k))
      BY <2>1, <2>2, ConcatIs
    <2>. DEFINE a == End(k - 1)
                b == Len(Bytes(k))
                c == End(k)
    <2>4. c = a + b /\ a \in Nat
      BY <1>1, <2>0, <2>3 DEF Concat, End
    <2>5. b \in Nat /\ b >= 6
      <3>1. b >= 6
        BY BytesAre DEF N
      <3>2. b \in Nat
        BY SMT, <2>2
      <3>. QED  BY <3>1, <3>2
    <2>. HIDE DEF a, b, c
    <2>6. c = a + b /\ c > a
      BY SMT, <2>4, <2>5
    <2>. QED  BY <2>6 DEF a, b, c
  <1>. QED  BY <1>1, <1>2, <1>3 DEF N

LEMMA EndGrows ==
  ASSUME PeerIs, NEW k \in 0 .. Len(sent), NEW m \in 0 .. Len(sent), k <= m
  PROVE  End(k) <= End(m)
  <1>. DEFINE N == Len(sent)
              P == {n \in Nat : k + n <= N => End(k) <= End(k + n)}
  <1>0. N \in Nat /\ k \in Nat /\ m \in Nat /\ k <= N /\ m <= N
    BY SMT, SentIs
  <1>. HIDE DEF N
  <1>1. 0 \in P
    <2>1. k + 0 = k /\ End(k) \in Nat
      BY SMT, <1>0, EndIs
    <2>2. End(k) <= End(k)
      BY SMT, <2>1
    <2>3. 0 \in Nat
      BY SMT
    <2>. QED  BY <2>1, <2>2, <2>3
  <1>2. ASSUME NEW n \in Nat, n \in P PROVE n + 1 \in P
    <2>. SUFFICES ASSUME k + (n + 1) <= N PROVE End(k) <= End(k + (n + 1))
      BY SMT
    <2>1. k + n <= N /\ k + (n + 1) \in 1 .. N /\ (k + (n + 1)) - 1 = k + n /\ k + n \in 0 .. N /\ k \in 0 .. N
          /\ k + (n + 1) \in 0 .. N
      BY SMT, <1>0
    <2>2. End(k) <= End(k + n)
      BY <1>2, <2>1
    <2>3. End(k + (n + 1)) > End(k + n)
      BY <2>1, EndIs DEF N
    <2>4. End(k) \in Nat /\ End(k + n) \in Nat /\ End(k + (n + 1)) \in Nat
      BY <2>1, EndIs DEF N
    <2>. DEFINE a == End(k)
                b == End(k + n)
                c == End(k + (n + 1))
    <2>5. a <= b /\ c > b /\ a \in Nat /\ b \in Nat /\ c \in Nat
      BY <2>2, <2>3, <2>4
    <2>. HIDE DEF a, b, c
    <2>6. a <= c
      BY SMT, <2>5
    <2>. QED  BY <2>6 DEF a, c
  <1>3. Nat \subseteq P
    <2>. HIDE DEF P
    <2>. QED  BY <1>1, <1>2, Induction
  <1>4. m - k \in Nat /\ k + (m - k) = m
    BY SMT, <1>0
  <1>. QED  BY <1>0, <1>3, <1>4

LEMMA PositionsAre ==
  ASSUME PeerIs, NEW m \in 1 .. Len(sent)
  PROVE  /\ FirstByte(m) = End(m - 1) + 1 /\ LastByte(m) = End(m)
         /\ End(m) \in Nat /\ End(m - 1) \in Nat /\ End(m - 1) < End(m)
  <1>1. m \in 0 .. Len(sent) /\ m - 1 \in 0 .. Len(sent)
    BY SMT, SentIs
  <1>. DEFINE a == End(m - 1)
              b == End(m)
              l == Len(Bytes(m))
  <1>2. FirstByte(m) = a + 1
    BY DEF FirstByte, End
  <1>3. a \in Nat /\ b \in Nat /\ b = a + l /\ a < b
    BY SMT, <1>1, EndIs
  <1>4. l \in Nat
    <2>1. Bytes(m) \in Seq(Nat)
      BY BytesAre
    <2>. QED  BY SMT, <2>1
  <1>5. LastByte(m) = (a + 1) + l - 1
    BY <1>2 DEF LastByte
  <1>. HIDE DEF a, b, l
  <1>6. (a + 1) + l - 1 = b
    BY SMT, <1>3, <1>4
  <1>. QED  BY <1>2, <1>3, <1>5, <1>6 DEF a, b

\* The messages are apart in the stream.
LEMMA MessagesApart ==
  ASSUME PeerIs, NEW m \in 1 .. Len(sent), NEW n \in 1 .. Len(sent), m < n
  PROVE  LastByte(m) < FirstByte(n)
  <1>1. m \in 0 .. Len(sent) /\ n - 1 \in 0 .. Len(sent) /\ m <= n - 1
    BY SMT, SentIs
  <1>2. End(m) <= End(n - 1)
    BY <1>1, EndGrows
  <1>3. LastByte(m) = End(m) /\ FirstByte(n) = End(n - 1) + 1 /\ End(m) \in Nat /\ End(n - 1) \in Nat
    BY PositionsAre
  <1>. QED  BY SMT, <1>2, <1>3

LEMMA StreamIs ==
  ASSUME PeerIs
  PROVE  Stream \in Seq(Nat) /\ Len(Stream) = End(Len(sent))
  <1>1. Len(sent) \in 0 .. Len(sent)
    BY SMT, SentIs
  <1>. QED  BY <1>1, UpToIs DEF Stream, End


(***************************************************************************)
(* Every descriptor the kernel has given is in one place                    *)
(***************************************************************************)
\* The descriptors that came with the first n bytes
Received(n) ==
    {f \in Fds : /\ f[1] \in DOMAIN sent /\ Carries(f[1]) /\ f[2] <= sent[f[1]].fds
                 /\ FirstByte(f[1]) <= n}

LEMMA FdsOfIs ==
  ASSUME PeerIs, NEW m \in 1 .. Len(sent)
  PROVE  /\ Table(FdsOf(m))
         /\ \A f \in Fds : f \in Range(FdsOf(m)) <=> f[1] = m /\ f[2] <= sent[m].fds
  <1>. DEFINE n == sent[m].fds
              s == FdsOf(m)
  <1>1. n \in Nat /\ n <= MaxFds /\ m \in 1 .. MaxMsgs /\ MaxFds \in Nat
    <2>1. n \in Nat /\ n <= MaxFds
      BY SentIs
    <2>. QED  BY SMT, <2>1, SentIs, Bounds
  <1>2. s = [i \in 1 .. n |-> <<m, i>>]
    BY DEF FdsOf
  <1>. HIDE DEF n, s
  <1>3. \A i \in 1 .. n : i \in 1 .. MaxFds
    BY SMT, <1>1
  <1>4. \A i \in 1 .. n : <<m, i>> \in Fds
    BY <1>1, <1>3 DEF Fds
  <1>5. s \in Seq(Fds) /\ Len(s) = n
    <2>1. s \in [1 .. n -> Fds]
      BY <1>2, <1>4
    <2>. QED  BY SMT, <1>1, <2>1
  <1>6. \A i \in 1 .. n : s[i] = <<m, i>>
    BY <1>2
  <1>7. \A i, j \in 1 .. n : s[i] = s[j] => i = j
    <2>1. \A i \in 1 .. n : <<m, i>>[2] = i
      BY SMT
    <2>. QED  BY <1>6, <2>1
  <1>8. Table(s)
    BY <1>1, <1>5, <1>7 DEF Table
  <1>9. ASSUME NEW f \in Fds PROVE f \in Range(s) <=> f[1] = m /\ f[2] <= n
    <2>1. f = <<f[1], f[2]>> /\ f[2] \in 1 .. MaxFds
      BY SMT DEF Fds
    <2>2. f \in Range(s) <=> \E i \in 1 .. n : f = <<m, i>>
      <3>1. f \in Range(s) <=> \E i \in 1 .. Len(s) : f = s[i]
        BY <1>5, MembersAre
      <3>. QED  BY <1>5, <1>6, <3>1
    <2>3. ASSUME NEW i \in 1 .. n, f = <<m, i>> PROVE f[1] = m /\ f[2] <= n
      <3>1. f[1] = m /\ f[2] = i
        BY SMT, <2>3
      <3>. QED  BY SMT, <1>1, <3>1
    <2>4. ASSUME f[1] = m, f[2] <= n PROVE f[2] \in 1 .. n /\ f = <<m, f[2]>>
      <3>1. f[2] \in 1 .. n
        BY SMT, <1>1, <2>1, <2>4
      <3>. QED  BY <2>1, <2>4, <3>1
    <2>. QED  BY <2>2, <2>3, <2>4
  <1>. QED  BY <1>8, <1>9 DEF n, s

LEMMA ReceivedMore ==
  ASSUME PeerIs, pos \in Nat, NEW n \in Nat, \A m \in Carrier(n) : pos + n <= LastByte(m),
         NEW new, new = IF Carrier(n) = {} THEN <<>> ELSE FdsOf(CHOOSE m \in Carrier(n) : TRUE)
  PROVE  Table(new) /\ Received(pos + n) = Received(pos) \cup Range(new) /\ Received(pos) \cap Range(new) = {}
  <1>0. DOMAIN sent = 1 .. Len(sent) /\ Len(sent) \in Nat
    BY SentIs
  <1>1. \A m \in 1 .. Len(sent) : FirstByte(m) \in Nat
    <2>1. \A m \in 1 .. Len(sent) : FirstByte(m) = End(m - 1) + 1 /\ End(m - 1) \in Nat
      BY PositionsAre
    <2>. QED  BY SMT, <2>1
  <1>2. \A m \in 1 .. Len(sent) : m \in Carrier(n) <=> Carries(m) /\ FirstByte(m) <= pos + n /\ ~(FirstByte(m) <= pos)
    <2>1. \A b \in Nat : b \in pos + 1 .. pos + n <=> b <= pos + n /\ ~(b <= pos)
      BY SMT
    <2>. QED  BY <1>0, <1>1, <2>1 DEF Carrier
  <1>3. Carrier(n) \subseteq 1 .. Len(sent)
    BY <1>0 DEF Carrier
  <1>4. \A m \in 1 .. Len(sent) : FirstByte(m) <= pos => FirstByte(m) <= pos + n
    BY SMT, <1>1
  <1>5. CASE Carrier(n) = {}
    <2>1. new = <<>>
      BY <1>5
    <2>2. Table(new) /\ Range(new) = {}
      BY <2>1, EmptyTable
    <2>3. \A m \in 1 .. Len(sent) : Carries(m) => (FirstByte(m) <= pos + n <=> FirstByte(m) <= pos)
      BY <1>2, <1>4, <1>5
    <2>4. Received(pos + n) = Received(pos)
      BY <1>0, <2>3 DEF Received
    <2>. QED  BY <2>2, <2>4
  <1>6. CASE Carrier(n) # {}
    <2>. DEFINE c == CHOOSE m \in Carrier(n) : TRUE
    <2>1. c \in Carrier(n) /\ new = FdsOf(c)
      BY <1>6
    <2>. HIDE DEF c
    <2>2. c \in 1 .. Len(sent) /\ Carries(c) /\ FirstByte(c) <= pos + n /\ ~(FirstByte(c) <= pos)
      BY <1>2, <1>3, <2>1
    <2>3. ASSUME NEW m \in Carrier(n) PROVE m = c
      <3>0. m \in 1 .. Len(sent) /\ FirstByte(m) <= pos + n /\ pos + n <= LastByte(m) /\ pos + n <= LastByte(c)
        BY <1>2, <1>3, <2>1, <2>3
      <3>1. LastByte(m) \in Nat /\ LastByte(c) \in Nat
        BY <2>2, <3>0, PositionsAre
      <3>2. ~(m < c)
        <4>1. ASSUME m < c PROVE FALSE
          <5>1. LastByte(m) < FirstByte(c)
            BY <2>2, <3>0, <4>1, MessagesApart
          <5>. QED  BY SMT, <1>1, <2>2, <3>0, <3>1, <5>1
        <4>. QED  BY SMT, <4>1
      <3>3. ~(c < m)
        <4>1. ASSUME c < m PROVE FALSE
          <5>1. LastByte(c) < FirstByte(m)
            BY <2>2, <3>0, <4>1, MessagesApart
          <5>. QED  BY SMT, <1>1, <2>2, <3>0, <3>1, <5>1
        <4>. QED  BY SMT, <4>1
      <3>. QED  BY SMT, <1>0, <2>2, <3>0, <3>2, <3>3
    <2>4. Table(new) /\ \A f \in Fds : f \in Range(new) <=> f[1] = c /\ f[2] <= sent[c].fds
      BY <2>1, <2>2, FdsOfIs
    <2>5. Range(new) \subseteq Fds
      <3>1. new \in Seq(Fds)
        BY <2>4 DEF Table
      <3>. QED  BY <3>1, MembersAre
    <2>6. \A f \in Range(new) : f \in Received(pos + n) /\ f \notin Received(pos)
      BY <1>0, <2>2, <2>4, <2>5 DEF Received
    <2>7. \A f \in Received(pos) : f \in Received(pos + n)
      BY <1>0, <1>4 DEF Received
    <2>8. ASSUME NEW f \in Received(pos + n), f \notin Received(pos) PROVE f \in Range(new)
      <3>1. f \in Fds /\ f[1] \in 1 .. Len(sent) /\ Carries(f[1]) /\ f[2] <= sent[f[1]].fds /\ FirstByte(f[1]) <= pos + n
        BY <1>0, <2>8 DEF Received
      <3>2. ~(FirstByte(f[1]) <= pos)
        BY <1>0, <2>8, <3>1 DEF Received
      <3>3. f[1] = c
        BY <1>2, <2>3, <3>1, <3>2
      <3>. QED  BY <2>4, <3>1, <3>3
    <2>. QED  BY <2>4, <2>6, <2>7, <2>8
  <1>. QED  BY <1>5, <1>6


\* The descriptors R received are in the sets C, N, H and K, in one of them each, or closed once.
Account(C, N, H, K, c, R) ==
    /\ C \cap N = {} /\ C \cap H = {} /\ C \cap K = {} /\ N \cap H = {} /\ N \cap K = {} /\ H \cap K = {}
    /\ C \cup N \cup H \cup K \subseteq R /\ R \subseteq Fds
    /\ c = [f \in Fds |-> IF f \in R /\ f \notin C \cup N \cup H \cup K THEN 1 ELSE 0]

\* The descriptors new come, those in gone are closed, and the others, all, move.
Move(all, C2, N2, H2, K2, gone, new, R) ==
    /\ new \subseteq Fds /\ new \cap R = {}
    /\ C2 \cap N2 = {} /\ C2 \cap H2 = {} /\ C2 \cap K2 = {} /\ N2 \cap H2 = {} /\ N2 \cap K2 = {} /\ H2 \cap K2 = {}
    /\ gone \cap (C2 \cup N2 \cup H2 \cup K2) = {}
    /\ (C2 \cup N2 \cup H2 \cup K2) \cup gone = all \cup new

LEMMA AccountMoves ==
  ASSUME NEW C, NEW N, NEW H, NEW K, NEW c, NEW R, Account(C, N, H, K, c, R),
         NEW C2, NEW N2, NEW H2, NEW K2, NEW gone, NEW new,
         Move(C \cup N \cup H \cup K, C2, N2, H2, K2, gone, new, R)
  PROVE  Account(C2, N2, H2, K2, Closing(c, gone), R \cup new)
  <1>. DEFINE U == C \cup N \cup H \cup K
              V == C2 \cup N2 \cup H2 \cup K2
              S == R \cup new
              d == [f \in Fds |-> IF f \in S /\ f \notin V THEN 1 ELSE 0]
  <1>1. U \subseteq R /\ R \subseteq Fds /\ c = [f \in Fds |-> IF f \in R /\ f \notin U THEN 1 ELSE 0]
    BY DEF Account
  <1>m. /\ new \subseteq Fds /\ new \cap R = {} /\ gone \cap V = {} /\ V \cup gone = U \cup new
        /\ C2 \cap N2 = {} /\ C2 \cap H2 = {} /\ C2 \cap K2 = {} /\ N2 \cap H2 = {} /\ N2 \cap K2 = {} /\ H2 \cap K2 = {}
    BY DEF Move
  <1>2. V \subseteq S /\ S \subseteq Fds
    BY <1>1, <1>m
  <1>3. ASSUME NEW f \in Fds PROVE c[f] + (IF f \in gone THEN 1 ELSE 0) = d[f]
    <2>1. c[f] = IF f \in R /\ f \notin U THEN 1 ELSE 0
      BY <1>1
    <2>2. d[f] = IF f \in S /\ f \notin V THEN 1 ELSE 0
      OBVIOUS
    <2>3. f \in gone => f \in S /\ f \notin V /\ ~(f \in R /\ f \notin U)
      BY <1>1, <1>m
    <2>4. f \notin gone => (f \in S /\ f \notin V <=> f \in R /\ f \notin U)
      BY <1>1, <1>m
    <2>. HIDE DEF U, V, S, d
    <2>. QED  BY SMT, <2>1, <2>2, <2>3, <2>4
  <1>4. Closing(c, gone) = d
    <2>1. \A f \in Fds : c[f] + (IF f \in gone THEN 1 ELSE 0) = IF f \in S /\ f \notin V THEN 1 ELSE 0
      BY <1>3
    <2>. HIDE DEF S, V
    <2>. QED  BY <2>1 DEF Closing
  <1>. QED  BY <1>2, <1>4, <1>m DEF Account

\* Nothing is closed.
LEMMA ClosingNone ==
  ASSUME NEW C, NEW N, NEW H, NEW K, NEW c, NEW R, Account(C, N, H, K, c, R)
  PROVE  Closing(c, {}) = c
  <1>1. c = [f \in Fds |-> IF f \in R /\ f \notin C \cup N \cup H \cup K THEN 1 ELSE 0]
    BY DEF Account
  <1>2. \A f \in Fds : c[f] = IF f \in R /\ f \notin C \cup N \cup H \cup K THEN 1 ELSE 0
    BY <1>1
  <1>3. \A f \in Fds : c[f] + (IF f \in {} THEN 1 ELSE 0) = c[f]
    BY SMT, <1>2
  <1>4. Closing(c, {}) = [f \in Fds |-> c[f]]
    BY <1>3 DEF Closing
  <1>. QED  BY <1>1, <1>4

LEMMA AccountInit ==
  ASSUME NEW c, c = [f \in Fds |-> 0]
  PROVE  Account({}, {}, {}, {}, c, {})
  BY DEF Account

\* The account in the numbers of FdsAccounted
LEMMA AccountAdds ==
  ASSUME PeerIs, Table(current), Table(next), Table(held),
         Account(Range(current), Range(next), Range(held), kept, closed, Received(pos))
  PROVE  FdsAccounted
  <1>. DEFINE C == Range(current)
              N == Range(next)
              H == Range(held)
              R == Received(pos)
  <1>1. SUFFICES ASSUME NEW f \in Fds
                 PROVE  Occurrences(current, f) + Occurrences(next, f) + Occurrences(held, f) + closed[f]
                            + (IF f \in kept THEN 1 ELSE 0) = IF f \in R THEN 1 ELSE 0
    BY DEF FdsAccounted, Received
  <1>2. /\ Occurrences(current, f) = IF f \in C THEN 1 ELSE 0
        /\ Occurrences(next, f) = IF f \in N THEN 1 ELSE 0
        /\ Occurrences(held, f) = IF f \in H THEN 1 ELSE 0
    BY OccurrencesIs
  <1>3. closed[f] = IF f \in R /\ f \notin C \cup N \cup H \cup kept THEN 1 ELSE 0
    BY DEF Account
  <1>4. C \cap N = {} /\ C \cap H = {} /\ C \cap kept = {} /\ N \cap H = {} /\ N \cap kept = {} /\ H \cap kept = {}
        /\ C \cup N \cup H \cup kept \subseteq R
    BY DEF Account
  <1>. HIDE DEF C, N, H, R
  <1>. QED  BY SMT, <1>2, <1>3, <1>4


LEMMA MinIsLeast ==
  ASSUME NEW I \in SUBSET Nat, I # {}
  PROVE  Min(I) \in I /\ \A i \in I : Min(I) <= i
  <1>1. \E x \in I : \A y \in I : x <= y
    <2>. SUFFICES ASSUME \A x \in I : \E y \in I : ~(x <= y) PROVE FALSE
      OBVIOUS
    <2>. DEFINE P == {n \in Nat : \A i \in I : n < i}
    <2>1. 0 \in P
      <3>1. ASSUME NEW i \in I PROVE 0 < i
        <4>1. PICK y \in I : ~(i <= y)
          BY SMT
        <4>. QED  BY SMT, <4>1
      <3>. QED  BY SMT, <3>1
    <2>2. ASSUME NEW n \in Nat, n \in P PROVE n + 1 \in P
      <3>1. ASSUME NEW i \in I PROVE n + 1 < i
        <4>1. PICK y \in I : ~(i <= y)
          BY SMT
        <4>2. n < y
          BY SMT, <2>2
        <4>. QED  BY SMT, <4>1, <4>2
      <3>. QED  BY SMT, <3>1
    <2>3. Nat \subseteq P
      <3>. HIDE DEF P
      <3>. QED  BY <2>1, <2>2, Induction
    <2>4. PICK i \in I : TRUE
      OBVIOUS
    <2>5. i \in Nat /\ i < i
      BY SMT, <2>3, <2>4
    <2>. QED  BY SMT, <2>5
  <1>. QED  BY <1>1 DEF Min

\* The walk of pomp_conn_fixup_rx_fds takes k descriptors of the current table. It takes none
\* and leaves the tables, or it frees the current table for the next message.
Walked(x, k) ==
    /\ x.held = SubSeq(current, 1, k)
    /\ \/ k = 0 /\ x.current = current /\ x.next = next /\ x.left = {}
       \/ x.current = next /\ x.next = <<>> /\ x.left = Range(DropFirst(current, k))

LEMMA FixupIs ==
  ASSUME Table(current), NEW args \in Seq(Nat)
  PROVE  \E k \in 0 .. Len(current) : Walked(Fixup(args), k)
  <1>. DEFINE unknown == {i \in DOMAIN args : args[i] = Unknown}
              known == Min(unknown)
              walked == IF unknown = {} THEN args ELSE SubSeq(args, 1, Min(unknown) - 1)
              needs == Occurrences(walked, FdArg)
              taken == Smaller(needs, Len(current))
              x == Fixup(args)
  <1>1. unknown # {} => known - 1 \in 0 .. Len(args)
    <2>1. unknown \in SUBSET Nat /\ unknown \in SUBSET (1 .. Len(args))
      BY SMT
    <2>2. unknown # {} => known \in unknown
      BY <2>1, MinIsLeast
    <2>3. unknown # {} => known \in 1 .. Len(args) /\ Len(args) \in Nat
      <3>1. Len(args) \in Nat
        BY SMT
      <3>. QED  BY <2>1, <2>2, <3>1
    <2>. HIDE DEF unknown, known
    <2>. QED  BY SMT, <2>3
  <1>2. walked \in Seq(Nat)
    <2>1. CASE unknown = {}
      BY <2>1
    <2>2. CASE unknown # {}
      <3>1. known - 1 \in 0 .. Len(args)
        BY <1>1, <2>2
      <3>. HIDE DEF known
      <3>2. SubSeq(args, 1, known - 1) \in Seq(Nat)
        BY SMT, <3>1
      <3>. QED  BY <2>2, <3>2 DEF known
    <2>. QED  BY <2>1, <2>2
  <1>. HIDE DEF walked
  <1>3. needs \in Nat
    BY <1>2, OccurrencesAre DEF Counted
  <1>4. /\ x.held = SubSeq(current, 1, taken)
        /\ x.current = IF needs > 0 THEN next ELSE current
        /\ x.next = IF needs > 0 THEN <<>> ELSE next
        /\ x.left = IF needs > 0 THEN Range(DropFirst(current, taken)) ELSE {}
    BY DEF Fixup, walked
  <1>. HIDE DEF needs, x
  <1>5. Len(current) \in Nat
    BY SMT DEF Table
  <1>6. taken \in 0 .. Len(current) /\ (~(needs > 0) => taken = 0)
    BY SMT, <1>3, <1>5 DEF Smaller
  <1>. HIDE DEF taken
  <1>7. Walked(x, taken)
    BY <1>4, <1>6 DEF Walked
  <1>. QED  BY <1>6, <1>7 DEF x

\* What a message of the decoder does to the tables and to the buffer of the message: old is
\* what the buffer held, without the descriptors that are kept or closed when it is emptied.
LEMMA AccountFixup ==
  ASSUME NEW x, NEW k \in 0 .. Len(current), Walked(x, k), Table(current), Table(next),
         current = <<>> => next = <<>>,
         NEW H, NEW K, NEW c, NEW R, Account(Range(current), Range(next), H, K, c, R),
         NEW K2, NEW gone, K2 \cap gone = {}, K2 \cup gone = H \cup K
  PROVE  /\ Table(x.current) /\ Table(x.next) /\ Table(x.held) /\ (x.current = <<>> => x.next = <<>>)
         /\ Account(Range(x.current), Range(x.next), Range(x.held), K2, Closing(c, gone \cup x.left), R)
  <1>. DEFINE C == Range(current)
              N == Range(next)
              A == Range(SubSeq(current, 1, k))
              B == Range(DropFirst(current, k))
  <1>1. Table(SubSeq(current, 1, k)) /\ A \cup B = C /\ A \cap B = {}
    BY TableCut
  <1>2. C \cap N = {} /\ C \cap H = {} /\ C \cap K = {} /\ N \cap H = {} /\ N \cap K = {}
    BY DEF Account
  <1>3. Range(<<>>) = {} /\ Table(<<>>)
    BY EmptyTable
  <1>4. {} \in SUBSET Fds /\ {} \cap R = {} /\ R \cup {} = R
    OBVIOUS
  <1>5. CASE k = 0 /\ x.current = current /\ x.next = next /\ x.left = {}
    <2>1. SubSeq(current, 1, 0) = <<>>
      BY SMT DEF Table
    <2>2. x.held = <<>> /\ Range(x.held) = {}
      BY <1>3, <1>5, <2>1 DEF Walked
    <2>. HIDE DEF C, N
    <2>3. Account(C, N, {}, K2, Closing(c, gone \cup {}), R \cup {})
      <3>1. Move(C \cup N \cup H \cup K, C, N, {}, K2, gone \cup {}, {}, R)
        <4>1. C \cap {} = {} /\ C \cap K2 = {} /\ N \cap {} = {} /\ N \cap K2 = {} /\ {} \cap K2 = {} /\ C \cap N = {}
          BY <1>2
        <4>2. (gone \cup {}) \cap (C \cup N \cup {} \cup K2) = {}
          BY <1>2
        <4>3. (C \cup N \cup {} \cup K2) \cup (gone \cup {}) = (C \cup N \cup H \cup K) \cup {}
          OBVIOUS
        <4>. QED  BY <1>4, <4>1, <4>2, <4>3 DEF Move
      <3>2. Account(C, N, H, K, c, R)
        BY DEF C, N
      <3>. QED  BY <3>1, <3>2, AccountMoves
    <2>. QED  BY <1>3, <1>4, <1>5, <2>2, <2>3 DEF C, N
  <1>6. CASE x.current = next /\ x.next = <<>> /\ x.left = B
    <2>1. x.held = SubSeq(current, 1, k)
      BY DEF Walked
    <2>. HIDE DEF C, N, A, B
    <2>2. Account(N, {}, A, K2, Closing(c, gone \cup B), R \cup {})
      <3>1. Move(C \cup N \cup H \cup K, N, {}, A, K2, gone \cup B, {}, R)
        <4>1. N \cap {} = {} /\ N \cap A = {} /\ N \cap K2 = {} /\ {} \cap A = {} /\ {} \cap K2 = {} /\ A \cap K2 = {}
          BY <1>1, <1>2
        <4>2. (gone \cup B) \cap (N \cup {} \cup A \cup K2) = {}
          BY <1>1, <1>2
        <4>3. (N \cup {} \cup A \cup K2) \cup (gone \cup B) = (C \cup N \cup H \cup K) \cup {}
          BY <1>1
        <4>. QED  BY <1>4, <4>1, <4>2, <4>3 DEF Move
      <3>2. Account(C, N, H, K, c, R)
        BY DEF C, N
      <3>. QED  BY <3>1, <3>2, AccountMoves
    <2>. QED  BY <1>1, <1>3, <1>4, <1>6, <2>1, <2>2 DEF N, A
  <1>. QED  BY <1>5, <1>6 DEF Walked


\* What pomp_conn_process_read_with_cmsg does with new descriptors
Stored(s, new) ==
    /\ ~s.error
    /\ \/ new = <<>> /\ s.current = current /\ s.next = next /\ s.closed = Closing(closed, {})
       \/ current = <<>> /\ s.current = new /\ s.next = <<>> /\ s.closed = Closing(closed, {})
       \/ new # <<>> /\ current # <<>> /\ next = <<>> /\ s.current = current /\ s.next = new /\ s.closed = Closing(closed, {})
       \/ new # <<>> /\ next # <<>> /\ s.current = next /\ s.next = new /\ s.closed = Closing(closed, Range(current))

LEMMA StoreIs ==
  ASSUME NEW new, Table(new), Table(current), Table(next), current = <<>> => next = <<>>
  PROVE  Stored(StoreFds(new), new)
  <1>. DEFINE discard == current # <<>> /\ next # <<>> /\ new # <<>>
              c == IF discard THEN next ELSE current
              n == (IF discard THEN <<>> ELSE next) \o new
              kept_n == SubSeq(n, 1, Smaller(MaxFds, Len(n)))
              rest == Range(DropFirst(n, Len(kept_n)))
              gone == rest \union IF discard THEN Range(current) ELSE {}
              s == StoreFds(new)
  <1>1. /\ s.current = IF c = <<>> THEN kept_n ELSE c
        /\ s.next = IF c = <<>> THEN <<>> ELSE kept_n
        /\ s.closed = Closing(closed, gone)
        /\ s.error = (Len(n) > MaxFds)
    BY DEF StoreFds
  <1>2. new \in Seq(Fds) /\ next \in Seq(Fds) /\ current \in Seq(Fds)
    BY DEF Table
  <1>3. n = IF new = <<>> THEN next ELSE new
    <2>1. <<>> \o new = new /\ next \o <<>> = next
      BY SMT, <1>2
    <2>2. CASE new = <<>>
      BY <2>1, <2>2
    <2>3. CASE new # <<>> /\ next = <<>>
      BY <2>1, <2>3
    <2>4. CASE new # <<>> /\ next # <<>>
      BY <2>1, <2>4
    <2>. QED  BY <2>2, <2>3, <2>4
  <1>. HIDE DEF n
  <1>4. Table(n)
    BY <1>3
  <1>5. n \in Seq(Fds) /\ Len(n) \in Nat /\ Len(n) <= MaxFds /\ MaxFds \in Nat
    BY SMT, <1>4, Bounds DEF Table
  <1>6. Smaller(MaxFds, Len(n)) = Len(n) /\ ~(Len(n) > MaxFds)
    BY SMT, <1>5 DEF Smaller
  <1>7. SubSeq(n, 1, Len(n)) = n /\ DropFirst(n, Len(n)) = <<>>
    BY SMT, <1>5 DEF DropFirst
  <1>8. kept_n = n
    BY <1>6, <1>7
  <1>. HIDE DEF kept_n
  <1>9. rest = {}
    BY <1>7, <1>8, EmptyTable
  <1>. HIDE DEF rest, s
  <1>10. ~s.error
    BY <1>1, <1>6
  <1>11. CASE new = <<>>
    <2>1. gone = {}
      BY <1>9, <1>11
    <2>. HIDE DEF gone
    <2>2. CASE current = <<>>
      <3>1. next = <<>>
        BY <2>2
      <3>. QED  BY <1>1, <1>3, <1>8, <1>10, <1>11, <2>1, <2>2, <3>1 DEF Stored, s
    <2>3. CASE current # <<>>
      BY <1>1, <1>3, <1>8, <1>10, <1>11, <2>1, <2>3 DEF Stored, s
    <2>. QED  BY <2>2, <2>3
  <1>12. CASE new # <<>> /\ next = <<>>
    <2>1. gone = {}
      BY <1>9, <1>12
    <2>. HIDE DEF gone
    <2>2. CASE current = <<>>
      BY <1>1, <1>3, <1>8, <1>10, <1>12, <2>1, <2>2 DEF Stored, s
    <2>3. CASE current # <<>>
      BY <1>1, <1>3, <1>8, <1>10, <1>12, <2>1, <2>3 DEF Stored, s
    <2>. QED  BY <2>2, <2>3
  <1>13. CASE new # <<>> /\ next # <<>>
    <2>1. gone = Range(current)
      BY <1>9, <1>13
    <2>2. c = next /\ c # <<>>
      BY <1>13
    <2>. HIDE DEF gone, c
    <2>. QED  BY <1>1, <1>3, <1>8, <1>10, <1>13, <2>1, <2>2 DEF Stored, s
  <1>. QED  BY <1>11, <1>12, <1>13

\* The places of the descriptors after a read that gives new ones, and R all that were given
LEMMA AccountStore ==
  ASSUME NEW s, NEW new, Stored(s, new), Table(new), Table(current), Table(next), current = <<>> => next = <<>>,
         NEW H, NEW K, NEW R, Account(Range(current), Range(next), H, K, closed, R), R \cap Range(new) = {}
  PROVE  /\ Table(s.current) /\ Table(s.next) /\ (s.current = <<>> => s.next = <<>>)
         /\ Account(Range(s.current), Range(s.next), H, K, s.closed, R \cup Range(new))
  <1>. DEFINE C == Range(current)
              N == Range(next)
              W == Range(new)
  <1>1. C \cap N = {} /\ C \cap H = {} /\ C \cap K = {} /\ N \cap H = {} /\ N \cap K = {} /\ H \cap K = {}
        /\ C \cup N \cup H \cup K \subseteq R
    BY DEF Account
  <1>2. W \subseteq Fds
    <2>1. new \in Seq(Fds)
      BY DEF Table
    <2>. QED  BY <2>1, MembersAre
  <1>3. W \cap R = {}
    OBVIOUS
  <1>4. Table(<<>>) /\ Range(<<>>) = {}
    BY EmptyTable
  <1>a. Account(C, N, H, K, closed, R)
    OBVIOUS
  <1>. HIDE DEF C, N, W
  <1>5. CASE new = <<>> /\ s.current = current /\ s.next = next /\ s.closed = Closing(closed, {})
    <2>1. W = {}
      BY <1>4, <1>5 DEF W
    <2>2. Closing(closed, {}) = closed
      BY <1>a, ClosingNone
    <2>3. R \cup W = R
      BY <2>1
    <2>. QED  BY <1>5, <2>2, <2>3 DEF W
  <1>6. CASE current = <<>> /\ s.current = new /\ s.next = <<>> /\ s.closed = Closing(closed, {})
    <2>1. C = {} /\ N = {}
      BY <1>4, <1>6 DEF C, N
    <2>2. Move(C \cup N \cup H \cup K, W, {}, H, K, {}, W, R)
      BY <1>1, <1>2, <1>3, <2>1 DEF Move
    <2>3. Account(W, {}, H, K, Closing(closed, {}), R \cup W)
      BY <1>a, <2>2, AccountMoves
    <2>. QED  BY <1>4, <1>6, <2>3 DEF W
  <1>7. CASE new # <<>> /\ current # <<>> /\ next = <<>> /\ s.current = current /\ s.next = new /\ s.closed = Closing(closed, {})
    <2>1. N = {}
      BY <1>4, <1>7 DEF N
    <2>2. Move(C \cup N \cup H \cup K, C, W, H, K, {}, W, R)
      BY <1>1, <1>2, <1>3, <2>1 DEF Move
    <2>3. Account(C, W, H, K, Closing(closed, {}), R \cup W)
      BY <1>a, <2>2, AccountMoves
    <2>. QED  BY <1>4, <1>7, <2>3 DEF W, C
  <1>8. CASE new # <<>> /\ next # <<>> /\ s.current = next /\ s.next = new /\ s.closed = Closing(closed, Range(current))
    <2>2. Move(C \cup N \cup H \cup K, N, W, H, K, C, W, R)
      BY <1>1, <1>2, <1>3 DEF Move
    <2>3. Account(N, W, H, K, Closing(closed, C), R \cup W)
      BY <1>a, <2>2, AccountMoves
    <2>. QED  BY <1>4, <1>8, <2>3 DEF W, C, N
  <1>. QED  BY <1>5, <1>6, <1>7, <1>8 DEF Stored


(***************************************************************************)
(* The invariant of the connection                                          *)
(***************************************************************************)
Control == pc \in {"idle", "read", "decode", "callback", "removed"} /\ (pc = "read" => ~read_suspended)

\* A message whose payload is being read has its own, empty, buffer.
Reading ==
    /\ readbuf \in Seq(Nat) /\ off \in 0 .. Len(readbuf) /\ Sound(prot)
    /\ prot.state = PAYLOAD => held = <<>> /\ ~ref

Places ==
    /\ Table(current) /\ Table(next) /\ Table(held) /\ (current = <<>> => next = <<>>)
    /\ Account(Range(current), Range(next), Range(held), kept, closed, Received(pos))

RecvInv == PeerIs /\ pos \in Nat /\ Control /\ Reading /\ Places

\* The tables after a step
LEMMA TablesAfter ==
  (Table(current)' <=> Table(current')) /\ (Table(next)' <=> Table(next')) /\ (Table(held)' <=> Table(held'))
  BY DEF Table

\* What the peer sends does not change.
LEMMA PeerKept ==
  ASSUME UNCHANGED peer
  PROVE  /\ PeerIs' <=> PeerIs
         /\ \A n : n = pos' => Received(pos)' = Received(n)
  <1>1. sent' = sent /\ junk' = junk /\ kind' = kind /\ israw' = israw
    BY DEF peer
  <1>2. UpTo' = UpTo
    BY <1>1 DEF UpTo, Bytes
  <1>. QED  BY <1>1, <1>2 DEF PeerIs, Received, Carries, FirstByte

LEMMA RecvInit == Init => RecvInv
  <1>. SUFFICES ASSUME Init PROVE RecvInv
    BY SMT
  <1>1. PeerIs
    <2>1. sent \in Seq(Shapes) /\ Len(sent) \in 1 .. MaxMsgs
      <3>1. PICK n \in 1 .. MaxMsgs : sent \in [1 .. n -> Shapes]
        BY DEF Init
      <3>2. n \in Nat
        BY SMT, Bounds
      <3>3. sent \in Seq(Shapes) /\ Len(sent) = n
        BY SMT, <3>1, <3>2
      <3>. QED  BY <3>3
    <2>2. junk \in Seq(Nat)
      <3>1. junk \in {<<>>} \/ junk \in Junk
        BY DEF Init
      <3>2. <<>> \in Seq(Nat)
        BY SMT
      <3>. QED  BY <3>1, <3>2, Peer
    <2>. QED  BY <2>1, <2>2 DEF PeerIs, Init
  <1>2. pos = 0 /\ pc = "idle" /\ readbuf = <<>> /\ off = 0 /\ prot = pomp_prot_new /\ current = <<>> /\ next = <<>>
        /\ held = <<>> /\ kept = {} /\ closed = [f \in Fds |-> 0]
    BY DEF Init
  <1>3. pos \in Nat
    BY SMT, <1>2
  <1>4. Control
    BY SMT, <1>2 DEF Control
  <1>5. Reading
    <2>1. prot \in Decoder /\ prot.state = IDLE
      <3>1. IDLE \in IDLE .. PAYLOAD /\ 0 \in Nat /\ <<>> \in Seq(Nat)
        BY SMT DEF IDLE, PAYLOAD
      <3>. QED  BY <1>2, <3>1 DEF pomp_prot_new, Decoder
    <2>2. Sound(prot) /\ prot.state # PAYLOAD
      BY SMT, <2>1 DEF Sound, IDLE, PAYLOAD, MAGIC_0, HEADER
    <2>3. readbuf \in Seq(Nat) /\ off \in 0 .. Len(readbuf)
      BY SMT, <1>2
    <2>. QED  BY <2>2, <2>3 DEF Reading
  <1>6. Places
    <2>1. Range(<<>>) = {} /\ Table(<<>>)
      BY EmptyTable
    <2>2. Received(pos) = {}
      <3>0. DOMAIN sent = 1 .. Len(sent)
        BY <1>1, SentIs
      <3>1. \A m \in 1 .. Len(sent) : FirstByte(m) = End(m - 1) + 1 /\ End(m - 1) \in Nat
        BY <1>1, PositionsAre
      <3>2. \A m \in 1 .. Len(sent) : ~(FirstByte(m) <= pos)
        BY SMT, <1>2, <3>1
      <3>. QED  BY <3>0, <3>2 DEF Received
    <2>3. Account({}, {}, {}, {}, closed, {})
      BY <1>2, AccountInit
    <2>. QED  BY <1>2, <2>1, <2>2, <2>3 DEF Places
  <1>. QED  BY <1>1, <1>3, <1>4, <1>5, <1>6 DEF RecvInv

\* The steps that change neither the tables nor what is read
LEMMA QuietStep ==
  ASSUME RecvInv, UNCHANGED <<peer, pos, decoding, fds>>, Control'
  PROVE  RecvInv'
  <1>1. readbuf' = readbuf /\ off' = off /\ prot' = prot /\ current' = current /\ next' = next /\ held' = held
        /\ ref' = ref /\ kept' = kept /\ closed' = closed /\ pos' = pos /\ UNCHANGED peer
    BY DEF decoding, fds
  <1>2. PeerIs' /\ Received(pos)' = Received(pos)
    BY <1>1, PeerKept DEF RecvInv
  <1>3. Reading'
    BY <1>1 DEF RecvInv, Reading
  <1>4. Places'
    BY TablesAfter, <1>1, <1>2 DEF RecvInv, Places
  <1>. QED  BY <1>1, <1>2, <1>3, <1>4 DEF RecvInv

LEMMA RecvKeeps ==
  ASSUME RecvInv, NEW n \in 1 .. ReadLen, Recv(n)
  PROVE  RecvInv'
  <1>. DEFINE new == IF Carrier(n) = {} THEN <<>> ELSE FdsOf(CHOOSE m \in Carrier(n) : TRUE)
              s == StoreFds(new)
  <1>0. n \in Nat /\ PeerIs /\ pos \in Nat
    BY SMT, Bounds DEF RecvInv
  <1>1. /\ UNCHANGED peer /\ pos' = pos + n /\ pos + n <= Len(Stream)
        /\ \A m \in Carrier(n) : pos + n <= LastByte(m)
        /\ current' = s.current /\ next' = s.next /\ closed' = s.closed
        /\ pc' = (IF s.error THEN "idle" ELSE "decode") /\ held' = held /\ kept' = kept /\ ref' = ref /\ prot' = prot
        /\ readbuf' = SubSeq(Stream, pos + 1, pos + n) /\ off' = 0
    BY DEF Recv
  <1>2. Table(new) /\ Received(pos + n) = Received(pos) \cup Range(new) /\ Received(pos) \cap Range(new) = {}
    BY <1>0, <1>1, ReceivedMore
  <1>. HIDE DEF new
  <1>3. Table(current) /\ Table(next) /\ Table(held) /\ (current = <<>> => next = <<>>)
        /\ Account(Range(current), Range(next), Range(held), kept, closed, Received(pos))
    BY DEF RecvInv, Places
  <1>4. Stored(s, new)
    BY <1>2, <1>3, StoreIs
  <1>. HIDE DEF s
  <1>5. /\ Table(s.current) /\ Table(s.next) /\ (s.current = <<>> => s.next = <<>>)
        /\ Account(Range(s.current), Range(s.next), Range(held), kept, s.closed, Received(pos) \cup Range(new))
    BY <1>2, <1>3, <1>4, AccountStore
  <1>6. PeerIs' /\ Received(pos)' = Received(pos + n)
    BY <1>0, <1>1, PeerKept
  <1>7. Places'
    BY TablesAfter, <1>1, <1>2, <1>3, <1>5, <1>6 DEF Places
  <1>8. Reading'
    <2>1. Stream \in Seq(Nat) /\ Len(Stream) \in Nat
      <3>1. Stream \in Seq(Nat)
        BY <1>0, StreamIs
      <3>. QED  BY SMT, <3>1
    <2>2. SubSeq(Stream, pos + 1, pos + n) \in Seq(Nat)
      <3>. HIDE DEF Stream
      <3>. QED  BY SMT, <1>0, <1>1, <2>1
    <2>3. 0 \in 0 .. Len(readbuf')
      BY SMT, <1>1, <2>2
    <2>4. Sound(prot) /\ (prot.state = PAYLOAD => held = <<>> /\ ~ref)
      BY DEF RecvInv, Reading
    <2>. QED  BY <1>1, <2>2, <2>3, <2>4 DEF Reading
  <1>9. Control' /\ pos' \in Nat
    BY SMT, <1>0, <1>1 DEF Control
  <1>. QED  BY <1>6, <1>7, <1>8, <1>9 DEF RecvInv


LEMMA RecvDgramKeeps ==
  ASSUME RecvInv, NEW m \in DOMAIN sent, RecvDgram(m)
  PROVE  RecvInv'
  <1>1. /\ UNCHANGED peer /\ UNCHANGED fds /\ UNCHANGED prot /\ pos' = pos + 1 /\ kind = "dgram" /\ off' = 0 /\ pc' = "decode"
        /\ readbuf' = SubSeq(Bytes(m), 1, Smaller(ReadLen, Len(Bytes(m))))
    BY DEF RecvDgram
  <1>2. PeerIs /\ pos \in Nat /\ m \in 1 .. Len(sent)
    BY SentIs DEF RecvInv
  <1>3. PeerIs' /\ Received(pos)' = Received(pos + 1)
    BY <1>1, <1>2, PeerKept
  <1>4. Received(pos + 1) = Received(pos)
    <2>1. kind # "local"
      BY SMT, <1>1
    <2>. QED  BY <2>1 DEF Received, Carries
  <1>5. Places'
    <2>1. current' = current /\ next' = next /\ held' = held /\ kept' = kept /\ closed' = closed
      BY <1>1 DEF fds
    <2>. QED  BY TablesAfter, <1>3, <1>4, <2>1 DEF RecvInv, Places
  <1>6. Reading'
    <2>. DEFINE b == Bytes(m)
                k == Smaller(ReadLen, Len(b))
    <2>1. b \in Seq(Nat) /\ Len(b) \in Nat
      <3>1. b \in Seq(Nat)
        BY <1>2, BytesAre
      <3>. QED  BY SMT, <3>1
    <2>. HIDE DEF b
    <2>2. k \in 0 .. Len(b)
      BY SMT, <2>1, Bounds DEF Smaller
    <2>. HIDE DEF k
    <2>3. SubSeq(b, 1, k) \in Seq(Nat)
      BY SMT, <2>1, <2>2
    <2>4. readbuf' \in Seq(Nat)
      BY <1>1, <2>3 DEF b, k
    <2>5. off' \in 0 .. Len(readbuf')
      BY SMT, <1>1, <2>4
    <2>6. Sound(prot) /\ (prot.state = PAYLOAD => held = <<>> /\ ~ref) /\ held' = held /\ ref' = ref /\ prot' = prot
      BY <1>1 DEF RecvInv, Reading, fds
    <2>. QED  BY <2>4, <2>5, <2>6 DEF Reading
  <1>7. Control' /\ pos' \in Nat
    BY SMT, <1>1, <1>2 DEF Control
  <1>. QED  BY <1>3, <1>5, <1>6, <1>7 DEF RecvInv

LEMMA NotifyRawKeeps ==
  ASSUME RecvInv, NotifyRaw
  PROVE  RecvInv'
  <1>1. /\ UNCHANGED peer /\ UNCHANGED fds /\ UNCHANGED prot /\ UNCHANGED socket /\ UNCHANGED readbuf
        /\ off' = Len(readbuf) /\ pc' = "callback"
    BY DEF NotifyRaw
  <1>2. pos' = pos /\ current' = current /\ next' = next /\ held' = held /\ kept' = kept /\ closed' = closed /\ ref' = ref
    BY <1>1 DEF fds, socket
  <1>3. PeerIs' /\ Received(pos)' = Received(pos) /\ pos' \in Nat
    BY <1>1, <1>2, PeerKept DEF RecvInv
  <1>4. Places'
    BY TablesAfter, <1>2, <1>3 DEF RecvInv, Places
  <1>5. Reading'
    <2>1. readbuf \in Seq(Nat) /\ Sound(prot) /\ (prot.state = PAYLOAD => held = <<>> /\ ~ref)
      BY DEF RecvInv, Reading
    <2>2. off' \in 0 .. Len(readbuf)
      BY SMT, <1>1, <2>1
    <2>. QED  BY <1>1, <1>2, <2>1, <2>2 DEF Reading
  <1>6. Control'
    BY SMT, <1>1 DEF Control
  <1>. QED  BY <1>3, <1>4, <1>5, <1>6 DEF RecvInv

\* The steps of which only the places of the descriptors are of interest: those of C, N and H go to
\* C2, N2 and H2, or are closed.
LEMMA PlacesMove ==
  ASSUME RecvInv, UNCHANGED peer, UNCHANGED pos, NEW gone, closed' = Closing(closed, gone),
         Table(current)', Table(next)', Table(held)', (current = <<>> => next = <<>>)',
         Move(Range(current) \cup Range(next) \cup Range(held) \cup kept,
              Range(current)', Range(next)', Range(held)', kept', gone, {}, Received(pos))
  PROVE  Places'
  <1>1. Account(Range(current), Range(next), Range(held), kept, closed, Received(pos))
    BY DEF RecvInv, Places
  <1>. DEFINE C2 == Range(current)'
              N2 == Range(next)'
              H2 == Range(held)'
              R == Received(pos)
  <1>2. Account(C2, N2, H2, kept', Closing(closed, gone), R \cup {})
    BY <1>1, AccountMoves
  <1>3. R \cup {} = R
    OBVIOUS
  <1>4. Received(pos)' = R
    BY PeerKept
  <1>. HIDE DEF R
  <1>5. Account(Range(current), Range(next), Range(held), kept, closed, Received(pos))'
    BY <1>2, <1>3, <1>4 DEF Account
  <1>. QED  BY <1>5 DEF Places

LEMMA EndDecodeKeeps ==
  ASSUME RecvInv, EndDecode
  PROVE  RecvInv'
  <1>1. /\ UNCHANGED peer /\ pos' = pos /\ prot' = prot /\ held' = held /\ ref' = ref /\ kept' = kept
        /\ readbuf' = <<>> /\ off' = 0 /\ pc' = AfterRead /\ read_suspended' = read_suspended
    BY DEF EndDecode, socket, flags
  <1>2. Table(current) /\ Table(next) /\ Table(held) /\ (current = <<>> => next = <<>>)
        /\ Account(Range(current), Range(next), Range(held), kept, closed, Received(pos))
    BY DEF RecvInv, Places
  <1>3. Range(<<>>) = {} /\ Table(<<>>)
    BY EmptyTable
  <1>4. PeerIs' /\ Received(pos)' = Received(pos) /\ pos' \in Nat
    BY <1>1, PeerKept DEF RecvInv
  <1>5. Places'
    <2>1. CASE ~israw /\ ~partial /\ current # <<>>
      <3>. DEFINE C == Range(current)
                  N == Range(next)
                  H == Range(held)
      <3>1. closed' = Closing(closed, C \union N) /\ current' = <<>> /\ next' = <<>>
        BY <2>1 DEF EndDecode
      <3>2. Range(current)' = {} /\ Range(next)' = {} /\ Range(held)' = H
        BY <1>1, <1>3, <3>1
      <3>3. C \cap N = {} /\ C \cap H = {} /\ C \cap kept = {} /\ N \cap H = {} /\ N \cap kept = {} /\ H \cap kept = {}
        BY <1>2 DEF Account
      <3>4. Move(C \cup N \cup H \cup kept, {}, {}, H, kept, C \union N, {}, Received(pos))
        <4>. HIDE DEF C, N, H
        <4>. QED  BY <3>3 DEF Move
      <3>5. Move(C \cup N \cup H \cup kept, Range(current)', Range(next)', Range(held)', kept', C \union N, {}, Received(pos))
        BY <1>1, <3>2, <3>4
      <3>6. Table(current)' /\ Table(next)' /\ Table(held)' /\ (current = <<>> => next = <<>>)'
        BY TablesAfter, <1>1, <1>2, <1>3, <3>1
      <3>. QED  BY <1>1, <3>1, <3>5, <3>6, PlacesMove
    <2>2. CASE ~(~israw /\ ~partial /\ current # <<>>)
      <3>1. closed' = closed /\ current' = current /\ next' = next
        BY <2>2 DEF EndDecode
      <3>. QED  BY TablesAfter, <1>1, <1>2, <1>4, <3>1 DEF Places
    <2>. QED  BY <2>1, <2>2
  <1>6. Reading'
    <2>1. Sound(prot) /\ (prot.state = PAYLOAD => held = <<>> /\ ~ref)
      BY DEF RecvInv, Reading
    <2>2. <<>> \in Seq(Nat) /\ 0 \in 0 .. Len(<<>>)
      BY SMT
    <2>. QED  BY <1>1, <2>1, <2>2 DEF Reading
  <1>7. Control'
    BY SMT, <1>1 DEF Control, AfterRead
  <1>. QED  BY <1>4, <1>5, <1>6, <1>7 DEF RecvInv


LEMMA DecodeKeepsInv ==
  ASSUME RecvInv, Decode
  PROVE  RecvInv'
  <1>. DEFINE in == DropFirst(readbuf, off)
              d == decode_msg(prot, in)
              complete == d.prot.state = IDLE
              args == DropFirst(d.prot.data, HeaderSize)
              x == Fixup(args)
              H == Range(held)
              emptied == d.prot.alloc /\ ~ref
              K2 == IF d.prot.alloc /\ ref THEN kept \union H ELSE kept
              gone == IF emptied THEN H ELSE {}
  <1>1. /\ pc = "decode" /\ UNCHANGED peer /\ pos' = pos /\ readbuf' = readbuf /\ read_suspended' = read_suspended
        /\ prot' = d.prot /\ off' = off + d.used /\ kept' = K2 /\ ref' = (ref /\ ~d.prot.alloc)
        /\ held' = (IF complete THEN x.held ELSE IF d.prot.alloc THEN <<>> ELSE held)
        /\ closed' = Closing(closed, gone \union IF complete THEN x.left ELSE {})
    BY DEF Decode, socket, flags
  <1>2. pc' \in {"decode", "callback"}
    BY SMT, <1>1 DEF Decode
  <1>3. /\ complete => current' = x.current /\ next' = x.next
        /\ ~complete => current' = current /\ next' = next
    BY DEF Decode
  <1>4. Table(current) /\ Table(next) /\ Table(held) /\ (current = <<>> => next = <<>>)
        /\ Account(Range(current), Range(next), H, kept, closed, Received(pos))
    BY DEF RecvInv, Places
  <1>5. readbuf \in Seq(Nat) /\ off \in 0 .. Len(readbuf) /\ Sound(prot) /\ (prot.state = PAYLOAD => held = <<>> /\ ~ref)
    BY DEF RecvInv, Reading
  <1>6. in \in Seq(Nat) /\ Len(in) = Len(readbuf) - off
    BY <1>5, RestIs
  <1>. HIDE DEF in
  <1>7. Going(prot, Len(in), d)
    BY <1>5, <1>6, DecodeIs
  <1>. HIDE DEF d
  <1>8. /\ d.prot \in Decoder /\ Sound(d.prot) /\ d.used \in Nat /\ d.in \in Seq(Nat) /\ d.used + Len(d.in) = Len(in)
        /\ prot.state = PAYLOAD => ~d.prot.alloc /\ d.prot.state \in {PAYLOAD, IDLE}
        /\ prot.state # PAYLOAD => (d.prot.alloc <=> d.prot.state \in {PAYLOAD, IDLE})
    BY <1>7 DEF Going, Looping
  <1>9. ~d.prot.alloc /\ (complete \/ d.prot.state = PAYLOAD) => held = <<>> /\ ~ref
    BY <1>5, <1>8
  <1>10. Range(<<>>) = {} /\ Table(<<>>)
    BY EmptyTable
  <1>11. args \in Seq(Nat)
    <2>1. d.prot.data \in Seq(Nat)
      BY SMT, <1>8 DEF Decoder
    <2>. DEFINE b == d.prot.data
    <2>. HIDE DEF b
    <2>2. HeaderSize = 6
      BY SMT DEF HeaderSize, Magic
    <2>3. b \in Seq(Nat) => DropFirst(b, 6) \in Seq(Nat)
      BY SMT DEF DropFirst
    <2>. QED  BY <2>1, <2>2, <2>3 DEF b
  <1>. HIDE DEF args
  <1>12. PICK k \in 0 .. Len(current) : Walked(x, k)
    BY <1>4, <1>11, FixupIs
  <1>. HIDE DEF x
  <1>13. PeerIs' /\ Received(pos)' = Received(pos) /\ pos' \in Nat
    BY <1>1, PeerKept DEF RecvInv
  <1>14. Places'
    <2>1. CASE complete
      <3>1. K2 \cap gone = {} /\ K2 \cup gone = H \cup kept
        <4>1. H \cap kept = {}
          BY <1>4 DEF Account
        <4>2. ~d.prot.alloc => H = {} /\ ~ref
          BY <1>9, <1>10, <2>1
        <4>. HIDE DEF H, complete
        <4>. QED  BY <4>1, <4>2
      <3>. HIDE DEF K2, gone, H
      <3>2. /\ Table(x.current) /\ Table(x.next) /\ Table(x.held) /\ (x.current = <<>> => x.next = <<>>)
            /\ Account(Range(x.current), Range(x.next), Range(x.held), K2, Closing(closed, gone \cup x.left), Received(pos))
        BY <1>4, <1>12, <3>1, AccountFixup
      <3>3. current' = x.current /\ next' = x.next /\ held' = x.held /\ kept' = K2 /\ closed' = Closing(closed, gone \cup x.left)
        BY <1>1, <1>3, <2>1
      <3>. QED  BY TablesAfter, <1>13, <3>2, <3>3 DEF Places
    <2>2. CASE ~complete
      <3>. DEFINE C == Range(current)
                  N == Range(next)
      <3>1. current' = current /\ next' = next /\ closed' = Closing(closed, gone \cup {}) /\ kept' = K2
            /\ held' = IF d.prot.alloc THEN <<>> ELSE held
        BY <1>1, <1>3, <2>2
      <3>2. Table(current)' /\ Table(next)' /\ Table(held)' /\ (current = <<>> => next = <<>>)'
        <4>1. Table(current)' /\ Table(next)' /\ (current = <<>> => next = <<>>)'
          BY TablesAfter, <1>4, <3>1
        <4>2. CASE d.prot.alloc
          <5>1. held' = <<>>
            BY <3>1, <4>2
          <5>. QED  BY TablesAfter, <1>10, <4>1, <5>1
        <4>3. CASE ~d.prot.alloc
          <5>1. held' = held
            BY <3>1, <4>3
          <5>. QED  BY TablesAfter, <1>4, <4>1, <5>1
        <4>. QED  BY <4>2, <4>3
      <3>3. C \cap N = {} /\ C \cap H = {} /\ C \cap kept = {} /\ N \cap H = {} /\ N \cap kept = {} /\ H \cap kept = {}
        BY <1>4 DEF Account
      <3>4. Range(current)' = C /\ Range(next)' = N /\ Range(held)' = IF d.prot.alloc THEN {} ELSE H
        BY <1>10, <3>1
      <3>. HIDE DEF C, N, H, complete
      <3>5. Move(C \cup N \cup H \cup kept, C, N, IF d.prot.alloc THEN {} ELSE H, K2, gone \cup {}, {}, Received(pos))
        <4>1. CASE d.prot.alloc /\ ref
          BY <3>3, <4>1 DEF Move
        <4>2. CASE d.prot.alloc /\ ~ref
          BY <3>3, <4>2 DEF Move
        <4>3. CASE ~d.prot.alloc
          BY <3>3, <4>3 DEF Move
        <4>. QED  BY <4>1, <4>2, <4>3
      <3>6. Move(C \cup N \cup H \cup kept, Range(current)', Range(next)', Range(held)', kept', gone \cup {}, {}, Received(pos))
        <4>. HIDE DEF K2, gone
        <4>. QED  BY <3>1, <3>4, <3>5
      <3>. HIDE DEF gone
      <3>7. UNCHANGED peer /\ UNCHANGED pos /\ closed' = Closing(closed, gone \cup {})
        BY <1>1, <3>1
      <3>. QED  BY <3>2, <3>6, <3>7, PlacesMove DEF C, N, H
    <2>. QED  BY <2>1, <2>2
  <1>15. Reading'
    <2>1. off' \in 0 .. Len(readbuf)
      <3>. DEFINE l == Len(readbuf)
                  i == Len(in)
                  r == Len(d.in)
      <3>1. l \in Nat /\ off \in 0 .. l /\ i = l - off /\ r \in Nat /\ d.used \in Nat /\ d.used + r = i
        <4>1. l \in Nat /\ r \in Nat
          BY SMT, <1>5, <1>8
        <4>. QED  BY <1>5, <1>6, <1>8, <4>1
      <3>. HIDE DEF l, i, r
      <3>2. off + d.used \in 0 .. l
        BY SMT, <3>1
      <3>. QED  BY <1>1, <3>2 DEF l
    <2>2. prot'.state = PAYLOAD => held' = <<>> /\ ~ref'
      <3>1. PAYLOAD # IDLE
        BY SMT DEF PAYLOAD, IDLE
      <3>2. ASSUME d.prot.state = PAYLOAD PROVE held' = <<>> /\ ~ref'
        <4>1. ~complete
          BY <3>1, <3>2
        <4>2. held' = IF d.prot.alloc THEN <<>> ELSE held
          BY <1>1, <4>1
        <4>. QED  BY <1>1, <1>9, <3>2, <4>2
      <3>. QED  BY <1>1, <3>2
    <2>. QED  BY <1>1, <1>5, <1>8, <2>1, <2>2 DEF Reading
  <1>16. Control'
    BY SMT, <1>2 DEF Control
  <1>. QED  BY <1>13, <1>14, <1>15, <1>16 DEF RecvInv


\* A reference of the program on the message of the decoder: the descriptors stay where they are.
LEMMA KeepMessageKeeps ==
  ASSUME RecvInv, KeepMessage
  PROVE  RecvInv'
  <1>1. /\ UNCHANGED <<peer, pos, pc, readbuf, off, prot, current, next, held, kept, closed, read_suspended>>
        /\ held # <<>>
    BY DEF KeepMessage, peer, socket, decoding, flags
  <1>2. UNCHANGED peer
    BY DEF KeepMessage
  <1>3. PeerIs' /\ Received(pos)' = Received(pos)
    BY <1>1, <1>2, PeerKept DEF RecvInv
  <1>4. Places'
    BY TablesAfter, <1>1, <1>3 DEF RecvInv, Places
  <1>5. Reading'
    BY <1>1 DEF RecvInv, Reading
  <1>6. Control' /\ pos' \in Nat
    BY <1>1 DEF RecvInv, Control
  <1>. QED  BY <1>3, <1>4, <1>5, <1>6 DEF RecvInv

\* The program gives its references back: the descriptors of the other messages are closed.
LEMMA ReleaseMessagesKeeps ==
  ASSUME RecvInv, ReleaseMessages
  PROVE  RecvInv'
  <1>1. /\ UNCHANGED <<pos, pc, readbuf, off, prot, current, next, held, read_suspended>>
        /\ ~ref' /\ kept' = {} /\ closed' = Closing(closed, kept)
    BY DEF ReleaseMessages, peer, socket, decoding, flags
  <1>2. UNCHANGED peer /\ UNCHANGED pos
    BY <1>1 DEF ReleaseMessages
  <1>3. PeerIs'
    BY <1>2, PeerKept DEF RecvInv
  <1>4. Places'
    <2>. DEFINE C == Range(current)
                N == Range(next)
                H == Range(held)
    <2>1. Table(current)' /\ Table(next)' /\ Table(held)' /\ (current = <<>> => next = <<>>)'
      BY TablesAfter, <1>1 DEF RecvInv, Places
    <2>2. Account(C, N, H, kept, closed, Received(pos))
      BY DEF RecvInv, Places
    <2>3. Range(current)' = C /\ Range(next)' = N /\ Range(held)' = H
      BY <1>1
    <2>. HIDE DEF C, N, H
    <2>4. Move(C \cup N \cup H \cup kept, C, N, H, {}, kept, {}, Received(pos))
      BY <2>2 DEF Account, Move
    <2>5. Move(C \cup N \cup H \cup kept, Range(current)', Range(next)', Range(held)', kept', kept, {}, Received(pos))
      BY <1>1, <2>3, <2>4
    <2>. QED  BY <1>1, <1>2, <2>1, <2>5, PlacesMove DEF C, N, H
  <1>5. Reading'
    BY <1>1 DEF RecvInv, Reading
  <1>6. Control' /\ pos' \in Nat
    BY <1>1 DEF RecvInv, Control
  <1>. QED  BY <1>3, <1>4, <1>5, <1>6 DEF RecvInv

\* The connection is closed: what is in the tables is closed, and what is in the message of the
\* decoder is closed with it or stays with the program.
LEMMA CloseKeeps ==
  ASSUME RecvInv, pomp_conn_close
  PROVE  RecvInv'
  <1>. DEFINE C == Range(current)
              N == Range(next)
              H == Range(held)
              gone == C \union N \union IF ref THEN {} ELSE H
              K2 == IF ref THEN kept \union H ELSE kept
  <1>1. /\ UNCHANGED <<pos, readbuf, off, prot, read_suspended>>
        /\ ~ref' /\ kept' = K2 /\ closed' = Closing(closed, gone)
        /\ current' = <<>> /\ next' = <<>> /\ held' = <<>> /\ pc' = "removed"
    BY DEF pomp_conn_close, peer, socket, decoding, flags
  <1>2. UNCHANGED peer /\ UNCHANGED pos
    BY <1>1 DEF pomp_conn_close
  <1>3. PeerIs'
    BY <1>2, PeerKept DEF RecvInv
  <1>4. Places'
    <2>1. Table(<<>>) /\ Range(<<>>) = {}
      BY EmptyTable
    <2>2. Table(current)' /\ Table(next)' /\ Table(held)' /\ (current = <<>> => next = <<>>)'
      BY TablesAfter, <1>1, <2>1
    <2>3. Account(C, N, H, kept, closed, Received(pos))
      BY DEF RecvInv, Places
    <2>4. Range(current)' = {} /\ Range(next)' = {} /\ Range(held)' = {}
      BY <1>1, <2>1
    <2>. HIDE DEF C, N, H
    <2>5. Move(C \cup N \cup H \cup kept, {}, {}, {}, K2, gone, {}, Received(pos))
      <3>1. CASE ref
        BY <2>3, <3>1 DEF Account, Move
      <3>2. CASE ~ref
        BY <2>3, <3>2 DEF Account, Move
      <3>. QED  BY <3>1, <3>2
    <2>. HIDE DEF K2, gone
    <2>6. Move(C \cup N \cup H \cup kept, Range(current)', Range(next)', Range(held)', kept', gone, {}, Received(pos))
      BY <1>1, <2>4, <2>5
    <2>. QED  BY <1>1, <1>2, <2>2, <2>6, PlacesMove DEF C, N, H
  <1>5. Reading'
    BY <1>1 DEF RecvInv, Reading
  <1>6. Control' /\ pos' \in Nat
    BY SMT, <1>1 DEF RecvInv, Control
  <1>. QED  BY <1>3, <1>4, <1>5, <1>6 DEF RecvInv

LEMMA RecvStep == RecvInv /\ [Next]_vars => RecvInv'
  <1>. SUFFICES ASSUME RecvInv, [Next]_vars PROVE RecvInv'
    BY SMT
  <1>c. Control
    BY SMT DEF RecvInv
  <1>1. CASE Readable
    <2>1. UNCHANGED <<peer, pos, decoding, fds>>
      BY <1>1 DEF Readable, socket
    <2>2. Control'
      BY SMT, <1>1 DEF Readable, Control, flags
    <2>. QED  BY <2>1, <2>2, QuietStep
  <1>2. ASSUME NEW n \in 1 .. ReadLen, Recv(n) PROVE RecvInv'
    BY <1>2, RecvKeeps
  <1>3. ASSUME NEW m \in DOMAIN sent, RecvDgram(m) PROVE RecvInv'
    BY <1>3, RecvDgramKeeps
  <1>4. CASE WouldBlock
    <2>1. UNCHANGED <<peer, pos, decoding, fds>>
      BY <1>4 DEF WouldBlock, socket
    <2>2. Control'
      BY SMT, <1>4 DEF WouldBlock, Control
    <2>. QED  BY <2>1, <2>2, QuietStep
  <1>5. CASE Eof
    <2>1. UNCHANGED <<peer, pos, decoding, fds>>
      BY <1>5 DEF Eof, socket
    <2>2. Control'
      BY SMT, <1>5 DEF Eof, Control
    <2>. QED  BY <2>1, <2>2, QuietStep
  <1>6. CASE Decode
    BY <1>6, DecodeKeepsInv
  <1>7. CASE NotifyRaw
    BY <1>7, NotifyRawKeeps
  <1>8. CASE EndDecode
    BY <1>8, EndDecodeKeeps
  <1>9. CASE CallbackReturn
    <2>1. UNCHANGED <<peer, pos, decoding, fds>>
      BY <1>9 DEF CallbackReturn, socket
    <2>2. Control'
      BY SMT, <1>9 DEF CallbackReturn, Control
    <2>. QED  BY <2>1, <2>2, QuietStep
  <1>10. CASE KeepMessage
    BY <1>10, KeepMessageKeeps
  <1>11. CASE ReleaseMessages
    BY <1>11, ReleaseMessagesKeeps
  <1>12. CASE pomp_conn_suspend_read \/ pomp_conn_resume_read
    <2>1. UNCHANGED <<peer, pos, decoding, fds>>
      BY <1>12 DEF pomp_conn_suspend_read, pomp_conn_resume_read, socket
    <2>2. pc' = pc /\ pc \in {"idle", "callback"}
      BY <1>12 DEF pomp_conn_suspend_read, pomp_conn_resume_read
    <2>3. Control'
      BY SMT, <2>2 DEF Control
    <2>. QED  BY <2>1, <2>3, QuietStep
  <1>13. CASE pomp_conn_close
    BY <1>13, CloseKeeps
  <1>14. CASE UNCHANGED vars
    <2>1. UNCHANGED <<peer, pos, decoding, fds>> /\ UNCHANGED <<pc, read_suspended>>
      BY <1>14 DEF vars, socket, flags
    <2>2. Control'
      BY <1>c, <2>1 DEF Control
    <2>. QED  BY <2>1, <2>2, QuietStep
  <1>. QED
    BY <1>1, <1>2, <1>3, <1>4, <1>5, <1>6, <1>7, <1>8, <1>9, <1>10, <1>11, <1>12, <1>13, <1>14
       DEF Next, ReadStep


(***************************************************************************)
(* The decoder on the bytes of a message                                    *)
(***************************************************************************)
IsMessage(B) == B \in Seq(Nat) /\ Len(B) \in Nat /\ Len(B) >= 6 /\ B[6] = Len(B) /\ \A i \in 1 .. 4 : B[i] = Magic[i]

\* s are the first k bytes of B.
Begins(s, B, k) == s \in Seq(Nat) /\ Len(s) = k /\ \A i \in 1 .. k : s[i] = B[i]

\* The bytes in come after the first k of B, and may go on after the end of B.
Agrees(in, B, k) == in \in Seq(Nat) /\ \A i \in 1 .. Len(in) : k + i <= Len(B) => in[i] = B[k + i]

\* The decoder in the loop, after the first k bytes of B and before its end
At(p, B, k) ==
    /\ Sound(p) /\ k \in 0 .. Len(B) - 1
    /\ k = 0 => p.state = MAGIC_0
    /\ k \in 1 .. 4 => p.state = k + 1 /\ Begins(p.headerbuf, B, k)
    /\ k = 5 => p.state = HEADER /\ Begins(p.headerbuf, B, k)
    /\ k >= 6 => p.state = PAYLOAD /\ p.size = Len(B) /\ Begins(p.headerbuf, B, 6) /\ Begins(p.data, B, k)

\* The decoder at the end of B
Done(p, B) == Sound(p) /\ p.state = IDLE /\ Begins(p.headerbuf, B, 6) /\ Begins(p.data, B, Len(B))

Passed(p, B, k) == At(p, B, k) \/ (k = Len(B) /\ Done(p, B))

LEMMA JoinBegins ==
  ASSUME NEW B \in Seq(Nat), NEW k \in Nat, NEW s, Begins(s, B, k), NEW in, Agrees(in, B, k),
         NEW n \in 0 .. Len(in), k + n <= Len(B)
  PROVE  Begins(Joined(s, in, n), B, k + n)
  <1>. DEFINE b == SubSeq(in, 1, n)
              u == Joined(s, in, n)
  <1>1. s \in Seq(Nat) /\ Len(s) = k /\ in \in Seq(Nat) /\ Len(in) \in Nat /\ n \in Nat /\ n <= Len(in)
    BY SMT DEF Begins, Agrees
  <1>2. b \in Seq(Nat) /\ Len(b) = n /\ \A i \in 1 .. n : b[i] = in[i]
    BY SMT, <1>1
  <1>3. u = s \o b
    BY DEF Joined
  <1>. HIDE DEF b, u
  <1>4. u \in Seq(Nat) /\ Len(u) = k + n /\ (\A i \in 1 .. k : u[i] = s[i]) /\ \A i \in 1 .. n : u[k + i] = b[i]
    <2>1. u \in Seq(Nat) /\ Concat(u, s, b)
      BY <1>1, <1>2, <1>3, ConcatIs
    <2>. QED  BY <1>1, <1>2, <2>1 DEF Concat
  <1>5. ASSUME NEW i \in 1 .. k + n PROVE u[i] = B[i]
    <2>1. CASE i <= k
      <3>1. i \in 1 .. k
        BY SMT, <2>1
      <3>. QED  BY <1>4, <3>1 DEF Begins
    <2>2. CASE ~(i <= k)
      <3>. DEFINE l == Len(B)
      <3>1. l \in Nat
        BY SMT
      <3>. HIDE DEF l
      <3>2. i - k \in 1 .. n /\ i - k \in 1 .. Len(in) /\ k + (i - k) = i
        BY SMT, <1>1, <2>2
      <3>3. k + n <= l => k + (i - k) <= l
        BY SMT, <3>1, <2>2
      <3>4. u[i] = in[i - k]
        BY <1>2, <1>4, <3>2
      <3>5. in[i - k] = B[k + (i - k)]
        BY <3>2, <3>3 DEF Agrees, l
      <3>. QED  BY <3>2, <3>4, <3>5
    <2>. QED  BY <2>1, <2>2
  <1>. QED  BY <1>4, <1>5 DEF Begins, u

\* A turn in the search for the magic: the next byte is the next one of the magic.
LEMMA MagicAt ==
  ASSUME NEW B, IsMessage(B), NEW p, NEW k \in 0 .. 3, At(p, B, k), NEW in, Agrees(in, B, k), in # <<>>
  PROVE  LET t == Turn(p, in) IN t.used = 1 /\ At(t.prot, B, k + 1)
  <1>. DEFINE t == Turn(p, in)
              o == IF p.state = MAGIC_0 THEN <<>> ELSE p.headerbuf
              h == Append(o, in[1])
  <1>1. Sound(p) /\ p.state = k + 1 /\ p.state \in MAGIC_0 .. HEADER - 1 /\ in \in Seq(Nat)
    BY SMT DEF At, Agrees, MAGIC_0, HEADER
  <1>l. Len(B) \in Nat /\ Len(B) >= 6
    BY DEF IsMessage
  <1>2. MagicTurned(p, in, t)
    BY <1>1, MagicTurn
  <1>3. Sound(t.prot)
    BY SMT, <1>1, TurnKeeps DEF MAGIC_0, IDLE
  <1>. HIDE DEF t
  <1>4. PICK z \in Nat, d \in Seq(Nat) :
           Fields(t.prot, IF in[1] # Magic[p.state] THEN MAGIC_0 ELSE p.state + 1, h, z, d, p.alloc)
    BY <1>2 DEF MagicTurned
  <1>5. in[1] = B[k + 1] /\ B[k + 1] = Magic[p.state] /\ in[1] \in Nat
    <2>1. 1 \in 1 .. Len(in) /\ k + 1 \in 1 .. 4
      BY SMT, <1>1
    <2>2. k + 1 <= Len(B)
      BY SMT, <1>l
    <2>. QED  BY <1>1, <2>1, <2>2, ElementIs DEF IsMessage, Agrees
  <1>6. o \in Seq(Nat) /\ Len(o) = k /\ \A i \in 1 .. k : o[i] = B[i]
    <2>1. CASE k = 0
      BY SMT, <1>1, <2>1 DEF MAGIC_0
    <2>2. CASE k # 0
      <3>1. k \in 1 .. 4 /\ o = p.headerbuf
        BY SMT, <1>1, <2>2 DEF MAGIC_0
      <3>. QED  BY <3>1 DEF At, Begins
    <2>. QED  BY <2>1, <2>2
  <1>. HIDE DEF o
  <1>7. Begins(h, B, k + 1)
    <2>1. h \in Seq(Nat) /\ Len(h) = k + 1 /\ \A i \in 1 .. k + 1 : h[i] = IF i = k + 1 THEN in[1] ELSE o[i]
      BY SMT, <1>5, <1>6
    <2>2. \A i \in 1 .. k + 1 : i = k + 1 \/ i \in 1 .. k
      BY SMT
    <2>. HIDE DEF h
    <2>. QED  BY <1>5, <1>6, <2>1, <2>2 DEF Begins
  <1>. HIDE DEF h
  <1>8. t.prot.state = p.state + 1 /\ t.prot.headerbuf = h
    BY <1>4, <1>5 DEF Fields
  <1>9. k + 1 \in 0 .. Len(B) - 1 /\ k + 1 \in 1 .. 4 /\ ~(k + 1 = 0) /\ ~(k + 1 = 5) /\ ~(k + 1 >= 6)
    BY SMT, <1>l
  <1>10. At(t.prot, B, k + 1)
    BY <1>1, <1>3, <1>7, <1>8, <1>9 DEF At
  <1>11. t.used = 1
    BY <1>2 DEF MagicTurned
  <1>. QED  BY <1>10, <1>11 DEF t

\* A turn in the header, up to its end if all of it is there
LEMMA HeaderAt ==
  ASSUME NEW B, IsMessage(B), NEW p, NEW k \in 4 .. 5, At(p, B, k), NEW in, Agrees(in, B, k), in # <<>>
  PROVE  LET t == Turn(p, in) IN Passed(t.prot, B, k + t.used)
  <1>. DEFINE t == Turn(p, in)
              n == Smaller(Len(in), 6 - Len(p.headerbuf))
              h == Joined(p.headerbuf, in, n)
  <1>1. Sound(p) /\ p.state = HEADER /\ in \in Seq(Nat) /\ Begins(p.headerbuf, B, k) /\ Len(p.headerbuf) = k
    BY SMT DEF At, Agrees, HEADER, Begins
  <1>l. Len(B) \in Nat /\ Len(B) >= 6
    BY DEF IsMessage
  <1>2. HeaderTurned(p, in, t)
    BY <1>1, HeaderTurn
  <1>3. Sound(t.prot)
    BY SMT, <1>1, TurnKeeps DEF HEADER, IDLE
  <1>. HIDE DEF t
  <1>4. /\ n \in 1 .. Len(in) /\ t.used = n
        /\ Len(h) = k + n /\ Len(h) <= 6
        /\ Len(h) # 6 => Fields(t.prot, HEADER, h, p.size, p.data, p.alloc)
        /\ Len(h) = 6 /\ h[6] >= 6 => Fields(t.prot, IF h[6] = 6 THEN IDLE ELSE PAYLOAD, h, h[6], h, TRUE)
    BY <1>1, <1>2 DEF HeaderTurned
  <1>. HIDE DEF n
  <1>5. n \in 0 .. Len(in) /\ n \in Nat /\ k + n <= 6 /\ k + n <= Len(B) /\ k \in Nat /\ k + n \in 5 .. 6
    <2>. DEFINE i == Len(in)
                l == Len(h)
    <2>1. i \in Nat /\ n \in 1 .. i /\ l = k + n /\ l <= 6 /\ k \in 4 .. 5
      <3>1. i \in Nat
        BY SMT, <1>1
      <3>. QED  BY <1>4, <3>1
    <2>. HIDE DEF i, l
    <2>. QED  BY SMT, <1>l, <2>1 DEF i
  <1>6. Begins(h, B, k + n)
    BY <1>1, <1>5, JoinBegins DEF IsMessage
  <1>. HIDE DEF h
  <1>7. CASE k + n = 5
    <2>1. t.prot.state = HEADER /\ t.prot.headerbuf = h
      <3>1. Len(h) # 6
        BY SMT, <1>4, <1>7
      <3>. QED  BY <1>4, <3>1 DEF Fields
    <2>2. k + n \in 0 .. Len(B) - 1 /\ k + n # 0 /\ k + n \notin 1 .. 4 /\ ~(k + n >= 6)
      BY SMT, <1>7, <1>l
    <2>. QED  BY <1>3, <1>4, <1>6, <2>1, <2>2 DEF At, Passed, t
  <1>8. CASE k + n = 6
    <2>1. Len(h) = 6 /\ h[6] = Len(B) /\ Len(B) \in Nat /\ Len(B) >= 6
      <3>1. 6 \in 1 .. k + n
        BY SMT, <1>8
      <3>. QED  BY <1>4, <1>6, <1>8, <3>1 DEF Begins, IsMessage
    <2>2. t.prot.state = (IF Len(B) = 6 THEN IDLE ELSE PAYLOAD) /\ t.prot.headerbuf = h /\ t.prot.size = Len(B) /\ t.prot.data = h
      BY <1>4, <2>1 DEF Fields
    <2>3. Begins(h, B, 6)
      BY <1>6, <1>8
    <2>4. CASE Len(B) = 6
      BY <1>3, <1>4, <1>8, <2>2, <2>3, <2>4 DEF Passed, Done, t
    <2>5. CASE Len(B) # 6
      <3>1. 6 \in 0 .. Len(B) - 1 /\ 6 # 0 /\ 6 \notin 1 .. 4 /\ 6 # 5
        BY SMT, <2>1, <2>5
      <3>. QED  BY <1>3, <1>4, <1>8, <2>2, <2>3, <2>5, <3>1 DEF Passed, At, t
    <2>. QED  BY <2>4, <2>5
  <1>9. k + n = 5 \/ k + n = 6
    BY SMT, <1>5
  <1>. QED  BY <1>7, <1>8, <1>9


\* A turn in the arguments
LEMMA PayloadAt ==
  ASSUME NEW B, IsMessage(B), NEW p, NEW k \in Nat, k >= 6, At(p, B, k), NEW in, Agrees(in, B, k), in # <<>>
  PROVE  LET t == Turn(p, in) IN Passed(t.prot, B, k + t.used)
  <1>. DEFINE t == Turn(p, in)
              L == Len(B)
              n == Smaller(Len(in), p.size - Len(p.data))
              d == Joined(p.data, in, n)
  <1>1. /\ Sound(p) /\ p.state = PAYLOAD /\ in \in Seq(Nat) /\ p.size = L
        /\ Begins(p.headerbuf, B, 6) /\ Begins(p.data, B, k) /\ Len(p.data) = k /\ k \in 0 .. L - 1
    BY DEF At, Agrees, Begins
  <1>l. L \in Nat /\ B \in Seq(Nat)
    BY DEF IsMessage
  <1>2. PayloadTurned(p, in, t)
    BY <1>1, PayloadTurn
  <1>3. Sound(t.prot)
    <2>1. p.state # IDLE
      BY SMT, <1>1 DEF PAYLOAD, IDLE
    <2>. QED  BY <1>1, <2>1, TurnKeeps
  <1>. HIDE DEF t
  <1>4. /\ n \in 1 .. Len(in) /\ t.used = n
        /\ Fields(t.prot, IF k + n = L THEN IDLE ELSE PAYLOAD, p.headerbuf, p.size, d, p.alloc)
    BY <1>1, <1>2 DEF PayloadTurned
  <1>5. n \in 0 .. Len(in) /\ k + n <= L /\ k + n >= 6 /\ k + n \in Nat
    <2>. DEFINE i == Len(in)
    <2>1. i \in Nat /\ n = (IF i < L - k THEN i ELSE L - k) /\ n \in 1 .. i
      <3>1. i \in Nat
        BY SMT, <1>1
      <3>. QED  BY <1>1, <1>4, <3>1 DEF Smaller
    <2>. HIDE DEF i, L, n
    <2>2. n \in 0 .. i /\ k + n <= L /\ k + n >= 6 /\ k + n \in Nat
      BY SMT, <1>1, <1>l, <2>1
    <2>. QED  BY <2>2 DEF i
  <1>. HIDE DEF n
  <1>6. Begins(d, B, k + n)
    BY <1>1, <1>5, <1>l, JoinBegins
  <1>. HIDE DEF d
  <1>7. t.prot.state = (IF k + n = L THEN IDLE ELSE PAYLOAD) /\ t.prot.headerbuf = p.headerbuf
        /\ t.prot.size = L /\ t.prot.data = d
    BY <1>1, <1>4 DEF Fields
  <1>8. CASE k + n = L
    BY <1>1, <1>3, <1>4, <1>6, <1>7, <1>8 DEF Passed, Done, t
  <1>9. CASE k + n # L
    <2>1. k + n \in 0 .. L - 1 /\ k + n # 0 /\ k + n \notin 1 .. 4 /\ k + n # 5
      <3>. HIDE DEF L
      <3>. QED  BY SMT, <1>5, <1>l, <1>9
    <2>. QED  BY <1>1, <1>3, <1>4, <1>5, <1>6, <1>7, <1>9, <2>1 DEF Passed, At, t
  <1>. QED  BY <1>8, <1>9

LEMMA TurnAt ==
  ASSUME NEW B, IsMessage(B), NEW p, NEW k \in Nat, At(p, B, k), NEW in, Agrees(in, B, k), in # <<>>
  PROVE  LET t == Turn(p, in) IN Passed(t.prot, B, k + t.used)
  <1>1. CASE k \in 0 .. 3
    BY <1>1, MagicAt DEF Passed
  <1>2. CASE k \in 4 .. 5
    BY <1>2, HeaderAt
  <1>3. CASE k >= 6
    BY <1>3, PayloadAt
  <1>. QED  BY SMT, <1>1, <1>2, <1>3

\* The decoder before the first byte of a message, or in a message
Fresh(p) == Sound(p) /\ p.state \in {IDLE, MAGIC_0}
Ready(p, B, k) == At(p, B, k) \/ (k = 0 /\ Fresh(p))

\* The decoder in the call of pomp_prot_decode_msg that began with N bytes, the first k of B decoded
Inside(x, B, k, N) ==
    /\ x \in Looping /\ x.used + Len(x.in) = N
    /\ Passed(x.prot, B, k + x.used) /\ Agrees(x.in, B, k + x.used)

LEMMA TurnInside ==
  ASSUME NEW B, IsMessage(B), NEW k \in Nat, NEW N \in Nat, NEW x, Inside(x, B, k, N)
  PROVE  Inside(LoopTurn[x], B, k, N)
  <1>. DEFINE t == Turn(x.prot, x.in)
              y == LoopTurn[x]
              rest == DropFirst(x.in, t.used)
              K == k + x.used
  <1>0. x \in Looping /\ x.prot \in Decoder /\ x.in \in Seq(Nat) /\ x.used \in Nat
    BY SMT DEF Inside, Looping
  <1>1. CASE x.in = <<>> \/ x.prot.state = IDLE
    BY <1>0, <1>1, LoopTurnIs
  <1>2. CASE ~(x.in = <<>> \/ x.prot.state = IDLE)
    <2>1. At(x.prot, B, K) /\ Agrees(x.in, B, K)
      BY <1>2 DEF Inside, Passed, Done
    <2>2. K \in Nat
      BY SMT, <1>0
    <2>3. Passed(t.prot, B, K + t.used)
      BY <1>2, <2>1, <2>2, TurnAt
    <2>4. Sound(t.prot) /\ t.used \in 1 .. Len(x.in)
      BY <1>0, <1>2, <2>1, TurnKeeps DEF At
    <2>5. y = [prot |-> t.prot, in |-> rest, used |-> x.used + t.used]
      BY <1>0, <1>2, LoopTurnIs
    <2>. HIDE DEF t, y
    <2>. DEFINE i == Len(x.in)
                u == t.used
    <2>6. i \in Nat /\ u \in 1 .. i /\ x.used + i = N
      <3>1. i \in Nat
        BY SMT, <1>0
      <3>. QED  BY <2>4, <3>1 DEF Inside
    <2>. HIDE DEF i, u
    <2>7. u \in 0 .. i /\ x.used + u \in Nat /\ (x.used + u) + (i - u) = N /\ K + u = k + (x.used + u)
      BY SMT, <1>0, <2>6
    <2>8. rest \in Seq(Nat) /\ Len(rest) = i - u /\ \A j \in 1 .. i - u : rest[j] = x.in[j + u]
      BY <1>0, <2>7, RestIs DEF i, u
    <2>9. y.prot = t.prot /\ y.in = rest /\ y.used = x.used + u
      <3>. HIDE DEF rest
      <3>. QED  BY SMT, <2>5 DEF u
    <2>. HIDE DEF rest, K
    <2>10. ASSUME NEW j \in 1 .. i - u, (K + u) + j <= Len(B) PROVE rest[j] = B[(K + u) + j]
      <3>1. j + u \in 1 .. i /\ (K + u) + j = K + (j + u)
        BY SMT, <2>2, <2>6
      <3>2. x.in[j + u] = B[K + (j + u)]
        BY <2>1, <2>10, <3>1 DEF Agrees, i
      <3>. QED  BY <2>8, <3>1, <3>2
    <2>11. Agrees(rest, B, K + u)
      BY <2>8, <2>10 DEF Agrees
    <2>12. y \in Looping
      <3>1. t.prot \in Decoder
        BY <2>4 DEF Sound
      <3>. QED  BY <2>5, <2>7, <2>8, <3>1 DEF Looping, u
    <2>13. y.used + Len(y.in) = N
      BY <2>7, <2>8, <2>9
    <2>14. Passed(y.prot, B, k + y.used) /\ Agrees(y.in, B, k + y.used)
      BY <2>3, <2>7, <2>9, <2>11 DEF u
    <2>. QED  BY <2>12, <2>13, <2>14 DEF Inside, y
  <1>. QED  BY <1>1, <1>2

\* A call of pomp_prot_decode_msg on bytes of a message goes on in it, and stops at its end.
LEMMA DecodeInside ==
  ASSUME NEW B, IsMessage(B), NEW k \in Nat, NEW p, Ready(p, B, k), NEW in, Agrees(in, B, k)
  PROVE  Inside(decode_msg(p, in), B, k, Len(in))
  <1>. DEFINE N == Len(in)
              S == {x \in Looping : Inside(x, B, k, N)}
              q == [p EXCEPT !.state = IF @ = IDLE THEN MAGIC_0 ELSE @, !.alloc = FALSE]
              x0 == Start(p, in)
  <1>0. in \in Seq(Nat) /\ N \in Nat /\ Sound(p) /\ p \in Decoder
    BY SMT DEF Agrees, Ready, Fresh, At, Sound
  <1>1. Fields(q, IF p.state = IDLE THEN MAGIC_0 ELSE p.state, p.headerbuf, p.size, p.data, FALSE)
    BY <1>0, AssignedTogether
  <1>2. x0 = [prot |-> q, in |-> in, used |-> 0]
    BY DEF Start
  <1>. HIDE DEF q, x0
  <1>3. x0.prot = q /\ x0.in = in /\ x0.used = 0
    BY SMT, <1>2
  <1>4. q \in Decoder /\ q.state = (IF p.state = IDLE THEN MAGIC_0 ELSE p.state) /\ q.headerbuf = p.headerbuf
        /\ q.size = p.size /\ q.data = p.data
    BY <1>1 DEF Fields
  <1>5. Sound(q)
    BY SMT, <1>0, <1>4 DEF Sound, MAGIC_0, IDLE, HEADER, PAYLOAD
  <1>6. At(q, B, k)
    <2>1. CASE At(p, B, k)
      <3>1. p.state # IDLE
        BY SMT, <2>1 DEF At, IDLE, MAGIC_0, HEADER, PAYLOAD
      <3>. QED  BY <1>4, <1>5, <2>1, <3>1 DEF At
    <2>2. CASE k = 0 /\ Fresh(p)
      <3>1. q.state = MAGIC_0
        BY <1>4, <2>2 DEF Fresh
      <3>2. 0 \in 0 .. Len(B) - 1 /\ 0 \notin 1 .. 4 /\ 0 # 5 /\ ~(0 >= 6)
        <4>1. Len(B) \in Nat /\ Len(B) >= 6
          BY DEF IsMessage
        <4>. QED  BY SMT, <4>1
      <3>. QED  BY <1>5, <2>2, <3>1, <3>2 DEF At
    <2>. QED  BY <2>1, <2>2 DEF Ready
  <1>7. x0 \in S
    <2>1. k + 0 = k /\ 0 + N = N /\ 0 \in Nat
      BY SMT, <1>0
    <2>2. x0 \in Looping
      BY <1>0, <1>2, <1>4, <2>1 DEF Looping
    <2>3. Inside(x0, B, k, N)
      BY <1>3, <1>6, <2>1, <2>2 DEF Inside, Passed
    <2>. QED  BY <2>2, <2>3
  <1>8. ASSUME NEW x \in S PROVE LoopTurn[x] \in S
    <2>1. Inside(LoopTurn[x], B, k, N)
      BY <1>0, TurnInside
    <2>. QED  BY <2>1 DEF Inside
  <1>9. S \in SUBSET Looping
    OBVIOUS
  <1>10. decode_msg(p, in) \in S
    <2>. HIDE DEF S
    <2>. QED  BY <1>0, <1>7, <1>8, <1>9, DecodeKeeps DEF x0
  <1>. QED  BY <1>10


(***************************************************************************)
(* The decoder on the stream                                                *)
(***************************************************************************)
\* The stream up to message m is the start of every longer one.
LEMMA UpToBegins ==
  ASSUME PeerIs, NEW m \in 0 .. Len(sent)
  PROVE  \A i \in 1 .. End(m) : Stream[i] = UpTo[m][i]
  <1>. DEFINE N == Len(sent)
              Same(n) == \A i \in 1 .. End(m) : UpTo[m + n][i] = UpTo[m][i]
              P == {n \in Nat : m + n <= N => Same(n)}
  <1>0. N \in Nat /\ m \in Nat /\ m <= N
    BY SMT, SentIs
  <1>. HIDE DEF N
  <1>1. 0 \in P
    <2>1. m + 0 = m /\ 0 \in Nat
      BY SMT, <1>0
    <2>. QED  BY <2>1
  <1>2. ASSUME NEW n \in Nat, n \in P PROVE n + 1 \in P
    <2>. SUFFICES ASSUME m + (n + 1) <= N PROVE Same(n + 1)
      BY SMT
    <2>1. m + n <= N /\ m + (n + 1) \in 1 .. N /\ (m + (n + 1)) - 1 = m + n /\ m + n \in 0 .. N /\ m <= m + n
      BY SMT, <1>0
    <2>2. Same(n)
      BY <1>2, <2>1
    <2>3. UpTo[m + (n + 1)] = UpTo[m + n] \o Bytes(m + (n + 1))
      BY <2>1, UpToIs DEF N
    <2>4. UpTo[m + n] \in Seq(Nat) /\ Bytes(m + (n + 1)) \in Seq(Nat)
      BY <2>1, UpToIs, BytesAre DEF N
    <2>5. Concat(UpTo[m + (n + 1)], UpTo[m + n], Bytes(m + (n + 1)))
      BY <2>3, <2>4, ConcatIs
    <2>6. \A i \in 1 .. End(m + n) : UpTo[m + (n + 1)][i] = UpTo[m + n][i]
      BY <2>5 DEF Concat, End
    <2>7. 1 .. End(m) \subseteq 1 .. End(m + n)
      <3>1. End(m) <= End(m + n) /\ End(m) \in Nat /\ End(m + n) \in Nat
        BY <2>1, EndGrows, EndIs DEF N
      <3>. QED  BY SMT, <3>1
    <2>. QED  BY <2>2, <2>6, <2>7
  <1>3. Nat \subseteq P
    <2>. HIDE DEF P
    <2>. QED  BY <1>1, <1>2, Induction
  <1>4. N - m \in Nat /\ m + (N - m) = N /\ N <= N
    BY SMT, <1>0
  <1>. QED  BY <1>3, <1>4 DEF Stream, N

\* The bytes of message m in the stream
LEMMA StreamBytes ==
  ASSUME PeerIs, NEW m \in 1 .. Len(sent), NEW j \in 1 .. Len(Bytes(m))
  PROVE  Stream[End(m - 1) + j] = Bytes(m)[j]
  <1>1. m \in 0 .. Len(sent) /\ m - 1 \in 0 .. Len(sent)
    BY SMT, SentIs
  <1>2. UpTo[m] = UpTo[m - 1] \o Bytes(m) /\ UpTo[m - 1] \in Seq(Nat) /\ Bytes(m) \in Seq(Nat)
    BY <1>1, UpToIs, BytesAre
  <1>3. Concat(UpTo[m], UpTo[m - 1], Bytes(m))
    BY <1>2, ConcatIs
  <1>4. UpTo[m][End(m - 1) + j] = Bytes(m)[j]
    BY <1>3 DEF Concat, End
  <1>5. End(m - 1) + j \in 1 .. End(m)
    <2>. DEFINE a == End(m - 1)
                b == End(m)
                l == Len(Bytes(m))
    <2>1. a \in Nat /\ b = a + l
      BY <1>1, EndIs
    <2>2. l \in Nat /\ j \in 1 .. l
      <3>1. l \in Nat
        BY SMT, <1>2
      <3>. QED  BY <3>1
    <2>. HIDE DEF a, b, l
    <2>3. a + j \in 1 .. b
      BY SMT, <2>1, <2>2
    <2>. QED  BY <2>3 DEF a, b
  <1>. QED  BY <1>1, <1>4, <1>5, UpToBegins

\* The bytes of a message are a message for the decoder.
LEMMA MessageIs ==
  ASSUME PeerIs, NEW m \in 1 .. Len(sent)
  PROVE  IsMessage(Bytes(m))
  <1>1. Bytes(m) \in Seq(Nat) /\ Len(Bytes(m)) >= 6
    BY BytesAre
  <1>2. Len(Bytes(m)) \in Nat
    BY SMT, <1>1
  <1>. QED  BY <1>1, <1>2, BytesAre DEF IsMessage

\* The message object at the end of message m: its id and its arguments
LEMMA CompleteIs ==
  ASSUME PeerIs, NEW m \in 1 .. Len(sent), NEW p, Done(p, Bytes(m))
  PROVE  p.headerbuf[Len(Magic) + 1] = m /\ DropFirst(p.data, HeaderSize) = sent[m].args
  <1>. DEFINE B == Bytes(m)
              a == sent[m].args
              b == p.data
              r == DropFirst(b, 6)
  <1>1. HeaderSize = 6 /\ Len(Magic) + 1 = 5 /\ 5 \in 1 .. 6
    BY SMT DEF HeaderSize, Magic
  <1>2. /\ B[5] = m /\ Len(B) = 6 + Len(a) /\ \A i \in 1 .. Len(a) : B[6 + i] = a[i]
    BY BytesAre
  <1>3. a \in Seq(Nat)
    BY SentIs
  <1>4. b \in Seq(Nat) /\ Len(b) = Len(B) /\ \A i \in 1 .. Len(B) : b[i] = B[i]
    BY DEF Done, Begins
  <1>5. p.headerbuf[5] = B[5]
    BY <1>1 DEF Done, Begins
  <1>. DEFINE n == Len(a)
  <1>6. n \in Nat /\ Len(b) = 6 + n
    <2>1. n \in Nat
      BY SMT, <1>3
    <2>. QED  BY <1>2, <1>4, <2>1
  <1>. HIDE DEF B, b, a
  <1>7. 6 \in 0 .. Len(b) /\ Len(b) - 6 = n
    <2>. HIDE DEF n
    <2>. QED  BY SMT, <1>6
  <1>8. r \in Seq(Nat) /\ Len(r) = n /\ \A i \in 1 .. n : r[i] = b[i + 6]
    <2>1. r \in Seq(Nat) /\ Len(r) = Len(b) - 6 /\ \A i \in 1 .. Len(b) - 6 : r[i] = b[i + 6]
      BY <1>4, <1>7, RestIs
    <2>. HIDE DEF r, n
    <2>. QED  BY <1>7, <2>1
  <1>9. \A i \in 1 .. n : r[i] = a[i]
    <2>. TAKE i \in 1 .. n
    <2>1. i + 6 = 6 + i /\ 6 + i \in 1 .. 6 + n
      <3>. HIDE DEF n
      <3>. QED  BY SMT, <1>6
    <2>. QED  BY <1>2, <1>4, <1>8, <2>1
  <1>10. r = a
    <2>. HIDE DEF r
    <2>1. r \in [1 .. n -> Nat]
      BY SMT, <1>8
    <2>2. a \in [1 .. n -> Nat]
      BY SMT, <1>3
    <2>. HIDE DEF n
    <2>3. r = [i \in 1 .. n |-> r[i]] /\ a = [i \in 1 .. n |-> a[i]]
      BY <2>1, <2>2
    <2>4. [i \in 1 .. n |-> r[i]] = [i \in 1 .. n |-> a[i]]
      BY <1>9
    <2>. QED  BY <2>3, <2>4
  <1>. QED  BY <1>1, <1>2, <1>5, <1>10 DEF a, b


\* The messages the decoder understands, one message after the other
LEMMA UnderstoodIs ==
  ASSUME PeerIs
  PROVE  /\ Understood(1)[0] = <<>>
         /\ \A m \in 1 .. Len(sent) : Understood(1)[m] = IF Unknown \in Range(sent[m].args) THEN Understood(1)[m - 1]
                                                         ELSE Append(Understood(1)[m - 1], m)
  <1>. DEFINE S == Seq(Nat)
              n == Len(sent)
              Bad(i) == Unknown \in Range(sent[i].args)
              step == [i \in Int |-> [x \in S |-> IF i \in 1 .. n /\ ~Bad(i) THEN Append(x, i) ELSE x]]
  <1>1. n \in Nat /\ 0 + n = n /\ 0 \in Int
    <2>1. n \in Nat
      BY SentIs
    <2>. HIDE DEF n
    <2>. QED  BY SMT, <2>1
  <1>2. <<>> \in S
    BY SMT
  <1>c. ASSUME NEW x \in S, NEW i \in 1 .. n PROVE Append(x, i) \in S
    <2>. HIDE DEF n
    <2>. QED  BY SMT, <1>1
  <1>3. step \in [Int -> [S -> S]]
    <2>. HIDE DEF S, n, Bad
    <2>. QED  BY <1>2, <1>c
  <1>. HIDE DEF S, n, Bad, step
  <1>4. PICK f \in [0 .. n -> S] : Follows(f, 0, n, <<>>, step)
    <2>1. \A m \in Nat : \E f \in [0 .. 0 + m -> S] : Follows(f, 0, 0 + m, <<>>, step)
      BY <1>1, <1>2, <1>3, Recursion
    <2>2. \E f \in [0 .. 0 + n -> S] : Follows(f, 0, 0 + n, <<>>, step)
      BY <1>1, <2>1
    <2>. QED  BY <1>1, <2>2
  <1>5. \A i \in 0 .. n : f[i] = IF i < 1 THEN <<>> ELSE IF Bad(i) THEN f[i - 1] ELSE Append(f[i - 1], i)
    <2>. TAKE i \in 0 .. n
    <2>1. CASE i = 0
      <3>1. i < 1
        BY SMT, <2>1
      <3>. QED  BY <1>4, <2>1, <3>1 DEF Follows
    <2>2. CASE i # 0
      <3>1. i - 1 \in 0 .. n /\ i \in Int /\ i \in 1 .. n /\ ~(i < 1)
        BY SMT, <1>1, <2>2
      <3>2. f[i - 1] \in S
        BY <1>4, <3>1
      <3>3. step[i][f[i - 1]] = IF ~Bad(i) THEN Append(f[i - 1], i) ELSE f[i - 1]
        BY <3>1, <3>2 DEF step
      <3>4. f[i] = step[i][f[i - 1]]
        BY <1>4, <2>2 DEF Follows
      <3>. QED  BY <3>1, <3>3, <3>4
    <2>. QED  BY <2>1, <2>2
  <1>6. f = [i \in 0 .. n |-> IF i < 1 THEN <<>> ELSE IF Bad(i) THEN f[i - 1] ELSE Append(f[i - 1], i)]
    BY <1>4, <1>5
  <1>. DEFINE g == Understood(1)
  <1>7. g = [i \in 0 .. n |-> IF i < 1 THEN <<>> ELSE IF Bad(i) THEN g[i - 1] ELSE Append(g[i - 1], i)]
    BY <1>6 DEF Understood, n, Bad
  <1>. HIDE DEF g
  <1>8. \A i \in 0 .. n : g[i] = IF i < 1 THEN <<>> ELSE IF Bad(i) THEN g[i - 1] ELSE Append(g[i - 1], i)
    BY <1>7
  <1>9. 0 \in 0 .. n /\ 0 < 1 /\ \A i \in 1 .. n : i \in 0 .. n /\ ~(i < 1)
    BY SMT, <1>1
  <1>. QED  BY <1>8, <1>9 DEF g, n, Bad

\* The messages given to the program
Delivery == [id : Nat, args : Seq(Nat), fds : Seq(Fds)]
IdsOf(s) == [i \in DOMAIN s |-> s[i].id]

LEMMA IdsAppend ==
  ASSUME NEW s \in Seq(Delivery), NEW e \in Delivery
  PROVE  /\ Append(s, e) \in Seq(Delivery) /\ IdsOf(Append(s, e)) = Append(IdsOf(s), e.id)
         /\ DOMAIN Append(s, e) = 1 .. Len(s) + 1 /\ DOMAIN s = 1 .. Len(s) /\ Append(s, e)[Len(s) + 1] = e
         /\ \A i \in 1 .. Len(s) : Append(s, e)[i] = s[i]
  <1>. DEFINE t == Append(s, e)
              n == Len(s)
              I == IdsOf(s)
  <1>1. t \in Seq(Delivery) /\ Len(t) = n + 1 /\ DOMAIN t = 1 .. n + 1 /\ DOMAIN s = 1 .. n /\ n \in Nat
    <2>. HIDE DEF Delivery
    <2>. QED  BY SMT
  <1>2. t[n + 1] = e /\ \A i \in 1 .. n : t[i] = s[i]
    <2>. HIDE DEF Delivery
    <2>. QED  BY SMT
  <1>3. \A i \in 1 .. n : s[i] \in Delivery
    <2>. HIDE DEF Delivery
    <2>. QED  BY SMT
  <1>4. e.id \in Nat /\ \A i \in 1 .. n : s[i].id \in Nat
    BY <1>3 DEF Delivery
  <1>. HIDE DEF t, n
  <1>5. I = [i \in 1 .. n |-> s[i].id] /\ IdsOf(t) = [i \in 1 .. n + 1 |-> t[i].id]
    BY <1>1 DEF IdsOf
  <1>. HIDE DEF I
  <1>6. I \in Seq(Nat) /\ Len(I) = n /\ \A i \in 1 .. n : I[i] = s[i].id
    <2>1. I \in [1 .. n -> Nat] /\ \A i \in 1 .. n : I[i] = s[i].id
      BY <1>4, <1>5
    <2>. QED  BY SMT, <1>1, <2>1
  <1>. DEFINE A == Append(I, e.id)
  <1>7. DOMAIN A = 1 .. n + 1 /\ A[n + 1] = e.id /\ (\A i \in 1 .. n : A[i] = I[i]) /\ A = [i \in 1 .. n + 1 |-> A[i]]
    BY SMT, <1>1, <1>4, <1>6
  <1>. HIDE DEF A
  <1>8. \A i \in 1 .. n + 1 : A[i] = t[i].id
    <2>. TAKE i \in 1 .. n + 1
    <2>1. i = n + 1 \/ i \in 1 .. n
      BY SMT, <1>1
    <2>. QED  BY <1>2, <1>6, <1>7, <2>1
  <1>9. IdsOf(t) = A
    BY <1>5, <1>7, <1>8
  <1>. QED  BY <1>1, <1>2, <1>9 DEF t, n, I, A


\* The bytes b were the last read of a stream of which P bytes are read.
Window(P, b) ==
    /\ P \in Nat /\ P <= Len(Stream) /\ b \in Seq(Nat) /\ Len(b) <= P
    /\ \A i \in 1 .. Len(b) : b[i] = Stream[(P - Len(b)) + i]

\* How many bytes of the stream are decoded, when o of the bytes b are
Decoded(P, b, o) == P - (Len(b) - o)

\* D bytes are decoded: the first m messages and k bytes of the next one.
Framed(m, k, D, p) ==
    /\ D = End(m) + k
    /\ m = Len(sent) => k = 0 /\ Fresh(p)
    /\ m # Len(sent) => Ready(p, Bytes(m + 1), k)

\* A call of pomp_prot_decode_msg on what was read goes on in the next message.
LEMMA DecodeFramed ==
  ASSUME PeerIs, NEW P, NEW b, Window(P, b), NEW o \in Nat, o < Len(b), NEW p,
         NEW m \in 0 .. Len(sent), NEW k \in Nat, Framed(m, k, Decoded(P, b, o), p)
  PROVE  LET d == decode_msg(p, DropFirst(b, o))
         IN  /\ m + 1 \in 1 .. Len(sent) /\ d.used \in Nat /\ o + d.used <= Len(b)
             /\ Passed(d.prot, Bytes(m + 1), k + d.used)
             /\ Decoded(P, b, o + d.used) = End(m) + (k + d.used)
             /\ Decoded(P, b, o + d.used) <= P
  <1>. DEFINE in == DropFirst(b, o)
              d == decode_msg(p, in)
              N == Len(sent)
              D == Decoded(P, b, o)
              l == Len(b)
              B == Bytes(m + 1)
              L == Len(B)
              E == End(m)
  <1>1. /\ P \in Nat /\ P <= Len(Stream) /\ b \in Seq(Nat) /\ l <= P /\ \A i \in 1 .. l : b[i] = Stream[(P - l) + i]
    BY DEF Window
  <1>2. N \in Nat /\ l \in Nat /\ E \in Nat /\ Len(Stream) = End(N)
    <2>1. N \in Nat /\ E \in Nat /\ Len(Stream) = End(N)
      BY SentIs, EndIs, StreamIs
    <2>2. l \in Nat
      BY SMT, <1>1
    <2>. QED  BY <2>1, <2>2
  <1>3. D = P - (l - o) /\ D = E + k
    BY DEF Framed, Decoded
  <1>. HIDE DEF D, l, E
  <1>4. m # N
    <2>. SUFFICES ASSUME m = N PROVE FALSE
      BY SMT
    <2>1. k = 0 /\ P <= E
      BY <1>1, <1>2 DEF Framed, E
    <2>. QED  BY SMT, <1>1, <1>2, <1>3, <2>1 DEF l
  <1>5. m + 1 \in 1 .. N /\ (m + 1) - 1 = m
    <2>1. m \in 0 .. N
      OBVIOUS
    <2>. HIDE DEF N
    <2>. QED  BY SMT, <1>2, <1>4, <2>1
  <1>6. IsMessage(B) /\ Ready(p, B, k)
    BY <1>4, <1>5, MessageIs DEF Framed
  <1>7. in \in Seq(Nat) /\ Len(in) = l - o /\ \A i \in 1 .. l - o : in[i] = b[i + o]
    <2>1. o \in 0 .. Len(b)
      BY SMT, <1>2 DEF l
    <2>. QED  BY <1>1, <2>1, RestIs DEF l
  <1>8. L \in Nat /\ \A j \in 1 .. L : Stream[E + j] = B[j]
    BY <1>5, <1>6, StreamBytes DEF IsMessage, E
  <1>. HIDE DEF in, L, B, N, Stream
  <1>9. Agrees(in, B, k)
    <2>. SUFFICES ASSUME NEW i \in 1 .. l - o, k + i <= L PROVE in[i] = B[k + i]
      BY <1>7 DEF Agrees, L
    <2>1. i + o \in 1 .. l /\ (P - l) + (i + o) = E + (k + i) /\ k + i \in 1 .. L
      BY SMT, <1>1, <1>2, <1>3, <1>8
    <2>. QED  BY <1>1, <1>7, <1>8, <2>1
  <1>10. Inside(d, B, k, l - o)
    <2>1. Inside(d, B, k, Len(in))
      BY <1>6, <1>9, DecodeInside
    <2>. QED  BY <1>7, <2>1
  <1>. HIDE DEF d
  <1>11. d.used \in Nat /\ d.in \in Seq(Nat) /\ d.used + Len(d.in) = l - o /\ Passed(d.prot, B, k + d.used)
    BY <1>10 DEF Inside, Looping
  <1>. DEFINE u == d.used
              r == Len(d.in)
  <1>12. r \in Nat
    BY SMT, <1>11
  <1>13. u \in Nat /\ r \in Nat /\ u + r = l - o
    BY <1>11, <1>12
  <1>. HIDE DEF u, r
  <1>14. o + u <= l /\ P - (l - (o + u)) = E + (k + u) /\ P - (l - (o + u)) <= P
    <2>1. P \in Nat /\ l \in Nat /\ E \in Nat /\ E + k = P - (l - o) /\ l <= P
      BY <1>1, <1>2, <1>3
    <2>. QED  BY SMT, <1>13, <2>1
  <1>15. Decoded(P, b, o + u) = P - (l - (o + u))
    BY DEF Decoded, l
  <1>. QED  BY <1>5, <1>11, <1>14, <1>15 DEF u, d, in, B, N, l, E

\* No descriptor is wanted before the first argument of an unknown type.
Regular(a) == Unknown \in Range(a) => \E u \in DOMAIN a : a[u] = Unknown /\ \A i \in 1 .. u - 1 : a[i] # FdArg

\* What the walk of pomp_conn_fixup_rx_fds makes of such a message
LEMMA FixupOk ==
  ASSUME Table(current), NEW args \in Seq(Nat), Regular(args)
  PROVE  Fixup(args).ok <=> Unknown \notin Range(args)
  <1>. DEFINE unknown == {i \in DOMAIN args : args[i] = Unknown}
              known == Min(unknown)
              walked == IF unknown = {} THEN args ELSE SubSeq(args, 1, Min(unknown) - 1)
              needs == Occurrences(walked, FdArg)
              x == Fixup(args)
  <1>0. DOMAIN args = 1 .. Len(args) /\ Len(args) \in Nat
    BY SMT
  <1>1. unknown # {} <=> Unknown \in Range(args)
    BY DEF Range
  <1>2. x.ok = (unknown = {} \/ needs > Len(current))
    BY DEF Fixup
  <1>3. ASSUME unknown # {} PROVE ~(needs > Len(current))
    <2>1. unknown \in SUBSET Nat /\ 0 \notin unknown
      BY SMT
    <2>2. known \in unknown /\ \A i \in unknown : known <= i
      BY <1>3, <2>1, MinIsLeast
    <2>3. PICK u \in DOMAIN args : args[u] = Unknown /\ \A i \in 1 .. u - 1 : args[i] # FdArg
      BY <1>1, <1>3 DEF Regular
    <2>4. known \in 1 .. Len(args) /\ known <= u /\ u \in Nat
      <3>1. known <= u /\ known \in DOMAIN args /\ u \in Nat
        BY <2>1, <2>2, <2>3
      <3>. QED  BY <1>0, <3>1
    <2>5. walked = SubSeq(args, 1, known - 1)
      BY <1>3
    <2>. HIDE DEF known, unknown
    <2>6. SubSeq(args, 1, known - 1) \in Seq(Nat) /\ Len(SubSeq(args, 1, known - 1)) = known - 1
          /\ \A i \in 1 .. known - 1 : SubSeq(args, 1, known - 1)[i] = args[i] /\ i \in 1 .. u - 1
      BY SMT, <1>0, <2>4
    <2>. HIDE DEF walked
    <2>7. \A i \in 1 .. Len(walked) : walked[i] # FdArg
      BY <2>3, <2>5, <2>6
    <2>8. needs = 0
      BY <2>5, <2>6, <2>7, OccurrencesAre DEF Counted
    <2>. HIDE DEF needs
    <2>. QED  BY SMT, <2>8 DEF Table
  <1>. QED  BY <1>1, <1>2, <1>3


\* A message that describes its descriptors takes all of the current table, and frees it.
LEMMA FixupExact ==
  ASSUME PeerIs, Table(current), NEW m \in 1 .. Len(sent), WellFormed(m),
         sent[m].fds > 0 => current = FdsOf(m)
  PROVE  LET x == Fixup(sent[m].args)
         IN  /\ x.ok /\ x.held = FdsOf(m)
             /\ ~(sent[m].fds > 0) => x.current = current /\ x.next = next
             /\ sent[m].fds > 0 => x.current = next /\ x.next = <<>>
  <1>. DEFINE args == sent[m].args
              n == sent[m].fds
              l == Len(current)
              unknown == {i \in DOMAIN args : args[i] = Unknown}
              x == Fixup(args)
              T == FdsOf(m)
  <1>1. unknown = {} /\ n = Occurrences(args, FdArg)
    BY DEF WellFormed, Range
  <1>2. /\ x.held = SubSeq(current, 1, Smaller(n, l)) /\ x.ok
        /\ x.current = IF n > 0 THEN next ELSE current
        /\ x.next = IF n > 0 THEN <<>> ELSE next
    <2>. HIDE DEF unknown, args
    <2>1. unknown = {} => /\ x.held = SubSeq(current, 1, Smaller(Occurrences(args, FdArg), l)) /\ x.ok
                          /\ x.current = IF Occurrences(args, FdArg) > 0 THEN next ELSE current
                          /\ x.next = IF Occurrences(args, FdArg) > 0 THEN <<>> ELSE next
      BY DEF Fixup, unknown
    <2>. QED  BY <1>1, <2>1
  <1>3. n \in Nat /\ l \in Nat /\ current \in Seq(Fds) /\ T = [i \in 1 .. n |-> <<m, i>>]
    <2>1. n \in Nat
      BY SentIs
    <2>2. current \in Seq(Fds)
      BY DEF Table
    <2>3. l \in Nat
      BY SMT, <2>2
    <2>. QED  BY <2>1, <2>2, <2>3 DEF FdsOf
  <1>. HIDE DEF x, n
  <1>4. x.held = T
    <2>1. CASE n > 0
      <3>1. current = T
        BY <2>1 DEF n
      <3>. HIDE DEF T
      <3>2. DOMAIN T = 1 .. n
        BY <1>3
      <3>3. l = n
        BY SMT, <1>3, <3>1, <3>2
      <3>4. Smaller(n, l) = l
        BY <3>3 DEF Smaller
      <3>5. SubSeq(current, 1, l) = current
        BY SMT, <1>3
      <3>. QED  BY <1>2, <3>1, <3>4, <3>5
    <2>2. CASE ~(n > 0)
      <3>1. n = 0 /\ Smaller(n, l) = 0
        BY SMT, <1>3, <2>2 DEF Smaller
      <3>2. SubSeq(current, 1, 0) = <<>>
        BY SMT, <1>3
      <3>3. T = <<>>
        <4>1. 1 .. n = {}
          BY SMT, <3>1
        <4>2. T = [i \in {} |-> <<m, i>>]
          BY <1>3, <4>1
        <4>. HIDE DEF T
        <4>. QED  BY SMT, <4>2
      <3>. QED  BY <1>2, <3>1, <3>2, <3>3
    <2>. QED  BY <2>1, <2>2
  <1>. QED  BY <1>2, <1>4 DEF x, n

\* The messages after message m of which descriptors came with the first P bytes
Pending(P, m) == {c \in 1 .. Len(sent) : Carries(c) /\ End(c - 1) < P /\ c > m}

\* The tables hold the descriptors of the messages in Q, of at most two.
TablesAre(Q, C, X) ==
    \/ Q = {} /\ C = <<>> /\ X = <<>>
    \/ \E a \in Q : Q = {a} /\ C = FdsOf(a) /\ X = <<>>
    \/ \E a, b \in Q : a < b /\ Q = {a, b} /\ C = FdsOf(a) /\ X = FdsOf(b)

LEMMA CarriedIs ==
  ASSUME PeerIs, NEW c \in 1 .. Len(sent), Carries(c)
  PROVE  FdsOf(c) # <<>>
  <1>1. sent[c].fds \in Nat /\ sent[c].fds > 0
    BY SentIs DEF Carries
  <1>. DEFINE n == sent[c].fds
              T == FdsOf(c)
  <1>2. DOMAIN T = 1 .. n
    BY DEF FdsOf
  <1>. HIDE DEF n, T
  <1>3. 1 \in 1 .. n
    BY SMT, <1>1 DEF n
  <1>4. DOMAIN <<>> = {}
    BY SMT
  <1>5. T # <<>>
    BY <1>2, <1>3, <1>4
  <1>. QED  BY <1>5 DEF T

\* The first m messages and k bytes of the next one, k less than its length, are the first P bytes.
Inner(m, k, P) == P = End(m) + k /\ (m = Len(sent) => k = 0) /\ (m # Len(sent) => k < Len(Bytes(m + 1)))

LEMMA PendingAt ==
  ASSUME PeerIs, NEW m \in 0 .. Len(sent), NEW k \in Nat, NEW P \in Nat, Inner(m, k, P), NEW c \in 1 .. Len(sent)
  PROVE  /\ c > m /\ End(c - 1) < P => c = m + 1 /\ k > 0
         /\ P <= End(c - 1) => c > m
  <1>. DEFINE N == Len(sent)
              a == End(m)
              e == End(c - 1)
              f == End(c)
              g == End(m + 1)
  <1>0. N \in Nat /\ m \in 0 .. N /\ c \in 1 .. N
    BY SentIs
  <1>1. P = a + k /\ (m = N => k = 0) /\ (m # N => k < Len(Bytes(m + 1)))
    BY DEF Inner
  <1>. HIDE DEF N
  <1>2. c \in 0 .. N /\ c - 1 \in 0 .. N
    BY SMT, <1>0
  <1>3. a \in Nat /\ e \in Nat /\ f \in Nat /\ e < f
    BY <1>0, <1>2, EndIs DEF N
  <1>4. ASSUME c > m, e < P PROVE c = m + 1 /\ k > 0
    <2>1. m <= c - 1 /\ m # N /\ m + 1 \in 1 .. N /\ m + 1 \in 0 .. N /\ (m + 1) - 1 = m
      BY SMT, <1>0, <1>4
    <2>2. a <= e
      BY <1>0, <1>2, <2>1, EndGrows DEF N
    <2>3. k > 0
      <3>. HIDE DEF a, e
      <3>. QED  BY SMT, <1>1, <1>3, <1>4, <2>2
    <2>4. g = a + Len(Bytes(m + 1)) /\ g \in Nat /\ k < Len(Bytes(m + 1))
      BY <1>1, <2>1, EndIs DEF N
    <2>5. CASE c # m + 1
      <3>1. m + 1 <= c - 1
        BY SMT, <1>0, <1>4, <2>5
      <3>2. g <= e
        BY <1>2, <2>1, <3>1, EndGrows DEF N
      <3>. DEFINE L == Len(Bytes(m + 1))
      <3>3. L \in Nat
        <4>1. Bytes(m + 1) \in Seq(Nat)
          BY <2>1, BytesAre DEF N
        <4>. QED  BY SMT, <4>1
      <3>4. g = a + L /\ k < L
        BY <2>4
      <3>. HIDE DEF L, a, e, g
      <3>5. FALSE
        BY SMT, <1>1, <1>3, <1>4, <3>2, <3>3, <3>4
      <3>. QED  BY SMT, <3>5
    <2>. QED  BY <2>3, <2>5
  <1>5. ASSUME P <= e, ~(c > m) PROVE FALSE
    <2>1. c <= m
      BY SMT, <1>0, <1>5
    <2>2. f <= a
      BY <1>0, <1>2, <2>1, EndGrows DEF N
    <2>. HIDE DEF a, e, f
    <2>. QED  BY SMT, <1>1, <1>3, <1>5, <2>2
  <1>. QED  BY <1>4, <1>5


\* What a read does to the tables: at most one message is pending before it, and at most one comes.
LEMMA TablesRecv ==
  ASSUME PeerIs, pos \in Nat, NEW n \in Nat, NEW m \in 0 .. Len(sent), NEW k \in Nat, Inner(m, k, pos),
         \A c \in Carrier(n) : pos + n <= LastByte(c),
         NEW new, new = IF Carrier(n) = {} THEN <<>> ELSE FdsOf(CHOOSE c \in Carrier(n) : TRUE),
         NEW s, Stored(s, new), TablesAre(Pending(pos, m), current, next)
  PROVE  TablesAre(Pending(pos + n, m), s.current, s.next)
  <1>. DEFINE N == Len(sent)
              Q == Pending(pos, m)
              R == Pending(pos + n, m)
              K == Carrier(n)
  <1>0. DOMAIN sent = 1 .. N /\ N \in Nat
    BY SentIs
  <1>1. ASSUME NEW c \in 1 .. N
        PROVE  /\ End(c - 1) \in Nat /\ FirstByte(c) = End(c - 1) + 1 /\ LastByte(c) = End(c)
               /\ c > m /\ End(c - 1) < pos => c = m + 1
               /\ pos <= End(c - 1) => c > m
    BY PositionsAre, PendingAt
  <1>2. ASSUME NEW c \in 1 .. N
        PROVE  /\ FirstByte(c) \in pos + 1 .. pos + n <=> pos <= End(c - 1) /\ End(c - 1) < pos + n
               /\ End(c - 1) < pos \/ pos <= End(c - 1)
               /\ End(c - 1) < pos => End(c - 1) < pos + n /\ ~(pos <= End(c - 1))
    <2>. DEFINE e == End(c - 1)
    <2>1. e \in Nat /\ FirstByte(c) = e + 1
      BY <1>1
    <2>. HIDE DEF e
    <2>2. /\ e + 1 \in pos + 1 .. pos + n <=> pos <= e /\ e < pos + n
          /\ e < pos \/ pos <= e
          /\ e < pos => e < pos + n /\ ~(pos <= e)
      BY SMT, <2>1
    <2>. QED  BY <2>1, <2>2 DEF e
  <1>3. \A c : c \in K <=> c \in 1 .. N /\ Carries(c) /\ pos <= End(c - 1) /\ End(c - 1) < pos + n
    BY <1>0, <1>2 DEF Carrier
  <1>4. R = Q \cup K
    <2>1. \A c : c \in R <=> c \in Q \/ c \in K
      BY <1>1, <1>2, <1>3 DEF Pending
    <2>. HIDE DEF R, Q, K
    <2>. QED  BY <2>1
  <1>5. \A a \in Q : a = m + 1 /\ a \in 1 .. N /\ Carries(a)
    BY <1>1 DEF Pending
  <1>6. \A a \in Q, e \in K : a < e
    <2>. TAKE a \in Q, e \in K
    <2>1. a = m + 1 /\ End(a - 1) < pos /\ e \in 1 .. N /\ pos <= End(e - 1) /\ a \in 1 .. N
      BY <1>3, <1>5 DEF Pending
    <2>2. e > m
      BY <1>1, <2>1
    <2>3. e # a
      BY <1>2, <2>1
    <2>. HIDE DEF N
    <2>. QED  BY SMT, <1>0, <2>1, <2>2, <2>3
  <1>7. \A e, f \in K : e = f
    <2>1. ASSUME NEW e \in K, NEW f \in K, e < f PROVE FALSE
      <3>1. e \in 1 .. N /\ f \in 1 .. N /\ FirstByte(f) \in pos + 1 .. pos + n
        BY <1>0 DEF Carrier
      <3>2. LastByte(e) < FirstByte(f) /\ LastByte(e) = End(e) /\ End(e) \in Nat
        BY <2>1, <3>1, MessagesApart, PositionsAre
      <3>3. pos + n <= LastByte(e)
        OBVIOUS
      <3>. DEFINE a == LastByte(e)
                  b == FirstByte(f)
      <3>4. a \in Nat /\ a < b /\ pos + n <= a /\ b \in pos + 1 .. pos + n
        BY <3>1, <3>2, <3>3
      <3>. HIDE DEF a, b
      <3>. QED  BY SMT, <3>4
    <2>2. \A e \in K : e \in 1 .. N
      BY <1>3
    <2>. TAKE e, f \in K
    <2>3. e \in 1 .. N /\ f \in 1 .. N
      BY <2>2
    <2>. HIDE DEF K, N
    <2>4. e < f \/ f < e \/ e = f
      BY SMT, <1>0, <2>3
    <2>. QED  BY <2>1, <2>4
  <1>8. \A a \in Q : FdsOf(a) # <<>>
    BY <1>5, CarriedIs
  <1>9. ~(\E a, b \in Q : a < b)
    <2>1. ~(m + 1 < m + 1)
      BY SMT, <1>0
    <2>. QED  BY <1>5, <2>1
  <1>. HIDE DEF Q, R
  <1>10. \/ Q = {} /\ current = <<>> /\ next = <<>>
         \/ \E a \in Q : Q = {a} /\ current = FdsOf(a) /\ current # <<>> /\ next = <<>>
    BY <1>8, <1>9 DEF TablesAre, Q
  <1>11. CASE K = {}
    <2>1. new = <<>> /\ R = Q
      BY <1>4, <1>11
    <2>2. s.current = current /\ s.next = next
      BY <1>10, <2>1 DEF Stored
    <2>. QED  BY <2>1, <2>2 DEF Q, R
  <1>12. CASE K # {}
    <2>. DEFINE e == CHOOSE c \in K : TRUE
    <2>1. e \in K
      BY <1>12
    <2>2. K = {e} /\ new = FdsOf(e)
      BY <1>7, <1>12, <2>1
    <2>. HIDE DEF e
    <2>3. new # <<>>
      BY <1>3, <2>1, <2>2, CarriedIs
    <2>4. CASE Q = {} /\ current = <<>> /\ next = <<>>
      <3>1. R = {e} /\ s.current = FdsOf(e) /\ s.next = <<>>
        BY <1>4, <2>2, <2>3, <2>4 DEF Stored
      <3>. QED  BY <3>1 DEF TablesAre, R
    <2>5. ASSUME NEW a \in Q, Q = {a}, current = FdsOf(a), current # <<>>, next = <<>>
          PROVE  TablesAre(R, s.current, s.next)
      <3>1. s.current = FdsOf(a) /\ s.next = FdsOf(e)
        BY <2>2, <2>3, <2>5 DEF Stored
      <3>2. R = {a, e} /\ a < e /\ a \in R /\ e \in R
        BY <1>4, <1>6, <2>1, <2>2, <2>5
      <3>. QED  BY <3>1, <3>2 DEF TablesAre
    <2>. QED  BY <1>10, <2>4, <2>5 DEF R
  <1>. QED  BY <1>11, <1>12

\* The messages describe the descriptors attached to them.
Exact == kind = "local" /\ \A m \in DOMAIN sent : WellFormed(m)

\* What a complete message does to the tables: it is the first pending one if it has descriptors.
LEMMA TablesDecode ==
  ASSUME PeerIs, Table(current), Exact, NEW m \in Nat, m + 1 \in 1 .. Len(sent), NEW P \in Nat, End(m + 1) <= P,
         TablesAre(Pending(P, m), current, next)
  PROVE  LET x == Fixup(sent[m + 1].args)
         IN  x.ok /\ x.held = FdsOf(m + 1) /\ TablesAre(Pending(P, m + 1), x.current, x.next)
  <1>. DEFINE N == Len(sent)
              Q == Pending(P, m)
              R == Pending(P, m + 1)
              f == m + 1
              n == sent[f].fds
              x == Fixup(sent[f].args)
  <1>0. DOMAIN sent = 1 .. N /\ N \in Nat
    BY SentIs
  <1>1. WellFormed(f) /\ (Carries(f) <=> n > 0)
    BY <1>0 DEF Exact, Carries
  <1>2. ASSUME NEW c \in 1 .. N PROVE (c > m <=> c > f \/ c = f) /\ ~(f > f)
    <2>. HIDE DEF N
    <2>. QED  BY SMT, <1>0
  <1>3. End(f - 1) < P /\ f > m
    <2>1. End(f - 1) \in Nat /\ End(f - 1) < End(f) /\ End(f) \in Nat
      BY PositionsAre
    <2>2. f > m
      BY SMT
    <2>. DEFINE a == End(f - 1)
                b == End(f)
    <2>3. a \in Nat /\ b \in Nat /\ a < b /\ b <= P
      BY <2>1
    <2>. HIDE DEF a, b
    <2>4. a < P
      BY SMT, <2>3
    <2>. QED  BY <2>2, <2>4 DEF a
  <1>. HIDE DEF f
  <1>4. R = Q \ {f}
    <2>1. \A c : c \in R <=> c \in Q /\ c # f
      BY <1>2 DEF Pending, f
    <2>. HIDE DEF R, Q
    <2>. QED  BY <2>1
  <1>5. f \in Q <=> n > 0
    BY <1>1, <1>3 DEF Pending, f
  <1>6. \A a, b \in Q : a < b => b # f
    <2>. TAKE a, b \in Q
    <2>1. a \in 1 .. N /\ a > m
      BY DEF Pending
    <2>. QED  BY SMT, <2>1, <1>0 DEF f
  <1>. HIDE DEF Q, R, n
  <1>7. n > 0 => current = FdsOf(f)
    <2>. SUFFICES ASSUME n > 0 PROVE current = FdsOf(f)
      BY SMT
    <2>1. f \in Q
      BY <1>5
    <2>. QED  BY <1>6, <2>1 DEF TablesAre, Q
  <1>8. /\ x.ok /\ x.held = FdsOf(f)
        /\ ~(n > 0) => x.current = current /\ x.next = next
        /\ n > 0 => x.current = next /\ x.next = <<>>
    BY <1>1, <1>7, FixupExact DEF f, n
  <1>. HIDE DEF x
  <1>9. CASE ~(n > 0)
    <2>1. R = Q
      BY <1>4, <1>5, <1>9
    <2>. QED  BY <1>8, <1>9, <2>1 DEF Q, R, x, f
  <1>10. CASE n > 0
    <2>0. f \in Q /\ x.current = next /\ x.next = <<>>
      BY <1>5, <1>8, <1>10
    <2>1. ASSUME NEW a \in Q, Q = {a}, next = <<>> PROVE TablesAre(R, x.current, x.next)
      <3>1. R = {}
        BY <1>4, <2>0, <2>1
      <3>. QED  BY <2>0, <2>1, <3>1 DEF TablesAre
    <2>2. ASSUME NEW a \in Q, NEW b \in Q, a < b, Q = {a, b}, next = FdsOf(b) PROVE TablesAre(R, x.current, x.next)
      <3>1. b # f /\ a = f
        BY <1>6, <2>0, <2>2
      <3>2. R = {b} /\ b \in R
        BY <1>4, <2>2, <3>1
      <3>. QED  BY <2>0, <2>2, <3>2 DEF TablesAre
    <2>3. TablesAre(R, x.current, x.next)
      BY <2>0, <2>1, <2>2 DEF TablesAre, Q
    <2>. QED  BY <1>8, <2>3 DEF R, x, f
  <1>. QED  BY <1>9, <1>10


(***************************************************************************)
(* The messages are delivered as they were sent                             *)
(***************************************************************************)
\* The stream starts with a message, and no descriptor argument comes before the first argument of
\* an unknown type.
Clear == junk = <<>> /\ \A m \in DOMAIN sent : Regular(sent[m].args)

\* A raw connection: s are the bytes given to the program.
RawFlow(P, b, o, s) ==
    /\ Window(P, b) /\ o \in {0, Len(b)} /\ s \in Seq(Nat) /\ Len(s) = Decoded(P, b, o)
    /\ \A i \in 1 .. Len(s) : s[i] = Stream[i]

\* The messages given to the program
Messages(s) == s \in Seq(Delivery) /\ \A i \in 1 .. Len(s) : AsSent(s[i])

\* A datagram in the read buffer
DgramFlow(b, o, p) ==
    \/ o = Len(b) /\ Fresh(p)
    \/ \E m \in 1 .. Len(sent) : b = Bytes(m) /\ Ready(p, Bytes(m), o)

\* A stream: the first m messages are decoded, and those the decoder understands are delivered;
\* the descriptors of the next ones are in the tables, in their order.
StreamAt(m, k, P, c, b, o, p, C, X, s) ==
    /\ Framed(m, k, Decoded(P, b, o), p)
    /\ IdsOf(s) = Understood(1)[m]
    /\ Exact /\ c # "removed" => TablesAre(Pending(P, m), C, X)

StreamFlow(P, c, b, o, p, C, X, s) ==
    \E m \in 0 .. Len(sent), k \in Nat : StreamAt(m, k, P, c, b, o, p, C, X, s)

FlowOf(P, t, c, b, o, pt, p, C, X, s) ==
    /\ c \in {"idle", "read", "removed"} => o = Len(b)
    /\ israw /\ kind # "dgram" => RawFlow(P, b, o, s)
    /\ ~israw /\ kind = "dgram" /\ ~t => Messages(s) /\ DgramFlow(b, o, p)
    /\ ~israw /\ kind # "dgram" /\ Clear
       => /\ Window(P, b) /\ Messages(s) /\ StreamFlow(P, c, b, o, p, C, X, s)
          /\ ~pt => o = Len(b) /\ Fresh(p)

Flow == FlowOf(pos, truncated, pc, readbuf, off, partial, prot, current, next, delivered)
FlowAfter == FlowOf(pos', truncated', pc', readbuf', off', partial', prot', current', next', delivered')

LEMMA FlowKept ==
  ASSUME UNCHANGED peer, FlowAfter
  PROVE  Flow'
  <1>1. sent' = sent /\ junk' = junk /\ kind' = kind /\ israw' = israw
    BY DEF peer
  <1>2. UpTo' = UpTo
    BY <1>1 DEF UpTo, Bytes
  <1>3. Stream' = Stream /\ (\A m : End(m)' = End(m)) /\ (\A m : Bytes(m)' = Bytes(m)) /\ (\A m : FdsOf(m)' = FdsOf(m))
    BY <1>1, <1>2 DEF Stream, End, Bytes, FdsOf
  <1>4. Understood(1)' = Understood(1)
    BY <1>1 DEF Understood
  <1>5. (\A m : WellFormed(m)' <=> WellFormed(m)) /\ (\A m : Carries(m)' <=> Carries(m))
    BY <1>1 DEF WellFormed, Carries
  <1>6. (Clear' <=> Clear) /\ (Exact' <=> Exact) /\ (\A d : AsSent(d)' <=> AsSent(d))
    BY <1>1, <1>3, <1>5 DEF Clear, Exact, AsSent
  <1>7. \A Q, C, X : TablesAre(Q, C, X)' <=> TablesAre(Q, C, X)
    BY <1>3 DEF TablesAre
  <1>8. \A P, m : Pending(P, m)' = Pending(P, m)
    BY <1>1, <1>3, <1>5 DEF Pending
  <1>9. \A m, k, D, p : Framed(m, k, D, p)' <=> Framed(m, k, D, p)
    BY <1>1, <1>3 DEF Framed
  <1>10. \A P, b : Window(P, b)' <=> Window(P, b)
    BY <1>3 DEF Window
  <1>11. \A P, b, o, s : RawFlow(P, b, o, s)' <=> RawFlow(P, b, o, s)
    BY <1>3, <1>10 DEF RawFlow
  <1>12. \A s : Messages(s)' <=> Messages(s)
    BY <1>6 DEF Messages
  <1>13. \A b, o, p : DgramFlow(b, o, p)' <=> DgramFlow(b, o, p)
    BY <1>1, <1>3 DEF DgramFlow
  <1>14. \A P, c, b, o, p, C, X, s : StreamFlow(P, c, b, o, p, C, X, s)' <=> StreamFlow(P, c, b, o, p, C, X, s)
    <2>1. ASSUME NEW m, NEW k, NEW P, NEW c, NEW b, NEW o, NEW p, NEW C, NEW X, NEW s
          PROVE  StreamAt(m, k, P, c, b, o, p, C, X, s)' <=> StreamAt(m, k, P, c, b, o, p, C, X, s)
      <3>1. TablesAre(Pending(P, m), C, X)' <=> TablesAre(Pending(P, m), C, X)
        <4>. DEFINE Q == Pending(P, m)
        <4>1. Q' = Q /\ Q = Q
          BY <1>8
        <4>. QED  BY <1>3, <4>1 DEF TablesAre
      <3>2. Framed(m, k, Decoded(P, b, o), p)' <=> Framed(m, k, Decoded(P, b, o), p)
        BY <1>9 DEF Decoded
      <3>3. (IdsOf(s) = Understood(1)[m])' <=> IdsOf(s) = Understood(1)[m]
        BY <1>4 DEF IdsOf
      <3>. QED  BY <1>6, <3>1, <3>2, <3>3 DEF StreamAt
    <2>. TAKE P, c, b, o, p, C, X, s
    <2>2. \A m, k : StreamAt(m, k, P, c, b, o, p, C, X, s)' <=> StreamAt(m, k, P, c, b, o, p, C, X, s)
      BY <2>1
    <2>3. (0 .. Len(sent))' = 0 .. Len(sent)
      BY <1>1
    <2>. QED  BY <2>2, <2>3 DEF StreamFlow
  <1>15. \A P, t, c, b, o, pt, p, C, X, s :
             FlowOf(P, t, c, b, o, pt, p, C, X, s)' <=> FlowOf(P, t, c, b, o, pt, p, C, X, s)
    <2>. TAKE P, t, c, b, o, pt, p, C, X, s
    <2>. DEFINE A == RawFlow(P, b, o, s)
                B == Messages(s)
                D == DgramFlow(b, o, p)
                E == StreamFlow(P, c, b, o, p, C, X, s)
                F == Window(P, b)
    <2>1. (A' <=> A) /\ (B' <=> B) /\ (D' <=> D) /\ (E' <=> E) /\ (F' <=> F)
      BY <1>10, <1>11, <1>12, <1>13, <1>14
    <2>. QED  BY <1>1, <1>6, <2>1 DEF FlowOf, Fresh
  <1>. QED  BY <1>15 DEF Flow, FlowAfter


LEMMA FlowInit == Init => Flow
  <1>. SUFFICES ASSUME Init PROVE Flow
    BY SMT
  <1>0. PeerIs /\ Sound(prot)
    BY RecvInit DEF RecvInv, Reading
  <1>1. pos = 0 /\ pc = "idle" /\ readbuf = <<>> /\ off = 0 /\ partial = TRUE /\ prot = pomp_prot_new /\ current = <<>>
        /\ next = <<>> /\ delivered = <<>>
    BY DEF Init
  <1>2. Fresh(prot)
    BY <1>0, <1>1 DEF Fresh, pomp_prot_new
  <1>3. <<>> \in Seq(Nat) /\ <<>> \in Seq(Delivery) /\ Len(<<>>) = 0 /\ 1 .. 0 = {} /\ DOMAIN <<>> = {} /\ 0 \in Nat
        /\ 0 - (0 - 0) = 0
    BY SMT
  <1>4. Decoded(0, <<>>, 0) = 0
    BY <1>3 DEF Decoded
  <1>5. Window(0, <<>>)
    <2>1. Len(Stream) \in Nat
      <3>1. Stream \in Seq(Nat)
        BY <1>0, StreamIs
      <3>. QED  BY SMT, <3>1
    <2>2. 0 <= Len(Stream) /\ 0 <= 0
      <3>. HIDE DEF Stream
      <3>. QED  BY SMT, <2>1
    <2>. QED  BY <1>3, <2>2 DEF Window
  <1>6. RawFlow(0, <<>>, 0, <<>>) /\ Messages(<<>>)
    BY <1>3, <1>4, <1>5 DEF RawFlow, Messages
  <1>7. DgramFlow(<<>>, 0, prot)
    BY <1>2, <1>3 DEF DgramFlow
  <1>8. ASSUME Clear PROVE StreamFlow(0, "idle", <<>>, 0, prot, <<>>, <<>>, <<>>)
    <2>1. End(0) = 0 /\ 0 = End(0) + 0
      <3>1. End(0) = 0
        BY <1>0, <1>3, <1>8, EndIs DEF Clear
      <3>. QED  BY SMT, <3>1
    <2>2. Framed(0, 0, 0, prot)
      BY <1>2, <2>1 DEF Framed, Ready
    <2>3. IdsOf(<<>>) = Understood(1)[0]
      <3>1. IdsOf(<<>>) = <<>>
        BY SMT DEF IdsOf
      <3>. QED  BY <1>0, <3>1, UnderstoodIs
    <2>4. Pending(0, 0) = {}
      <3>1. \A c \in 1 .. Len(sent) : ~(End(c - 1) < 0)
        <4>1. \A c \in 1 .. Len(sent) : End(c - 1) \in Nat
          BY <1>0, PositionsAre
        <4>. QED  BY SMT, <4>1
      <3>. QED  BY <3>1 DEF Pending
    <2>5. TablesAre(Pending(0, 0), <<>>, <<>>)
      BY <2>4 DEF TablesAre
    <2>6. 0 \in 0 .. Len(sent)
      BY SMT, <1>0, SentIs
    <2>. QED  BY <1>3, <1>4, <2>2, <2>3, <2>5, <2>6 DEF StreamFlow, StreamAt
  <1>. QED  BY <1>1, <1>2, <1>3, <1>5, <1>6, <1>7, <1>8 DEF Flow, FlowOf

\* The steps that neither read nor decode
LEMMA QuietFlow ==
  ASSUME Flow, UNCHANGED <<peer, socket, decoding, delivered>>, pc' \in {"idle", "read", "removed"} => off = Len(readbuf),
         (current' = current /\ next' = next) \/ pc' = "removed", pc = "removed" => pc' = "removed"
  PROVE  Flow'
  <1>1. pos' = pos /\ truncated' = truncated /\ readbuf' = readbuf /\ off' = off /\ partial' = partial /\ prot' = prot
        /\ delivered' = delivered /\ UNCHANGED peer
    BY DEF socket, decoding
  <1>2. ASSUME NEW m, NEW k, StreamAt(m, k, pos, pc, readbuf, off, prot, current, next, delivered)
        PROVE  StreamAt(m, k, pos, pc', readbuf, off, prot, current', next', delivered)
    BY <1>2 DEF StreamAt
  <1>3. StreamFlow(pos, pc, readbuf, off, prot, current, next, delivered)
        => StreamFlow(pos, pc', readbuf, off, prot, current', next', delivered)
    BY <1>2 DEF StreamFlow
  <1>4. FlowAfter
    BY <1>1, <1>3 DEF Flow, FlowAfter, FlowOf
  <1>. QED  BY <1>1, <1>4, FlowKept

\* Where the stream is in the next message
LEMMA FramedInner ==
  ASSUME PeerIs, NEW m \in 0 .. Len(sent), NEW k \in Nat, NEW D, NEW p, Framed(m, k, D, p)
  PROVE  Inner(m, k, D)
  <1>1. ASSUME m # Len(sent) PROVE k < Len(Bytes(m + 1))
    <2>1. m + 1 \in 1 .. Len(sent)
      <3>. DEFINE N == Len(sent)
      <3>1. N \in Nat /\ m \in 0 .. N /\ m # N
        BY <1>1, SentIs
      <3>. HIDE DEF N
      <3>2. m + 1 \in 1 .. N
        BY SMT, <3>1
      <3>. QED  BY <3>2 DEF N
    <2>. DEFINE B == Bytes(m + 1)
                L == Len(B)
    <2>2. L \in Nat /\ L >= 6
      BY <2>1, MessageIs DEF IsMessage
    <2>3. Ready(p, B, k)
      BY <1>1 DEF Framed
    <2>4. k \in 0 .. L - 1 \/ k = 0
      BY <2>3 DEF Ready, At
    <2>. HIDE DEF L
    <2>5. k < L
      BY SMT, <2>2, <2>4
    <2>. QED  BY <2>5 DEF L
  <1>. QED  BY <1>1 DEF Inner, Framed

\* The decoder at the end of a datagram
LEMMA DgramEnd ==
  ASSUME PeerIs, NEW b, NEW p, DgramFlow(b, Len(b), p)
  PROVE  Fresh(p)
  <1>1. ASSUME NEW m \in 1 .. Len(sent), b = Bytes(m), Ready(p, Bytes(m), Len(b)) PROVE Fresh(p)
    <2>. DEFINE L == Len(Bytes(m))
    <2>1. L \in Nat /\ L >= 6
      BY MessageIs DEF IsMessage
    <2>2. L \in 0 .. L - 1 \/ L = 0
      BY <1>1 DEF Ready, At
    <2>. HIDE DEF L
    <2>3. FALSE
      BY SMT, <2>1, <2>2
    <2>. QED  BY SMT, <2>3
  <1>. QED  BY <1>1 DEF DgramFlow


\* A read of a stream
LEMMA RecvFlow ==
  ASSUME RecvInv, Flow, NEW n \in 1 .. ReadLen, Recv(n)
  PROVE  Flow'
  <1>. DEFINE new == IF Carrier(n) = {} THEN <<>> ELSE FdsOf(CHOOSE m \in Carrier(n) : TRUE)
              s == StoreFds(new)
              b == SubSeq(Stream, pos + 1, pos + n)
              l == Len(readbuf)
  <1>0. n \in Nat /\ PeerIs /\ pos \in Nat
    BY SMT, Bounds DEF RecvInv
  <1>1. /\ UNCHANGED peer /\ pos' = pos + n /\ pos + n <= Len(Stream) /\ kind # "dgram" /\ pc = "read"
        /\ \A m \in Carrier(n) : pos + n <= LastByte(m)
        /\ current' = s.current /\ next' = s.next /\ pc' = (IF s.error THEN "idle" ELSE "decode")
        /\ prot' = prot /\ readbuf' = b /\ off' = 0 /\ partial' = TRUE /\ delivered' = delivered
    BY DEF Recv
  <1>2. Table(new)
    BY <1>0, <1>1, ReceivedMore
  <1>. HIDE DEF new
  <1>3. Stored(s, new)
    BY <1>2, StoreIs DEF RecvInv, Places
  <1>. HIDE DEF s
  <1>4. pc' = "decode"
    BY <1>1, <1>3 DEF Stored
  <1>5. b \in Seq(Nat) /\ Len(b) = n /\ \A i \in 1 .. n : b[i] = Stream[pos + i]
    <2>1. Stream \in Seq(Nat)
      BY <1>0, StreamIs
    <2>2. pos + n <= Len(Stream)
      BY <1>1
    <2>. HIDE DEF Stream
    <2>. QED  BY SMT, <1>0, <2>1, <2>2
  <1>. HIDE DEF b
  <1>6. Window(pos + n, b)
    <2>1. pos + n \in Nat /\ n <= pos + n /\ \A i \in 1 .. n : ((pos + n) - n) + i = pos + i
      BY SMT, <1>0
    <2>. QED  BY <1>1, <1>5, <2>1 DEF Window
  <1>7. off = l
    BY <1>1 DEF Flow, FlowOf
  <1>8. Decoded(pos, readbuf, off) = pos /\ Decoded(pos + n, b, 0) = pos
    <2>1. l \in Nat
      BY SMT DEF RecvInv, Reading
    <2>2. Decoded(pos, readbuf, off) = pos - (l - l) /\ Decoded(pos + n, b, 0) = (pos + n) - (n - 0)
      BY <1>5, <1>7 DEF Decoded
    <2>. HIDE DEF l
    <2>3. pos - (l - l) = pos /\ (pos + n) - (n - 0) = pos
      BY SMT, <1>0, <2>1
    <2>. QED  BY <2>2, <2>3
  <1>9. RawFlow(pos, readbuf, off, delivered) => RawFlow(pos + n, b, 0, delivered)
    BY <1>6, <1>8 DEF RawFlow
  <1>10. ASSUME StreamFlow(pos, pc, readbuf, off, prot, current, next, delivered)
         PROVE  StreamFlow(pos + n, pc', b, 0, prot, current', next', delivered)
    <2>1. PICK m \in 0 .. Len(sent), k \in Nat : StreamAt(m, k, pos, pc, readbuf, off, prot, current, next, delivered)
      BY <1>10 DEF StreamFlow
    <2>2. Framed(m, k, pos, prot) /\ IdsOf(delivered) = Understood(1)[m]
          /\ (Exact => TablesAre(Pending(pos, m), current, next))
      <3>1. "read" # "removed"
        BY SMT
      <3>. QED  BY <1>1, <1>8, <2>1, <3>1 DEF StreamAt
    <2>3. Inner(m, k, pos)
      BY <1>0, <2>2, FramedInner
    <2>4. Exact => TablesAre(Pending(pos + n, m), current', next')
      BY <1>0, <1>1, <1>3, <2>2, <2>3, TablesRecv DEF new
    <2>5. StreamAt(m, k, pos + n, pc', b, 0, prot, current', next', delivered)
      BY <1>8, <2>2, <2>4 DEF StreamAt
    <2>. QED  BY <2>5 DEF StreamFlow
  <1>11. FlowAfter
    <2>1. pc' \notin {"idle", "read", "removed"}
      BY SMT, <1>4
    <2>. QED  BY <1>1, <1>6, <1>9, <1>10, <2>1 DEF Flow, FlowAfter, FlowOf
  <1>. QED  BY <1>1, <1>11, FlowKept

\* A read of a datagram socket
LEMMA RecvDgramFlow ==
  ASSUME RecvInv, Flow, NEW m \in DOMAIN sent, RecvDgram(m)
  PROVE  Flow'
  <1>. DEFINE B == Bytes(m)
              L == Len(B)
              b == SubSeq(B, 1, Smaller(ReadLen, L))
  <1>0. PeerIs /\ ReadLen \in Nat
    BY Bounds DEF RecvInv
  <1>1. /\ UNCHANGED peer /\ kind = "dgram" /\ pc = "read" /\ pc' = "decode" /\ prot' = prot /\ readbuf' = b /\ off' = 0
        /\ truncated' = (truncated \/ L > ReadLen) /\ delivered' = delivered /\ UNCHANGED fds
    BY DEF RecvDgram
  <1>2. m \in 1 .. Len(sent)
    BY <1>0, SentIs
  <1>3. B \in Seq(Nat) /\ L \in Nat
    BY <1>0, <1>2, MessageIs DEF IsMessage
  <1>4. off = Len(readbuf)
    BY <1>1 DEF Flow, FlowOf
  <1>5. ASSUME DgramFlow(readbuf, off, prot), ~(L > ReadLen) PROVE DgramFlow(b, 0, prot)
    <2>1. Fresh(prot)
      BY <1>0, <1>4, <1>5, DgramEnd
    <2>2. b = B
      <3>1. Smaller(ReadLen, L) = L
        <4>. HIDE DEF L
        <4>. QED  BY SMT, <1>0, <1>3, <1>5 DEF Smaller
      <3>. HIDE DEF B
      <3>2. SubSeq(B, 1, L) = B
        BY SMT, <1>3
      <3>. QED  BY <3>1, <3>2
    <2>. HIDE DEF b
    <2>. QED  BY <1>2, <2>1, <2>2 DEF DgramFlow, Ready
  <1>. HIDE DEF b
  <1>6. FlowAfter
    <2>1. pc' \notin {"idle", "read", "removed"}
      BY SMT, <1>1
    <2>. QED  BY <1>1, <1>5, <2>1 DEF Flow, FlowAfter, FlowOf
  <1>. QED  BY <1>1, <1>6, FlowKept

\* A raw connection gives the bytes of a read to the program.
LEMMA NotifyRawFlow ==
  ASSUME RecvInv, Flow, NotifyRaw
  PROVE  Flow'
  <1>. DEFINE l == Len(readbuf)
              t == delivered \o readbuf
  <1>1. /\ UNCHANGED peer /\ israw /\ pos' = pos /\ pc' = "callback" /\ readbuf' = readbuf /\ off' = l /\ off < l
        /\ delivered' = t
    BY DEF NotifyRaw, socket
  <1>2. ASSUME RawFlow(pos, readbuf, off, delivered) PROVE RawFlow(pos, readbuf, l, t)
    <2>1. /\ pos \in Nat /\ readbuf \in Seq(Nat) /\ l <= pos /\ off \in {0, l} /\ delivered \in Seq(Nat)
          /\ \A i \in 1 .. l : readbuf[i] = Stream[(pos - l) + i]
          /\ Len(delivered) = pos - (l - off) /\ \A i \in 1 .. Len(delivered) : delivered[i] = Stream[i]
      BY <1>2 DEF RawFlow, Window, Decoded
    <2>2. l \in Nat
      BY SMT, <2>1
    <2>. DEFINE e == Len(delivered)
    <2>3. e = pos - l /\ e \in Nat /\ e + l = pos /\ pos - (l - l) = pos
      <3>1. pos \in Nat /\ l <= pos /\ off \in {0, l} /\ e = pos - (l - off)
        BY <2>1
      <3>. HIDE DEF l, e
      <3>. QED  BY SMT, <1>1, <2>2, <3>1
    <2>4. t \in Seq(Nat) /\ Concat(t, delivered, readbuf)
      BY <2>1, ConcatIs
    <2>. HIDE DEF t
    <2>5. Len(t) = pos /\ (\A i \in 1 .. e : t[i] = delivered[i]) /\ (\A i \in 1 .. l : t[e + i] = readbuf[i])
      BY <2>3, <2>4 DEF Concat
    <2>6. \A i \in 1 .. pos : t[i] = Stream[i]
      <3>. TAKE i \in 1 .. pos
      <3>1. i \in 1 .. e \/ (i - e \in 1 .. l /\ e + (i - e) = i /\ (pos - l) + (i - e) = i)
        <4>. HIDE DEF l, e
        <4>. QED  BY SMT, <2>2, <2>3
      <3>2. CASE i \in 1 .. e
        BY <2>1, <2>5, <3>2
      <3>3. CASE i - e \in 1 .. l /\ e + (i - e) = i /\ (pos - l) + (i - e) = i
        <4>1. t[e + (i - e)] = readbuf[i - e] /\ readbuf[i - e] = Stream[(pos - l) + (i - e)]
          BY <2>1, <2>5, <3>3
        <4>. QED  BY <3>3, <4>1
      <3>. QED  BY <3>1, <3>2, <3>3
    <2>7. Len(t) = Decoded(pos, readbuf, l)
      BY <2>3, <2>5 DEF Decoded
    <2>. QED  BY <1>2, <2>4, <2>5, <2>6, <2>7 DEF RawFlow
  <1>. HIDE DEF t
  <1>3. FlowAfter
    BY <1>1, <1>2 DEF Flow, FlowAfter, FlowOf
  <1>. QED  BY <1>1, <1>3, FlowKept


\* A decoder that is between two messages
LEMMA FramedFresh ==
  ASSUME PeerIs, NEW m \in 0 .. Len(sent), NEW k \in Nat, NEW D, NEW p, Framed(m, k, D, p), Fresh(p)
  PROVE  k = 0
  <1>1. ASSUME NEW B, At(p, B, k) PROVE k = 0
    <2>1. /\ k \in 1 .. 4 => p.state = k + 1
          /\ k = 5 => p.state = HEADER
          /\ k >= 6 => p.state = PAYLOAD
      BY <1>1 DEF At
    <2>2. p.state \in {IDLE, MAGIC_0}
      BY DEF Fresh
    <2>. QED  BY SMT, <2>1, <2>2 DEF IDLE, MAGIC_0, HEADER, PAYLOAD
  <1>. QED  BY <1>1 DEF Framed, Ready

\* The end of pomp_conn_process_read_buf: when it clears the tables, no message is pending.
LEMMA EndDecodeFlow ==
  ASSUME RecvInv, Flow, EndDecode
  PROVE  Flow'
  <1>. DEFINE l == Len(readbuf)
  <1>0. PeerIs /\ pos \in Nat /\ l \in Nat
    <2>1. l \in Nat
      BY SMT DEF RecvInv, Reading
    <2>. QED  BY <2>1 DEF RecvInv
  <1>1. /\ UNCHANGED peer /\ pos' = pos /\ truncated' = truncated /\ pc = "decode" /\ pc' = AfterRead /\ readbuf' = <<>>
        /\ off' = 0 /\ off = l /\ partial' = TRUE /\ prot' = prot /\ delivered' = delivered
    BY DEF EndDecode, socket
  <1>2. <<>> \in Seq(Nat) /\ Len(<<>>) = 0 /\ 1 .. 0 = {} /\ 0 <= pos
    BY SMT, <1>0
  <1>3. Decoded(pos, readbuf, off) = pos /\ Decoded(pos, <<>>, 0) = pos
    <2>1. Decoded(pos, readbuf, off) = pos - (l - l) /\ Decoded(pos, <<>>, 0) = pos - (0 - 0)
      BY <1>1, <1>2 DEF Decoded
    <2>. HIDE DEF l
    <2>2. pos - (l - l) = pos /\ pos - (0 - 0) = pos
      BY SMT, <1>0
    <2>. QED  BY <2>1, <2>2
  <1>4. Window(pos, readbuf) => Window(pos, <<>>)
    BY <1>2 DEF Window
  <1>5. RawFlow(pos, readbuf, off, delivered) => RawFlow(pos, <<>>, 0, delivered)
    BY <1>3, <1>4 DEF RawFlow
  <1>6. DgramFlow(readbuf, off, prot) => DgramFlow(<<>>, 0, prot)
    <2>1. DgramFlow(readbuf, off, prot) => Fresh(prot)
      BY <1>0, <1>1, DgramEnd
    <2>. QED  BY <1>2, <2>1 DEF DgramFlow
  <1>7. ASSUME StreamFlow(pos, pc, readbuf, off, prot, current, next, delivered), ~partial => Fresh(prot)
        PROVE  StreamFlow(pos, pc', <<>>, 0, prot, current', next', delivered)
    <2>1. PICK m \in 0 .. Len(sent), k \in Nat : StreamAt(m, k, pos, pc, readbuf, off, prot, current, next, delivered)
      BY <1>7 DEF StreamFlow
    <2>2. Framed(m, k, pos, prot) /\ IdsOf(delivered) = Understood(1)[m]
          /\ (Exact => TablesAre(Pending(pos, m), current, next))
      <3>1. "decode" # "removed"
        BY SMT
      <3>. QED  BY <1>1, <1>3, <2>1, <3>1 DEF StreamAt
    <2>3. Exact => current' = current /\ next' = next
      <3>1. CASE ~israw /\ ~partial /\ current # <<>>
        <4>1. Inner(m, k, pos) /\ k = 0
          BY <1>0, <1>7, <2>2, <3>1, FramedInner, FramedFresh
        <4>2. ~(k > 0)
          BY SMT, <4>1
        <4>3. Pending(pos, m) = {}
          BY <1>0, <4>1, <4>2, PendingAt DEF Pending
        <4>. QED  BY <2>2, <3>1, <4>3 DEF TablesAre
      <3>2. CASE ~(~israw /\ ~partial /\ current # <<>>)
        BY <3>2 DEF EndDecode
      <3>. QED  BY <3>1, <3>2
    <2>4. StreamAt(m, k, pos, pc', <<>>, 0, prot, current', next', delivered)
      BY <1>3, <2>2, <2>3 DEF StreamAt
    <2>. QED  BY <2>4 DEF StreamFlow
  <1>8. FlowAfter
    BY <1>1, <1>2, <1>4, <1>5, <1>6, <1>7 DEF Flow, FlowAfter, FlowOf
  <1>. QED  BY <1>1, <1>8, FlowKept

\* Message m given to the program after the messages s
Given(m, x) == [id |-> m, args |-> sent[m].args, fds |-> x.held]

LEMMA GivenIs ==
  ASSUME PeerIs, Table(current), NEW m \in 1 .. Len(sent), NEW s, Messages(s),
         NEW x, x = Fixup(sent[m].args), Exact => x.held = FdsOf(m)
  PROVE  Messages(Append(s, Given(m, x))) /\ IdsOf(Append(s, Given(m, x))) = Append(IdsOf(s), m)
  <1>. DEFINE e == Given(m, x)
              n == Len(s)
  <1>0. sent[m].args \in Seq(Nat) /\ m \in Nat /\ m \in DOMAIN sent
    <2>1. m \in Nat
      BY SMT
    <2>. QED  BY <2>1, SentIs
  <1>1. e.id = m /\ e.args = sent[m].args /\ e.fds = x.held
    BY DEF Given
  <1>2. x.held \in Seq(Fds)
    <2>1. PICK k \in 0 .. Len(current) : Walked(Fixup(sent[m].args), k)
      BY <1>0, FixupIs
    <2>2. x.held = SubSeq(current, 1, k)
      BY <2>1 DEF Walked
    <2>3. Table(SubSeq(current, 1, k))
      BY TableCut
    <2>. QED  BY <2>2, <2>3 DEF Table
  <1>3. e \in Delivery
    BY <1>0, <1>2 DEF Given, Delivery
  <1>4. AsSent(e)
    BY <1>0, <1>1 DEF AsSent, Exact
  <1>5. s \in Seq(Delivery) /\ \A i \in 1 .. n : AsSent(s[i])
    BY DEF Messages
  <1>. HIDE DEF e
  <1>6. /\ Append(s, e) \in Seq(Delivery) /\ IdsOf(Append(s, e)) = Append(IdsOf(s), e.id)
        /\ Append(s, e)[n + 1] = e /\ \A i \in 1 .. n : Append(s, e)[i] = s[i]
    BY <1>3, <1>5, IdsAppend
  <1>7. Len(Append(s, e)) = n + 1 /\ \A i \in 1 .. n + 1 : i \in 1 .. n \/ i = n + 1
    <2>. HIDE DEF Delivery
    <2>. QED  BY SMT, <1>5
  <1>8. \A i \in 1 .. n + 1 : AsSent(Append(s, e)[i])
    BY <1>4, <1>5, <1>6, <1>7
  <1>. QED  BY <1>1, <1>6, <1>7, <1>8 DEF Messages, e


\* The decoder on a datagram: the whole of it was read.
LEMMA DecodeDgram ==
  ASSUME PeerIs, NEW b, NEW o \in Nat, o < Len(b), NEW p, DgramFlow(b, o, p)
  PROVE  LET d == decode_msg(p, DropFirst(b, o))
         IN  \E m \in 1 .. Len(sent) : b = Bytes(m) /\ d.used \in Nat /\ Passed(d.prot, Bytes(m), o + d.used)
  <1>. DEFINE in == DropFirst(b, o)
              d == decode_msg(p, in)
              l == Len(b)
  <1>1. PICK m \in 1 .. Len(sent) : b = Bytes(m) /\ Ready(p, Bytes(m), o)
    <2>1. o # Len(b) \/ ~(o < Len(b))
      BY SMT
    <2>. QED  BY <2>1 DEF DgramFlow
  <1>2. IsMessage(b) /\ Ready(p, b, o) /\ b \in Seq(Nat) /\ l \in Nat
    BY <1>1, MessageIs DEF IsMessage
  <1>3. in \in Seq(Nat) /\ Len(in) = l - o /\ \A i \in 1 .. l - o : in[i] = b[i + o]
    <2>1. o \in 0 .. l
      <3>. HIDE DEF l
      <3>. QED  BY SMT, <1>2 DEF l
    <2>. QED  BY <1>2, <2>1, RestIs
  <1>. HIDE DEF in
  <1>4. Agrees(in, b, o)
    <2>. SUFFICES ASSUME NEW i \in 1 .. l - o PROVE in[i] = b[o + i]
      BY <1>3 DEF Agrees
    <2>1. i + o = o + i
      BY SMT
    <2>. QED  BY <1>3, <2>1
  <1>5. Inside(d, b, o, Len(in))
    BY <1>2, <1>4, DecodeInside
  <1>. HIDE DEF d
  <1>6. d.used \in Nat /\ Passed(d.prot, b, o + d.used)
    BY <1>5 DEF Inside, Looping
  <1>. QED  BY <1>1, <1>6 DEF d, in

\* The decoder is in the middle of a message, or at the end of one.
LEMMA AtNotIdle ==
  ASSUME NEW p, NEW B, NEW k \in Nat, At(p, B, k)
  PROVE  p.state # IDLE
  BY SMT DEF At, IDLE, MAGIC_0, HEADER, PAYLOAD

\* A turn of the loop of pomp_conn_process_read_buf
LEMMA DecodeFlow ==
  ASSUME RecvInv, Flow, Decode
  PROVE  Flow'
  <1>. DEFINE in == DropFirst(readbuf, off)
              d == decode_msg(prot, in)
              u == d.used
              l == Len(readbuf)
              args == DropFirst(d.prot.data, HeaderSize)
              x == Fixup(args)
              e == [id |-> d.prot.headerbuf[Len(Magic) + 1], args |-> args, fds |-> x.held]
  <1>1. /\ UNCHANGED peer /\ pos' = pos /\ truncated' = truncated /\ pc = "decode" /\ readbuf' = readbuf /\ ~israw /\ off < l
        /\ prot' = d.prot /\ off' = off + u
        /\ partial' = IF d.prot.state = IDLE THEN off' < l ELSE partial
    BY DEF Decode, socket
  <1>2. d.prot.state # IDLE => current' = current /\ next' = next /\ delivered' = delivered /\ pc' = pc
    BY DEF Decode
  <1>3. d.prot.state = IDLE
        => /\ current' = x.current /\ next' = x.next
           /\ x.ok => delivered' = Append(delivered, e) /\ pc' = "callback"
           /\ ~x.ok => delivered' = delivered /\ pc' = pc
    <2>. SUFFICES ASSUME d.prot.state = IDLE
                  PROVE  /\ current' = x.current /\ next' = x.next
                         /\ x.ok => delivered' = Append(delivered, e) /\ pc' = "callback"
                         /\ ~x.ok => delivered' = delivered /\ pc' = pc
      BY SMT
    <2>1. current' = x.current /\ next' = x.next
      BY DEF Decode
    <2>2. x.ok => delivered' = Append(delivered, e)
      BY DEF Decode
    <2>3. x.ok => pc' = "callback"
      BY DEF Decode
    <2>4. ~x.ok => delivered' = delivered /\ pc' = pc
      BY DEF Decode
    <2>. QED  BY <2>1, <2>2, <2>3, <2>4
  <1>4. PeerIs /\ Table(current) /\ readbuf \in Seq(Nat) /\ off \in 0 .. l /\ pos \in Nat
    BY DEF RecvInv, Reading, Places
  <1>5. off \in Nat /\ l \in Nat
    BY SMT, <1>4
  <1>. HIDE DEF in, d
  \* A complete message
  <1>6. ASSUME NEW m \in 1 .. Len(sent), Done(d.prot, Bytes(m)), Messages(delivered),
               Exact => Fixup(sent[m].args).held = FdsOf(m)
        PROVE  /\ x = Fixup(sent[m].args) /\ Messages(delivered') /\ Fresh(d.prot)
               /\ IF x.ok THEN IdsOf(delivered') = Append(IdsOf(delivered), m) ELSE delivered' = delivered
    <2>1. d.prot.headerbuf[Len(Magic) + 1] = m /\ args = sent[m].args
      BY <1>4, <1>6, CompleteIs
    <2>2. x = Fixup(sent[m].args) /\ e = Given(m, x)
      BY <2>1 DEF Given
    <2>3. d.prot.state = IDLE /\ Fresh(d.prot)
      BY <1>6 DEF Done, Fresh
    <2>. HIDE DEF x, e
    <2>4. Messages(Append(delivered, e)) /\ IdsOf(Append(delivered, e)) = Append(IdsOf(delivered), m)
      BY <1>4, <1>6, <2>2, GivenIs
    <2>. QED  BY <1>3, <1>6, <2>2, <2>3, <2>4
  <1>. HIDE DEF e
  \* A datagram
  <1>7. ASSUME kind = "dgram", Messages(delivered), DgramFlow(readbuf, off, prot)
        PROVE  Messages(delivered') /\ DgramFlow(readbuf, off + u, d.prot)
    <2>1. PICK m \in 1 .. Len(sent) : readbuf = Bytes(m) /\ u \in Nat /\ Passed(d.prot, Bytes(m), off + u)
      BY <1>1, <1>4, <1>5, <1>7, DecodeDgram DEF d, in
    <2>2. off + u \in Nat
      BY SMT, <1>5, <2>1
    <2>3. CASE At(d.prot, Bytes(m), off + u)
      <3>1. delivered' = delivered
        BY <1>2, <2>2, <2>3, AtNotIdle
      <3>. QED  BY <1>7, <2>1, <2>3, <3>1 DEF DgramFlow, Ready
    <2>4. CASE off + u = Len(Bytes(m)) /\ Done(d.prot, Bytes(m))
      <3>1. ~Exact
        BY SMT, <1>7 DEF Exact
      <3>2. Messages(delivered') /\ Fresh(d.prot)
        BY <1>6, <1>7, <2>4, <3>1
      <3>. QED  BY <2>1, <2>4, <3>2 DEF DgramFlow
    <2>. QED  BY <2>1, <2>3, <2>4 DEF Passed
  \* A stream
  <1>8. ASSUME Clear, Window(pos, readbuf), Messages(delivered), ~partial => off = l,
               StreamFlow(pos, pc, readbuf, off, prot, current, next, delivered)
        PROVE  /\ Messages(delivered') /\ StreamFlow(pos, pc', readbuf, off + u, d.prot, current', next', delivered')
               /\ ~partial' => off + u = l /\ Fresh(d.prot)
    <2>1. PICK m \in 0 .. Len(sent), k \in Nat : StreamAt(m, k, pos, pc, readbuf, off, prot, current, next, delivered)
      BY <1>8 DEF StreamFlow
    <2>. DEFINE f == m + 1
                B == Bytes(f)
                D == Decoded(pos, readbuf, off + u)
    <2>2. Framed(m, k, Decoded(pos, readbuf, off), prot) /\ IdsOf(delivered) = Understood(1)[m]
          /\ (Exact => TablesAre(Pending(pos, m), current, next))
      <3>1. "decode" # "removed"
        BY SMT
      <3>. QED  BY <1>1, <2>1, <3>1 DEF StreamAt
    <2>3. f \in 1 .. Len(sent) /\ u \in Nat /\ off + u <= l /\ Passed(d.prot, B, k + u) /\ D = End(m) + (k + u) /\ D <= pos
      <3>1. PeerIs /\ Window(pos, readbuf) /\ off \in Nat /\ off < Len(readbuf)
            /\ Framed(m, k, Decoded(pos, readbuf, off), prot)
        BY <1>1, <1>4, <1>5, <1>8, <2>2
      <3>2. LET g == decode_msg(prot, DropFirst(readbuf, off))
            IN  /\ m + 1 \in 1 .. Len(sent) /\ g.used \in Nat /\ off + g.used <= Len(readbuf)
                /\ Passed(g.prot, Bytes(m + 1), k + g.used)
                /\ Decoded(pos, readbuf, off + g.used) = End(m) + (k + g.used)
                /\ Decoded(pos, readbuf, off + g.used) <= pos
        BY <3>1, DecodeFramed
      <3>. QED  BY <3>2 DEF d, in
    <2>4. k + u \in Nat /\ off + u \in Nat /\ (m # Len(sent)) /\ f - 1 = m /\ f \in 0 .. Len(sent) /\ m \in Nat
      <3>. DEFINE N == Len(sent)
      <3>1. N \in Nat /\ m \in 0 .. N /\ m + 1 \in 1 .. N
        BY <1>4, <2>3, SentIs
      <3>. HIDE DEF N
      <3>2. m # N /\ (m + 1) - 1 = m /\ m + 1 \in 0 .. N /\ m \in Nat
        BY SMT, <3>1
      <3>3. k + u \in Nat /\ off + u \in Nat
        BY SMT, <1>5, <2>3
      <3>. QED  BY <3>2, <3>3 DEF N
    <2>. HIDE DEF f
    <2>5. CASE At(d.prot, B, k + u)
      <3>1. current' = current /\ next' = next /\ delivered' = delivered /\ partial' = partial /\ d.prot.state # IDLE
        BY <1>1, <1>2, <2>4, <2>5, AtNotIdle
      <3>2. Framed(m, k + u, D, d.prot)
        BY <2>3, <2>4, <2>5 DEF Framed, Ready, f
      <3>3. StreamAt(m, k + u, pos, pc', readbuf, off + u, d.prot, current', next', delivered')
        BY <2>2, <3>1, <3>2 DEF StreamAt
      <3>4. partial
        <4>1. ~(off = l)
          BY SMT, <1>1, <1>5
        <4>. QED  BY <1>8, <4>1
      <3>. QED  BY <1>8, <2>4, <3>1, <3>3, <3>4 DEF StreamFlow
    <2>6. CASE k + u = Len(B) /\ Done(d.prot, B)
      <3>. DEFINE y == Fixup(sent[f].args)
      <3>1. D = End(f) /\ End(f) \in Nat /\ D = End(f) + 0
        <4>1. End(f) = End(f - 1) + Len(Bytes(f)) /\ End(f) \in Nat
          BY <1>4, <2>3, <2>4, EndIs
        <4>2. D = End(f)
          BY <2>3, <2>4, <2>6, <4>1
        <4>3. End(f) = End(f) + 0
          BY SMT, <4>1
        <4>. QED  BY <4>1, <4>2, <4>3
      <3>2. Exact => y.ok /\ y.held = FdsOf(f) /\ TablesAre(Pending(pos, f), y.current, y.next)
        BY <1>4, <2>2, <2>3, <2>4, <3>1, TablesDecode DEF f
      <3>3. /\ x = y /\ Messages(delivered') /\ Fresh(d.prot)
            /\ IF x.ok THEN IdsOf(delivered') = Append(IdsOf(delivered), f) ELSE delivered' = delivered
        BY <1>6, <1>8, <2>3, <2>6, <3>2
      <3>4. y.ok <=> Unknown \notin Range(sent[f].args)
        <4>1. sent[f].args \in Seq(Nat) /\ f \in DOMAIN sent
          BY <1>4, <2>3, SentIs
        <4>. QED  BY <1>4, <1>8, <4>1, FixupOk DEF Clear
      <3>. HIDE DEF x, y
      <3>5. IdsOf(delivered') = Understood(1)[f]
        <4>1. Understood(1)[f] = IF Unknown \in Range(sent[f].args) THEN Understood(1)[m] ELSE Append(Understood(1)[m], f)
          BY <1>4, <2>3, <2>4, UnderstoodIs
        <4>. QED  BY <2>2, <3>3, <3>4, <4>1
      <3>6. d.prot.state = IDLE
        BY <2>6 DEF Done
      <3>7. Framed(f, 0, D, d.prot)
        BY <3>1, <3>3 DEF Framed, Ready
      <3>8. Exact => TablesAre(Pending(pos, f), current', next')
        BY <1>3, <3>2, <3>3, <3>6
      <3>9. StreamAt(f, 0, pos, pc', readbuf, off + u, d.prot, current', next', delivered')
        BY <3>5, <3>7, <3>8 DEF StreamAt
      <3>10. StreamFlow(pos, pc', readbuf, off + u, d.prot, current', next', delivered')
        <4>1. 0 \in Nat
          BY SMT
        <4>. QED  BY <2>4, <3>9, <4>1 DEF StreamFlow
      <3>11. ~partial' => off + u = l
        <4>1. ~(off + u < l) => off + u = l
          <5>. HIDE DEF u, l
          <5>. QED  BY SMT, <1>5, <2>3, <2>4
        <4>. QED  BY <1>1, <3>6, <4>1
      <3>. QED  BY <3>3, <3>10, <3>11
    <2>. QED  BY <2>3, <2>5, <2>6 DEF Passed
  <1>9. pc' \notin {"idle", "read", "removed"}
    BY SMT, <1>1, <1>2, <1>3
  <1>10. FlowAfter
    BY <1>1, <1>7, <1>8, <1>9 DEF Flow, FlowAfter, FlowOf
  <1>. QED  BY <1>1, <1>10, FlowKept


LEMMA FlowStep == RecvInv /\ Flow /\ [Next]_vars => Flow'
  <1>. SUFFICES ASSUME RecvInv, Flow, [Next]_vars PROVE Flow'
    BY SMT
  <1>c. pc \in {"idle", "read", "removed"} => off = Len(readbuf)
    BY DEF Flow, FlowOf
  <1>1. CASE Readable \/ WouldBlock \/ Eof
    <2>1. UNCHANGED <<peer, socket, decoding, delivered>> /\ UNCHANGED fds
      BY <1>1 DEF Readable, WouldBlock, Eof
    <2>2. pc \in {"idle", "read"} /\ pc' \in {"idle", "read"}
      BY SMT, <1>1 DEF Readable, WouldBlock, Eof
    <2>3. pc # "removed" /\ off = Len(readbuf)
      BY SMT, <1>c, <2>2
    <2>. QED  BY <2>1, <2>3, QuietFlow DEF fds
  <1>2. ASSUME NEW n \in 1 .. ReadLen, Recv(n) PROVE Flow'
    BY <1>2, RecvFlow
  <1>3. ASSUME NEW m \in DOMAIN sent, RecvDgram(m) PROVE Flow'
    BY <1>3, RecvDgramFlow
  <1>4. CASE Decode
    BY <1>4, DecodeFlow
  <1>5. CASE NotifyRaw
    BY <1>5, NotifyRawFlow
  <1>6. CASE EndDecode
    BY <1>6, EndDecodeFlow
  <1>7. CASE CallbackReturn
    <2>1. UNCHANGED <<peer, socket, decoding, delivered>> /\ UNCHANGED fds
      BY <1>7 DEF CallbackReturn
    <2>2. pc # "removed" /\ pc' \notin {"idle", "read", "removed"}
      BY SMT, <1>7 DEF CallbackReturn
    <2>. QED  BY <2>1, <2>2, QuietFlow DEF fds
  <1>8. CASE KeepMessage \/ ReleaseMessages \/ pomp_conn_suspend_read \/ pomp_conn_resume_read \/ UNCHANGED vars
    <2>1. UNCHANGED <<peer, socket, decoding, delivered>> /\ UNCHANGED <<current, next, pc>>
      BY <1>8 DEF KeepMessage, ReleaseMessages, pomp_conn_suspend_read, pomp_conn_resume_read, vars, fds
    <2>. QED  BY <1>c, <2>1, QuietFlow
  <1>9. CASE pomp_conn_close
    <2>1. UNCHANGED <<peer, socket, decoding, delivered>> /\ pc = "idle" /\ pc' = "removed"
      BY <1>9 DEF pomp_conn_close
    <2>2. off = Len(readbuf)
      BY SMT, <1>c, <2>1
    <2>. QED  BY <2>1, <2>2, QuietFlow
  <1>. QED
    BY <1>1, <1>2, <1>3, <1>4, <1>5, <1>6, <1>7, <1>8, <1>9 DEF Next, ReadStep

LEMMA FlowGives ==
  ASSUME RecvInv, Flow, israw \/ kind = "dgram" \/ Clear
  PROVE  DeliveredAsSent
  <1>1. ASSUME Messages(delivered) PROVE \A i \in DOMAIN delivered : AsSent(delivered[i])
    <2>1. delivered \in Seq(Delivery) /\ \A i \in 1 .. Len(delivered) : AsSent(delivered[i])
      BY <1>1 DEF Messages
    <2>2. DOMAIN delivered = 1 .. Len(delivered)
      <3>. HIDE DEF Delivery
      <3>. QED  BY SMT, <2>1
    <2>. QED  BY <2>1, <2>2
  <1>2. CASE israw
    <2>. SUFFICES ASSUME kind # "dgram" PROVE delivered = SubSeq(Stream, 1, pos - (Len(readbuf) - off))
      BY <1>2 DEF DeliveredAsSent
    <2>. DEFINE n == pos - (Len(readbuf) - off)
    <2>1. delivered \in Seq(Nat) /\ Len(delivered) = n /\ \A i \in 1 .. Len(delivered) : delivered[i] = Stream[i]
      BY <1>2 DEF Flow, FlowOf, RawFlow, Decoded
    <2>2. n \in Nat
      <3>1. Len(delivered) \in Nat
        BY SMT, <2>1
      <3>. QED  BY <2>1, <3>1
    <2>3. Stream \in Seq(Nat)
      BY StreamIs DEF RecvInv
    <2>. HIDE DEF n, Stream
    <2>4. delivered = [i \in 1 .. n |-> delivered[i]] /\ SubSeq(Stream, 1, n) = [i \in 1 .. n |-> Stream[i]]
      BY SMT, <2>1, <2>2, <2>3
    <2>5. delivered = SubSeq(Stream, 1, n)
      BY <2>1, <2>4
    <2>. QED  BY <2>5 DEF n
  <1>3. CASE ~israw /\ kind = "dgram"
    BY <1>1, <1>3 DEF DeliveredAsSent, Flow, FlowOf
  <1>4. CASE ~israw /\ kind # "dgram"
    <2>1. Messages(delivered) /\ StreamFlow(pos, pc, readbuf, off, prot, current, next, delivered)
      BY <1>4 DEF Flow, FlowOf
    <2>2. PICK m \in 0 .. Len(sent), k \in Nat : StreamAt(m, k, pos, pc, readbuf, off, prot, current, next, delivered)
      BY <2>1 DEF StreamFlow
    <2>3. Ids = Understood(1)[m]
      BY <1>4, <2>2 DEF StreamAt, Ids, IdsOf
    <2>. QED  BY <1>1, <1>4, <2>1, <2>3 DEF DeliveredAsSent
  <1>. QED  BY <1>2, <1>3, <1>4

(***************************************************************************)
(* The theorems                                                             *)
(***************************************************************************)
\* However the kernel cuts the stream and whatever the peer sends, the decoder has a state of its
\* automaton and the tables of descriptors do not overflow.
THEOREM RecvTypeOK == Spec => []TypeOK
  <1>1. RecvInv => TypeOK
    <2>. SUFFICES ASSUME RecvInv PROVE TypeOK
      BY SMT
    <2>1. pc \in {"idle", "read", "decode", "callback", "removed"} /\ off \in 0 .. Len(readbuf) /\ prot \in Decoder
      BY DEF RecvInv, Control, Reading, Sound
    <2>2. ASSUME NEW s, Table(s) PROVE Len(s) \in 0 .. MaxFds
      BY SMT, <2>2, Bounds DEF Table
    <2>3. Len(current) \in 0 .. MaxFds /\ Len(next) \in 0 .. MaxFds /\ Len(held) \in 0 .. MaxFds
      BY <2>2 DEF RecvInv, Places
    <2>4. {Len(current), Len(next), Len(held)} \subseteq 0 .. MaxFds
      BY <2>3
    <2>. QED  BY <2>1, <2>4 DEF TypeOK
  <1>. QED  BY <1>1, RecvInit, RecvStep, PTL DEF Spec

\* For any messages, whatever descriptors the peer attaches to them, and however the kernel cuts
\* the stream, every descriptor the kernel has given is in one place: in one of the two tables, in
\* the buffer of one message, or closed once.
THEOREM FdsAreAccounted == Spec => []FdsAccounted
  <1>1. RecvInv => FdsAccounted
    BY AccountAdds DEF RecvInv, Places
  <1>. QED  BY <1>1, RecvInit, RecvStep, PTL DEF Spec

\* Nothing is read while reading is suspended: pomp_conn_process_read looks at the flag again
\* before every read.
THEOREM NothingReadSuspended == Spec => SuspendedReadsNothing
  <1>1. RecvInv /\ [Next]_vars => [read_suspended => pos' = pos]_vars
    <2>. SUFFICES ASSUME RecvInv, Next, read_suspended PROVE pos' = pos
      OBVIOUS
    <2>1. pc # "read"
      BY DEF RecvInv, Control
    <2>2. CASE ReadStep
      BY <2>1, <2>2 DEF ReadStep, Readable, Recv, RecvDgram, WouldBlock, Eof, Decode, NotifyRaw,
         EndDecode, CallbackReturn, socket
    <2>3. CASE ~ReadStep
      BY <2>3 DEF Next, KeepMessage, ReleaseMessages, pomp_conn_suspend_read, pomp_conn_resume_read,
         pomp_conn_close, socket
    <2>. QED  BY <2>2, <2>3
  <1>. QED  BY <1>1, RecvInit, RecvStep, PTL DEF Spec, SuspendedReadsNothing

\* For any messages, and however the kernel cuts the stream and whenever the program suspends
\* reading: a raw connection gives the bytes of the peer, a datagram that is not truncated is
\* delivered as it was sent, and from a stream that starts with a message the program is given the
\* messages the decoder understands in their order, none twice and none skipped, each with its
\* arguments and, when all the messages describe the descriptors attached to them, with its own
\* descriptors. Clear leaves out a stream that does not start with a message, and a message that is
\* delivered although it has an argument of an unknown type, because the walk of
\* pomp_conn_fixup_rx_fds stops before it at a descriptor that is missing.
THEOREM MessagesDeliveredAsSent == Spec => [](israw \/ kind = "dgram" \/ Clear => DeliveredAsSent)
  <1>1. RecvInv /\ Flow => (israw \/ kind = "dgram" \/ Clear => DeliveredAsSent)
    BY FlowGives
  <1>2. Init => RecvInv /\ Flow
    BY RecvInit, FlowInit
  <1>3. (RecvInv /\ Flow) /\ [Next]_vars => (RecvInv /\ Flow)'
    BY RecvStep, FlowStep
  <1>. QED  BY <1>1, <1>2, <1>3, PTL DEF Spec

=============================================================================
