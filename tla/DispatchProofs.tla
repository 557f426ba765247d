--------------------------- MODULE DispatchProofs ---------------------------
(***************************************************************************)
(* Proofs about Dispatch for any number of events, timers and descriptors:   *)
(* who owns the descriptors, what a timer over timerfd calls back for, what  *)
(* the table of the registrations holds, and which object is called for an   *)
(* entry of a batch.                                                        *)
(***************************************************************************)
EXTENDS Dispatch, FiniteSetTheorems, FunctionTheorems, TLAPS

\* A leaf that names no prover is for Zenon.
USE Zenon

(***************************************************************************)
(* Induction and recursion, in a form without an operator as a parameter     *)
(***************************************************************************)

\* A set of naturals that is not empty has a least element, which Min returns.
LEMMA MinIsLeast ==
  ASSUME NEW S \in SUBSET Nat, S # {}
  PROVE  Min(S) \in S /\ \A y \in S : Min(S) <= y
  <1>. DEFINE R == {ss \in Nat \X Nat : ss[1] < ss[2]}
  <1>1. OpToRel(<, Nat) = R
    BY SMT DEF OpToRel
  <1>2. IsWellFoundedOn(R, Nat)
    BY <1>1, NatLessThanWellFounded
  <1>3. \E x \in S : \A y \in S : ~(<<y, x>> \in R)
    <2>. HIDE DEF R
    <2>. QED  BY <1>2, WFMin
  <1>4. ASSUME NEW x \in Nat, NEW y \in Nat PROVE <<y, x>> \in R <=> y < x
    <2>1. <<y, x>> \in Nat \X Nat /\ <<y, x>>[1] = y /\ <<y, x>>[2] = x
      BY SMT
    <2>. QED  BY SMT, <2>1
  <1>. HIDE DEF R
  <1>5. \E x \in S : \A y \in S : x <= y
    <2>1. PICK x \in S : \A y \in S : ~(<<y, x>> \in R)
      BY SMT, <1>3
    <2>2. \A y \in S : ~(y < x)
      BY <1>4, <2>1
    <2>. QED  BY SMT, <2>2
  <1>. QED  BY <1>5 DEF Min

\* Induction: a set of naturals with 0 and with the successors of its elements has all of them.
LEMMA Induction ==
  ASSUME NEW P, 0 \in P, \A n \in Nat : n \in P => n + 1 \in P
  PROVE  Nat \subseteq P
  <1>. SUFFICES ASSUME Nat \ P # {} PROVE FALSE
    BY SMT
  <1>. DEFINE R == {ss \in Nat \X Nat : ss[1] < ss[2]}
              S == Nat \ P
  <1>1. OpToRel(<, Nat) = R
    BY SMT DEF OpToRel
  <1>2. IsWellFoundedOn(R, Nat)
    BY <1>1, NatLessThanWellFounded
  <1>3. PICK x \in S : \A y \in S : ~(<<y, x>> \in R)
    <2>1. S \in SUBSET Nat /\ S # {}
      BY SMT
    <2>. HIDE DEF R, S
    <2>. QED  BY <1>2, <2>1, WFMin
  <1>4. x \in Nat /\ x # 0 /\ x \notin P
    BY SMT
  <1>5. x - 1 \in Nat /\ x - 1 < x /\ (x - 1) + 1 = x
    BY SMT, <1>4
  <1>6. <<x - 1, x>> \in R
    <2>1. <<x - 1, x>> \in Nat \X Nat /\ <<x - 1, x>>[1] = x - 1 /\ <<x - 1, x>>[2] = x
      BY SMT, <1>4, <1>5
    <2>. QED  BY SMT, <1>5, <2>1
  <1>7. x - 1 \in P
    BY <1>3, <1>5, <1>6
  <1>. QED  BY <1>4, <1>5, <1>7

\* f is defined on a .. b by its first value and, from a value to the next, by step.
Follows(f, a, b, x0, step) == \A i \in a .. b : f[i] = IF i = a THEN x0 ELSE step[i][f[i - 1]]

\* Recursion: there is such a function.
LEMMA Recursion ==
  ASSUME NEW S, NEW a \in Int, NEW x0 \in S, NEW step \in [Int -> [S -> S]]
  PROVE  \A n \in Nat : \E f \in [a .. a + n -> S] : Follows(f, a, a + n, x0, step)
  <1>. DEFINE P == {n \in Nat : \E f \in [a .. a + n -> S] : Follows(f, a, a + n, x0, step)}
  <1>1. 0 \in P
    <2>. DEFINE f == [i \in a .. a + 0 |-> x0]
    <2>1. f \in [a .. a + 0 -> S] /\ Follows(f, a, a + 0, x0, step)
      BY SMT DEF Follows
    <2>. HIDE DEF f
    <2>. QED  BY <2>1
  <1>2. ASSUME NEW n \in Nat, n \in P PROVE n + 1 \in P
    <2>1. PICK f \in [a .. a + n -> S] : Follows(f, a, a + n, x0, step)
      BY SMT, <1>2
    <2>. DEFINE x == step[a + (n + 1)][f[a + n]]
                g == [i \in a .. a + (n + 1) |-> IF i = a + (n + 1) THEN x ELSE f[i]]
    <2>2. a + n \in a .. a + n /\ x \in S
      BY SMT
    <2>3. \A i \in a .. a + (n + 1) : i = a + (n + 1) \/ i \in a .. a + n
      BY SMT
    <2>. HIDE DEF x
    <2>4. g \in [a .. a + (n + 1) -> S]
      BY SMT, <2>2, <2>3
    <2>5. ASSUME NEW i \in a .. a + (n + 1) PROVE g[i] = IF i = a THEN x0 ELSE step[i][g[i - 1]]
      <3>1. CASE i = a + (n + 1)
        <4>1. i # a /\ i - 1 = a + n /\ i - 1 \in a .. a + (n + 1) /\ i - 1 # a + (n + 1)
          BY SMT, <3>1
        <4>2. g[i] = x /\ g[i - 1] = f[a + n]
          BY SMT, <3>1, <4>1
        <4>. QED  BY SMT, <3>1, <4>1, <4>2 DEF x
      <3>2. CASE i \in a .. a + n
        <4>1. i # a + (n + 1) /\ (i # a => i - 1 \in a .. a + n /\ i - 1 # a + (n + 1) /\ i - 1 \in a .. a + (n + 1))
          BY SMT, <3>2
        <4>2. g[i] = f[i] /\ (i # a => g[i - 1] = f[i - 1])
          BY SMT, <4>1
        <4>3. f[i] = IF i = a THEN x0 ELSE step[i][f[i - 1]]
          BY SMT, <2>1, <3>2 DEF Follows
        <4>. HIDE DEF g
        <4>. QED  BY SMT, <4>2, <4>3
      <3>. QED  BY SMT, <2>3, <3>1, <3>2
    <2>6. Follows(g, a, a + (n + 1), x0, step)
      BY SMT, <2>5 DEF Follows
    <2>. HIDE DEF g
    <2>. QED  BY SMT, <2>4, <2>6
  <1>3. Nat \subseteq P
    <2>. HIDE DEF P
    <2>. QED  BY <1>1, <1>2, Induction
  <1>. QED  BY <1>3

\* One sequence after the other
LEMMA ConcatIs ==
  ASSUME NEW T, NEW x \in Seq(T), NEW y \in Seq(T)
  PROVE  /\ x \o y \in Seq(T) /\ Len(x \o y) = Len(x) + Len(y)
         /\ \A i \in 1 .. Len(x) + Len(y) : (x \o y)[i] = IF i <= Len(x) THEN x[i] ELSE y[i - Len(x)]
  BY SMT

\* Registered appends one bucket after the other: f[i] are the entries of the first i buckets.
Appended(f, g) ==
    /\ Registered(g) = f[NBuckets]
    /\ \A i \in 1 .. NBuckets : f[i] = IF i = 1 THEN g.pfds[i] ELSE f[i - 1] \o g.pfds[i]

LEMMA RegisteredIs ==
  ASSUME NEW T, NEW g, g.pfds \in [1 .. NBuckets -> Seq(T)]
  PROVE  \E f \in [1 .. NBuckets -> Seq(T)] : Appended(f, g)
  <1>. DEFINE S == Seq(T)
              n == NBuckets
              s == g.pfds
              step == [i \in Int |-> [x \in S |-> IF i \in 1 .. n THEN x \o s[i] ELSE x]]
              flatten == CHOOSE f : f = [i \in 1 .. n |-> IF i = 1 THEN s[i] ELSE f[i - 1] \o s[i]]
  <1>1. n \in Nat /\ n - 1 \in Nat /\ 1 + (n - 1) = n /\ s[1] \in S /\ \A i \in 1 .. n : s[i] \in S
    <2>1. n \in Nat \ {0}
      BY SMT, Bounds
    <2>2. \A i \in 1 .. n : s[i] \in S
      OBVIOUS
    <2>. HIDE DEF n, s, S
    <2>. QED  BY SMT, <2>1, <2>2
  <1>c. ASSUME NEW x \in S, NEW y \in S PROVE x \o y \in S
    BY SMT
  <1>2. step \in [Int -> [S -> S]]
    <2>. HIDE DEF S, n, s
    <2>. QED  BY <1>1, <1>c
  <1>. HIDE DEF S, n, s, step
  <1>3. PICK f \in [1 .. n -> S] : Follows(f, 1, n, s[1], step)
    <2>1. 1 \in Int /\ s[1] \in S
      BY SMT, <1>1
    <2>2. \A m \in Nat : \E f \in [1 .. 1 + m -> S] : Follows(f, 1, 1 + m, s[1], step)
      BY <1>2, <2>1, Recursion
    <2>3. \E f \in [1 .. 1 + (n - 1) -> S] : Follows(f, 1, 1 + (n - 1), s[1], step)
      BY <1>1, <2>2
    <2>. QED  BY <1>1, <2>3
  <1>4. ASSUME NEW i \in 1 .. n PROVE f[i] = IF i = 1 THEN s[i] ELSE f[i - 1] \o s[i]
    <2>1. CASE i = 1
      BY <1>3, <2>1 DEF Follows
    <2>2. CASE i # 1
      <3>1. i - 1 \in 1 .. n /\ i \in Int
        BY SMT, <1>1, <2>2
      <3>2. f[i - 1] \in S
        BY <1>3, <3>1
      <3>3. step[i][f[i - 1]] = f[i - 1] \o s[i]
        BY <3>1, <3>2 DEF step
      <3>. QED  BY <1>3, <2>2, <3>3 DEF Follows
    <2>. QED  BY <2>1, <2>2
  <1>5. f = [i \in 1 .. n |-> IF i = 1 THEN s[i] ELSE f[i - 1] \o s[i]]
    BY <1>3, <1>4
  <1>6. flatten = [i \in 1 .. n |-> IF i = 1 THEN s[i] ELSE flatten[i - 1] \o s[i]]
    BY <1>5
  <1>7. Registered(g) = flatten[n]
    BY SMT DEF Registered, n, s
  <1>. HIDE DEF flatten
  <1>8. \A i \in 1 .. n : flatten[i] = IF i = 1 THEN s[i] ELSE flatten[i - 1] \o s[i]
    BY <1>6
  <1>9. flatten \in [1 .. n -> S]
    <2>. DEFINE P == {k \in Nat : k + 1 \in 1 .. n => flatten[k + 1] \in S}
    <2>1. 0 \in P
      <3>1. 0 + 1 = 1
        BY SMT
      <3>. QED  BY <1>1, <1>8, <3>1
    <2>2. ASSUME NEW k \in Nat, k \in P PROVE k + 1 \in P
      <3>. SUFFICES ASSUME (k + 1) + 1 \in 1 .. n PROVE flatten[(k + 1) + 1] \in S
        BY SMT, <2>2
      <3>1. k + 1 \in 1 .. n /\ (k + 1) + 1 # 1 /\ ((k + 1) + 1) - 1 = k + 1
        BY SMT, <1>1
      <3>2. flatten[(k + 1) + 1] = flatten[k + 1] \o s[(k + 1) + 1]
        BY <1>8, <3>1
      <3>3. flatten[k + 1] \in S /\ s[(k + 1) + 1] \in S
        BY <1>1, <2>2, <3>1
      <3>. QED  BY <1>c, <3>2, <3>3
    <2>3. Nat \subseteq P
      <3>. HIDE DEF P
      <3>. QED  BY <2>1, <2>2, Induction
    <2>4. \A i \in 1 .. n : i - 1 \in Nat /\ (i - 1) + 1 = i
      BY SMT, <1>1
    <2>5. \A i \in 1 .. n : flatten[i] \in S
      BY <2>3, <2>4
    <2>. QED  BY <1>6, <2>5
  <1>. QED  BY <1>7, <1>8, <1>9 DEF Appended, S, n, s

\* The program's own descriptors are different.
LEMMA RawFdType ==
  /\ RawFd \in [Raws -> 1 .. Cardinality(Raws)]
  /\ \A o, p \in Raws : RawFd[o] = RawFd[p] => o = p
  <1>1. IsFiniteSet(Raws)
    BY SMT, ObjsFinite, FS_Subset DEF Objs
  <1>2. ExistsBijection(Raws, 1 .. Cardinality(Raws))
    BY SMT, <1>1, FS_CardinalityType, Fun_ExistsBijSymmetric
  <1>3. PICK f : f \in Bijection(Raws, 1 .. Cardinality(Raws))
    BY SMT, <1>2, Fun_ExistsBij
  <1>4. f \in [Raws -> 1 .. Cardinality(Raws)] /\ \A o, p \in Raws : f[o] = f[p] => o = p
    BY SMT, <1>3 DEF Bijection, Injection, Surjection, IsInjective
  <1>. QED  BY SMT, <1>4 DEF RawFd

\* The open descriptors are those of the objects, each of one object.
Owned ==
    /\ fd \in [Objs -> Fds \union {0}]
    /\ open = {fd[o] : o \in {x \in Objs : Alive(x)}}
    /\ \A o, p \in Objs : Alive(o) /\ fd[o] = fd[p] => o = p

\* There is always a descriptor that is free.
LEMMA NewFdIsFree ==
  ASSUME Owned PROVE NewFd \in Fds /\ NewFd \notin open
  <1>. DEFINE A == {x \in Objs : Alive(x)}
              f == [o \in A |-> fd[o]]
              n == Cardinality(Objs)
  <1>1. n \in Nat /\ IsFiniteSet(A) /\ Cardinality(A) <= n /\ Cardinality(A) \in Nat
    BY SMT, ObjsFinite, FS_Subset, FS_CardinalityType
  <1>2. f \in Surjection(A, open)
    BY SMT DEF Owned, Surjection
  <1>3. IsFiniteSet(open) /\ Cardinality(open) <= n /\ Cardinality(open) \in Nat
    <2>1. IsFiniteSet(open) /\ Cardinality(open) <= Cardinality(A)
      BY SMT, <1>1, <1>2, FS_Surjection
    <2>2. Cardinality(open) \in Nat
      BY SMT, <2>1, FS_CardinalityType
    <2>. QED  BY SMT, <1>1, <2>1, <2>2
  <1>4. Cardinality(Fds) = n + 1
    BY SMT, <1>1, FS_Interval DEF Fds
  <1>5. ~(Fds \subseteq open)
    <2>. SUFFICES ASSUME Fds \subseteq open PROVE FALSE
      BY SMT
    <2>1. Cardinality(Fds) <= Cardinality(open)
      BY SMT, <1>3, FS_Subset
    <2>. QED  BY SMT, <1>1, <1>3, <1>4, <2>1
  <1>6. Fds \ open \in SUBSET Nat /\ Fds \ open # {}
    BY SMT, <1>1, <1>5 DEF Fds
  <1>. QED  BY SMT, <1>6, MinIsLeast DEF NewFd

\* An object gets a free descriptor.
LEMMA Opens ==
  ASSUME Owned, NEW o \in Objs, ~Alive(o),
         fd' = [fd EXCEPT ![o] = NewFd], open' = open \union {NewFd}
  PROVE  Owned' /\ \A p \in Objs : Alive(p)' <=> Alive(p) \/ p = o
  <1>1. NewFd \in Fds /\ NewFd \notin open /\ NewFd # 0 /\ 0 \notin open
    <2>1. Cardinality(Objs) \in Nat
      BY SMT, ObjsFinite, FS_CardinalityType
    <2>. QED  BY SMT, <2>1, NewFdIsFree DEF Fds, Owned, Alive
  <1>. HIDE DEF NewFd
  <1>2. fd' \in [Objs -> Fds \union {0}]
    BY SMT, <1>1 DEF Owned
  <1>3. \A p \in Objs : fd'[p] = IF p = o THEN NewFd ELSE fd[p]
    BY SMT DEF Owned
  <1>4. \A p \in Objs : Alive(p)' <=> Alive(p) \/ p = o
    BY SMT, <1>1, <1>3 DEF Alive
  <1>5. open' = {fd'[p] : p \in {x \in Objs : Alive(x)'}}
    BY SMT, <1>3, <1>4 DEF Owned
  <1>6. \A p \in Objs : Alive(p) => fd[p] # NewFd
    BY SMT, <1>1 DEF Owned
  <1>7. \A p, q \in Objs : Alive(p)' /\ fd'[p] = fd'[q] => p = q
    <2>. TAKE p, q \in Objs
    <2>. HAVE Alive(p)' /\ fd'[p] = fd'[q]
    <2>1. CASE p = o
      BY SMT, <1>1, <1>3, <1>6, <2>1 DEF Alive
    <2>2. CASE p # o
      BY SMT, <1>3, <1>4, <1>6, <2>2 DEF Owned
    <2>. QED  BY SMT, <2>1, <2>2
  <1>. QED  BY SMT, <1>2, <1>4, <1>5, <1>7 DEF Owned

\* An object closes its descriptor.
LEMMA Closes ==
  ASSUME Owned, NEW o \in Objs, Alive(o),
         fd' = [fd EXCEPT ![o] = 0], open' = open \ {fd[o]}
  PROVE  Owned' /\ \A p \in Objs : Alive(p)' <=> Alive(p) /\ p # o
  <1>1. fd' \in [Objs -> Fds \union {0}] /\ \A p \in Objs : fd'[p] = IF p = o THEN 0 ELSE fd[p]
    BY SMT DEF Owned
  <1>2. \A p \in Objs : Alive(p)' <=> Alive(p) /\ p # o
    BY SMT, <1>1 DEF Alive
  <1>3. \A p \in Objs : Alive(p) /\ p # o => fd[p] # fd[o]
    BY SMT DEF Owned
  <1>4. open' = {fd'[p] : p \in {x \in Objs : Alive(x)'}}
    BY SMT, <1>1, <1>2, <1>3 DEF Owned
  <1>5. \A p, q \in Objs : Alive(p)' /\ fd'[p] = fd'[q] => p = q
    BY SMT, <1>1, <1>2 DEF Owned, Alive
  <1>. QED  BY SMT, <1>1, <1>2, <1>4, <1>5 DEF Owned

\* The descriptors of the objects, with what else the steps rely on: the idle event lives as long as the
\* loop, and the program's own descriptors stay open.
OwnInv ==
    /\ Owned
    /\ loop \in {"none", "alive", "destroying"} /\ (loop = "none" <=> ~Alive(Idle))
    /\ \A o \in Raws : Alive(o)
    /\ attached \subseteq {o \in Objs : Alive(o)}
    /\ orphans \subseteq zero /\ zero \subseteq Timers

\* Nothing is open at first but the program's own descriptors.
LEMMA OwnInit ==
  ASSUME Init PROVE OwnInv
  <1>1. Cardinality(Objs) \in Nat /\ Cardinality(Raws) \in Nat /\ Cardinality(Raws) <= Cardinality(Objs)
    BY SMT, ObjsFinite, FS_Subset, FS_CardinalityType DEF Objs
  <1>2. \A o \in Raws : RawFd[o] \in Fds /\ RawFd[o] # 0
    BY SMT, <1>1, RawFdType DEF Fds
  <1>3. fd \in [Objs -> Fds \union {0}] /\ \A o \in Objs : fd[o] = IF o \in Raws THEN RawFd[o] ELSE 0
    BY SMT, <1>2 DEF Init
  <1>4. \A o \in Objs : Alive(o) <=> o \in Raws
    BY SMT, <1>2, <1>3 DEF Alive
  <1>5. open = {fd[o] : o \in {x \in Objs : Alive(x)}}
    BY <1>3, <1>4 DEF Init, Objs
  <1>6. \A o, p \in Objs : Alive(o) /\ fd[o] = fd[p] => o = p
    <2>. TAKE o, p \in Objs
    <2>. HAVE Alive(o) /\ fd[o] = fd[p]
    <2>1. o \in Raws /\ p \in Raws
      BY SMT, <1>2, <1>3, <1>4
    <2>. QED  BY SMT, <1>3, <2>1, RawFdType
  <1>7. Idle \in Objs /\ Idle \notin Raws
    BY SMT, Sorts DEF Objs
  <1>. QED  BY <1>3, <1>4, <1>5, <1>6, <1>7 DEF Init, OwnInv, Owned, Objs

\* The other steps leave the descriptors as they are.
LEMMA OwnUnchanged ==
  ASSUME OwnInv, UNCHANGED <<loop, fd, open, zero, orphans>>,
         attached' \subseteq {o \in Objs : Alive(o)}
  PROVE  OwnInv'
  BY SMT DEF OwnInv, Owned, Alive

LEMMA OwnStep ==
  ASSUME OwnInv, [Next]_vars PROVE OwnInv'
  <1>. USE DEF objvars, thread
  <1>i. Idle \in Objs /\ Idle \notin Raws /\ Evts \subseteq Objs /\ Timers \subseteq Objs /\ Raws \subseteq Objs
    BY SMT, Sorts DEF Objs
  <1>d. \A o \in Evts \union Timers : o \notin Raws
    BY SMT, Sorts
  <1>a. \A o \in Timers : o # Idle
    BY SMT, Sorts
  <1>1. CASE pomp_loop_new
    <2>1. Owned' /\ \A p \in Objs : Alive(p)' <=> Alive(p) \/ p = Idle
      BY <1>1, <1>i, Opens DEF pomp_loop_new, OwnInv
    <2>2. attached' \subseteq {o \in Objs : Alive(o)'}
      BY SMT, <1>1, <1>i, <2>1 DEF pomp_loop_new, OwnInv
    <2>. QED  BY SMT, <1>1, <1>i, <2>1, <2>2 DEF pomp_loop_new, OwnInv
  <1>2. ASSUME NEW busy \in BOOLEAN, pomp_loop_destroy(busy) PROVE OwnInv'
    <2>1. CASE UNCHANGED <<fd, open>> /\ loop' = "destroying"
      BY SMT, <1>2, <2>1 DEF pomp_loop_destroy, OwnInv, Owned, Alive
    <2>2. CASE loop' = "none" /\ fd' = [fd EXCEPT ![Idle] = 0] /\ open' = open \ {fd[Idle]}
      <3>1. Owned' /\ \A p \in Objs : Alive(p)' <=> Alive(p) /\ p # Idle
        BY <1>2, <1>i, <2>2, Closes DEF pomp_loop_destroy, OwnInv
      <3>. QED  BY SMT, <1>2, <1>i, <2>2, <3>1 DEF pomp_loop_destroy, OwnInv
    <2>. QED  BY SMT, <1>2, <2>1, <2>2 DEF pomp_loop_destroy
  <1>3. ASSUME NEW e \in Evts, pomp_evt_new(e) PROVE OwnInv'
    <2>1. Owned' /\ \A p \in Objs : Alive(p)' <=> Alive(p) \/ p = e
      BY <1>3, <1>i, Opens DEF pomp_evt_new, OwnInv
    <2>. QED  BY SMT, <1>3, <1>i, <2>1 DEF pomp_evt_new, OwnInv
  <1>4. ASSUME NEW e \in Evts, pomp_evt_destroy(e) PROVE OwnInv'
    <2>1. Owned' /\ \A p \in Objs : Alive(p)' <=> Alive(p) /\ p # e
      BY <1>4, <1>i, Closes DEF pomp_evt_destroy, OwnInv
    <2>. QED  BY SMT, <1>4, <1>i, <1>d, <2>1 DEF pomp_evt_destroy, OwnInv
  <1>5. ASSUME NEW e \in Evts, NEW fails \in Failures, pomp_evt_attach_to_loop(e, fails) PROVE OwnInv'
    <2>1. attached' \subseteq {o \in Objs : Alive(o)}
      BY SMT, <1>5, <1>i DEF pomp_evt_attach_to_loop, OwnInv
    <2>. QED  BY SMT, <1>5, <2>1, OwnUnchanged DEF pomp_evt_attach_to_loop
  <1>6. ASSUME NEW e \in Evts, pomp_evt_detach_from_loop(e) PROVE OwnInv'
    <2>1. attached' \subseteq {o \in Objs : Alive(o)}
      BY SMT, <1>6 DEF pomp_evt_detach_from_loop, OwnInv
    <2>. QED  BY SMT, <1>6, <2>1, OwnUnchanged DEF pomp_evt_detach_from_loop
  <1>7. ASSUME NEW o \in Raws, NEW events \in EventSets, NEW fails \in Failures, AddRaw(o, events, fails)
        PROVE  OwnInv'
    <2>1. attached' \subseteq {p \in Objs : Alive(p)}
      BY SMT, <1>7, <1>i DEF AddRaw, OwnInv
    <2>. QED  BY SMT, <1>7, <2>1, OwnUnchanged DEF AddRaw
  <1>8. ASSUME NEW o \in Raws, RemoveRaw(o) PROVE OwnInv'
    <2>1. attached' \subseteq {p \in Objs : Alive(p)}
      BY SMT, <1>8 DEF RemoveRaw, OwnInv
    <2>. QED  BY SMT, <1>8, <2>1, OwnUnchanged DEF RemoveRaw
  <1>9. ASSUME NEW t \in Timers, NEW fails \in Failures, NEW z \in BOOLEAN, pomp_timer_new(t, fails, z)
        PROVE  OwnInv'
    <2>1. CASE fails
      <3>1. (open \union {NewFd}) \ {NewFd} = open
        BY SMT, NewFdIsFree DEF OwnInv
      <3>2. UNCHANGED <<loop, fd, open, zero, orphans, attached>>
        BY SMT, <1>9, <2>1, <3>1 DEF pomp_timer_new
      <3>. QED  BY SMT, <3>2, OwnUnchanged DEF OwnInv
    <2>2. CASE ~fails
      <3>1. Owned' /\ \A p \in Objs : Alive(p)' <=> Alive(p) \/ p = t
        BY SMT, <1>9, <1>i, <2>2, Opens DEF pomp_timer_new, OwnInv
      <3>2. loop' = loop /\ orphans' = orphans /\ attached' = attached \union {t}
            /\ zero \subseteq zero' /\ zero' \subseteq zero \union {t}
        BY SMT, <1>9, <2>2 DEF pomp_timer_new
      <3>. QED  BY SMT, <1>a, <1>i, <3>1, <3>2 DEF OwnInv
    <2>. QED  BY SMT, <2>1, <2>2
  <1>10. ASSUME NEW t \in Timers, pomp_timer_destroy(t) PROVE OwnInv'
    <2>1. Owned' /\ \A p \in Objs : Alive(p)' <=> Alive(p) /\ p # t
      BY <1>10, <1>i, Closes DEF pomp_timer_destroy, OwnInv
    <2>2. loop' = loop /\ zero' = zero /\ orphans' \subseteq zero' /\ attached' = attached \ {t}
      BY SMT, <1>10 DEF pomp_timer_destroy, OwnInv
    <2>. QED  BY SMT, <1>a, <1>d, <1>i, <2>1, <2>2 DEF OwnInv
  <1>11. CASE UNCHANGED <<loop, fd, open, zero, orphans, attached>>
    BY SMT, <1>11, OwnUnchanged DEF OwnInv
  <1>12. CASE LoopThread
    BY SMT, <1>11, <1>12 DEF LoopThread, Process, CheckPeriod, Rearm, CallbackReturn, EndOfBatch
  <1>. QED
    BY <1>1, <1>2, <1>3, <1>4, <1>5, <1>6, <1>7, <1>8, <1>9, <1>10, <1>11, <1>12
    DEF Next, vars, UpdateRaw, pomp_evt_signal, pomp_evt_clear, pomp_timer_set, Expire, Wait

\* Every open descriptor belongs to one object, whatever fails and in whatever order objects are created
\* and destroyed, from inside and outside of callbacks.
THEOREM DescriptorsHaveOwner == Spec => []DescriptorsOwned
  <1>1. OwnInv => DescriptorsOwned
    BY SMT DEF OwnInv, Owned, DescriptorsOwned
  <1>. QED  BY <1>1, OwnInit, OwnStep, PTL DEF Spec

(***************************************************************************)
(* Timers over timerfd                                                      *)
(***************************************************************************)
\* What a timerfd holds is due, a timer of the kernel is the one that was asked for, and the period is
\* left to the kernel.
TimerInv ==
    /\ count \in [Objs -> Nat] /\ due \subseteq Objs
    /\ armed \in [Timers -> {"off", "once", "periodic"}]
    /\ asked \in [Timers -> {"off", "once", "periodic"}]
    /\ period \in [Timers -> BOOLEAN]
    /\ build = "linux" =>
        /\ pc \notin {"check", "rearm"}
        /\ \A t \in Timers : /\ count[t] > 0 => t \in due
                             /\ armed[t] # "off" => armed[t] = asked[t]
                             /\ ~period[t]
        /\ pc = "callback" => cb \notin Timers \/ real

\* What a step does to the counters keeps them naturals.
LEMMA CountsAreNat ==
  ASSUME NEW c \in Nat PROVE Min({c + 1, MaxCount}) \in Nat /\ Max({c - 1, 0}) \in Nat
  <1>1. MaxCount \in Nat
    BY SMT, Bounds
  <1>2. {c + 1, MaxCount} \in SUBSET Nat /\ {c + 1, MaxCount} # {}
    BY SMT, <1>1
  <1>3. \E x \in {c - 1, 0} : \A y \in {c - 1, 0} : x >= y
    BY SMT
  <1>4. Max({c - 1, 0}) \in {c - 1, 0} /\ \A y \in {c - 1, 0} : Max({c - 1, 0}) >= y
    BY SMT, <1>3 DEF Max
  <1>. QED  BY SMT, <1>2, <1>4, MinIsLeast

LEMMA TimerInit ==
  ASSUME Init PROVE TimerInv
  BY SMT DEF Init, TimerInv, Objs

LEMMA TimerStep ==
  ASSUME TimerInv, [Next]_vars PROVE TimerInv'
  <1>. USE DEF objvars, thread
  <1>i. Evts \subseteq Objs /\ Timers \subseteq Objs /\ \A t \in Timers : t \notin Evts /\ t \notin Raws
    BY SMT, Sorts DEF Objs
  <1>1. CASE UNCHANGED <<build, count, due, armed, asked, period, thread>>
    BY SMT, <1>1 DEF TimerInv
  <1>2. ASSUME NEW e \in Evts, pomp_evt_destroy(e) PROVE TimerInv'
    BY SMT, <1>2, <1>i DEF pomp_evt_destroy, TimerInv
  <1>3. ASSUME NEW t \in Timers, pomp_timer_destroy(t) PROVE TimerInv'
    BY SMT, <1>3, <1>i DEF pomp_timer_destroy, TimerInv
  <1>4. ASSUME NEW e \in Evts, pomp_evt_signal(e) PROVE TimerInv'
    BY SMT, <1>4, <1>i DEF pomp_evt_signal, TimerInv
  <1>5. ASSUME NEW e \in Evts, pomp_evt_clear(e) PROVE TimerInv'
    BY SMT, <1>5, <1>i DEF pomp_evt_clear, TimerInv
  <1>6. ASSUME NEW t \in Timers, NEW mode \in {"off", "once", "periodic"}, pomp_timer_set(t, mode)
        PROVE  TimerInv'
    <2>1. /\ count' \in [Objs -> Nat] /\ due' \subseteq Objs
          /\ armed' \in [Timers -> {"off", "once", "periodic"}]
          /\ asked' \in [Timers -> {"off", "once", "periodic"}]
          /\ period' \in [Timers -> BOOLEAN]
      BY SMT, <1>6, <1>i DEF pomp_timer_set, TimerInv
    <2>2. CASE build = "linux"
      BY SMT, <1>6, <1>i, <2>1, <2>2 DEF pomp_timer_set, TimerInv
    <2>. QED  BY SMT, <1>6, <2>1, <2>2 DEF pomp_timer_set, TimerInv
  <1>7. ASSUME NEW t \in Timers, Expire(t) PROVE TimerInv'
    <2>1. Min({count[t] + 1, MaxCount}) \in Nat
      BY <1>i, CountsAreNat DEF TimerInv
    <2>2. /\ count' \in [Objs -> Nat] /\ due' \subseteq Objs
          /\ armed' \in [Timers -> {"off", "once", "periodic"}]
          /\ asked' \in [Timers -> {"off", "once", "periodic"}]
          /\ period' \in [Timers -> BOOLEAN]
      BY SMT, <1>7, <1>i, <2>1 DEF Expire, TimerInv
    <2>3. CASE build = "linux"
      BY SMT, <1>7, <1>i, <2>1, <2>2, <2>3 DEF Expire, TimerInv
    <2>. QED  BY SMT, <1>7, <2>2, <2>3 DEF Expire, TimerInv
  <1>8. CASE Wait
    BY SMT, <1>8 DEF Wait, TimerInv
  <1>9. CASE Process
    <2>. DEFINE o == Lookup(Head(batch))
    <2>0. UNCHANGED <<build, armed, period, asked>> /\ pc = "batch"
      BY SMT, <1>9 DEF Process
    <2>. HIDE DEF o
    <2>1. CASE Skip /\ UNCHANGED count
      BY SMT, <2>0, <2>1 DEF Skip, TimerInv
    <2>2. CASE o \in Raws /\ pc' = "callback" /\ cb' = o /\ UNCHANGED <<count, due>>
      BY SMT, <1>i, <2>0, <2>2 DEF TimerInv
    <2>3. CASE o \in Evts /\ evt_cb(o)
      BY SMT, <1>i, <2>0, <2>3 DEF TimerInv, evt_cb, Call
    <2>4. CASE o \in Timers /\ build = "linux" /\ timer_fd_cb(o)
      <3>1. CASE count[o] > 0
        <4>1. o \in due
          BY SMT, <2>4, <3>1 DEF TimerInv
        <4>2. pc' = "callback" /\ cb' = o /\ due' = due \ {o} /\ count' = [count EXCEPT ![o] = 0]
          BY SMT, <2>4, <3>1 DEF timer_fd_cb, Call
        <4>3. real' = (o \in due)
          BY SMT, <2>4, <3>1 DEF timer_fd_cb, Call
        <4>4. real'
          BY <4>1, <4>3
        <4>. QED  BY SMT, <1>i, <2>0, <2>4, <4>2, <4>4 DEF TimerInv
      <3>2. CASE ~(count[o] > 0)
        BY SMT, <1>i, <2>0, <2>4, <3>2 DEF TimerInv, timer_fd_cb, Skip
      <3>. QED  BY SMT, <3>1, <3>2
    <2>5. CASE o \in Timers /\ build = "posix" /\ timer_posix_cb(o)
      <3>1. Max({count[o] - 1, 0}) \in Nat
        BY <1>i, <2>5, CountsAreNat DEF TimerInv
      <3>. QED  BY SMT, <1>i, <2>0, <2>5, <3>1 DEF TimerInv, timer_posix_cb, Call
    <2>6. CASE o \in Timers /\ build = "bsd" /\ timer_kqueue_cb(o)
      BY SMT, <1>i, <2>0, <2>6 DEF TimerInv, timer_kqueue_cb, Skip
    <2>. QED  BY SMT, <1>9, <2>1, <2>2, <2>3, <2>4, <2>5, <2>6 DEF Process, o
  <1>10. CASE CheckPeriod
    BY SMT, <1>10 DEF CheckPeriod, TimerInv
  <1>11. CASE Rearm
    BY <1>11 DEF Rearm, TimerInv
  <1>12. CASE CallbackReturn \/ EndOfBatch
    BY SMT, <1>12 DEF CallbackReturn, EndOfBatch, TimerInv
  <1>. QED
    BY <1>1, <1>2, <1>3, <1>4, <1>5, <1>6, <1>7, <1>8, <1>9, <1>10, <1>11, <1>12
    DEF Next, LoopThread, vars, pomp_loop_new, pomp_loop_destroy, pomp_evt_new, pomp_evt_attach_to_loop,
        pomp_evt_detach_from_loop, AddRaw, UpdateRaw, RemoveRaw, pomp_timer_new

\* A timer over timerfd never calls back for an expiration that was cleared or belongs to an earlier
\* setting, whatever other threads do between epoll_wait and the read of the timer.
THEOREM TimerCallbacksAreDue == Spec => []TimerCallbackDue
  <1>1. TimerInv => TimerCallbackDue
    BY SMT DEF TimerInv, TimerCallbackDue
  <1>. QED  BY <1>1, TimerInit, TimerStep, PTL DEF Spec

(***************************************************************************)
(* The table of the registrations                                           *)
(***************************************************************************)
Entries == [fd : Fds, events : SUBSET {"IN", "OUT"}, obj : Objs]
Interest == [fd : Fds, events : SUBSET {"IN", "OUT"}]
Tables == [pfds : [1 .. NBuckets -> Seq(Entries)], pfdcount : Int, interest : SUBSET Interest]

\* Bucket b holds objects of A with the descriptors that f gives them, each once.
Bucket(s, b, A, f) ==
    /\ s \in Seq(Entries)
    /\ \A i \in 1 .. Len(s) : index_fd(s[i].fd) = b /\ s[i].obj \in A /\ f[s[i].obj] = s[i].fd
    /\ \A i, j \in 1 .. Len(s) : s[i].fd = s[j].fd => i = j

Good(g, A, f) ==
    /\ g \in Tables
    /\ \A b \in 1 .. NBuckets : Bucket(g.pfds[b], b, A, f)

\* What is in a bucket, and in the table
In(p, s) == \E i \in 1 .. Len(s) : s[i] = p
Ent(g) == {p \in Entries : In(p, g.pfds[index_fd(p.fd)])}

\* From g to h the entries become E and the count c, and epoll monitors the same.
Becomes(g, h, E, c) == Ent(h) = E /\ h.pfdcount = c /\ h.interest = g.interest

LEMMA FdsAreNat ==
  /\ Fds \subseteq Nat \ {0}
  /\ \A n \in Fds : index_fd(n) \in 1 .. NBuckets
  <1>1. NBuckets \in Nat \ {0} /\ Cardinality(Objs) \in Nat
    BY SMT, Bounds, ObjsFinite, FS_CardinalityType
  <1>. QED  BY SMT, <1>1 DEF Fds, index_fd

\* find_pfd finds the entry with a descriptor if there is one.
LEMMA FindIs ==
  ASSUME NEW g, NEW n, g.pfds[index_fd(n)] \in Seq(Entries)
  PROVE  \/ find_pfd(g, n) = 0 /\ \A i \in 1 .. Len(g.pfds[index_fd(n)]) : g.pfds[index_fd(n)][i].fd # n
         \/ find_pfd(g, n) \in 1 .. Len(g.pfds[index_fd(n)]) /\ g.pfds[index_fd(n)][find_pfd(g, n)].fd = n
  <1>. DEFINE s == g.pfds[index_fd(n)]
              I == {i \in 1 .. Len(s) : s[i].fd = n}
  <1>1. find_pfd(g, n) = IF I # {} THEN Min(I) ELSE 0
    <2>1. DOMAIN s = 1 .. Len(s)
      BY SMT
    <2>. QED  BY <2>1 DEF find_pfd
  <1>2. I \in SUBSET Nat
    BY SMT
  <1>3. CASE I = {}
    BY SMT, <1>1, <1>3
  <1>4. CASE I # {}
    <2>1. Min(I) \in I
      BY <1>2, <1>4, MinIsLeast
    <2>. QED  BY SMT, <1>1, <1>4, <2>1
  <1>. QED  BY SMT, <1>3, <1>4

\* Taking an element out of a sequence
RemoveAt(s, k) == SubSeq(s, 1, k - 1) \o SubSeq(s, k + 1, Len(s))

LEMMA RemoveAtIs ==
  ASSUME NEW T, NEW s \in Seq(T), NEW k \in 1 .. Len(s)
  PROVE  /\ RemoveAt(s, k) \in Seq(T) /\ Len(RemoveAt(s, k)) = Len(s) - 1
         /\ \A i \in 1 .. Len(s) - 1 : RemoveAt(s, k)[i] = IF i < k THEN s[i] ELSE s[i + 1]
  <1>. DEFINE a == SubSeq(s, 1, k - 1)
              c == SubSeq(s, k + 1, Len(s))
  <1>1. a \in Seq(T) /\ Len(a) = k - 1 /\ \A i \in 1 .. k - 1 : a[i] = s[i]
    BY SMT
  <1>2. c \in Seq(T) /\ Len(c) = Len(s) - k /\ \A i \in 1 .. Len(s) - k : c[i] = s[i + k]
    BY SMT
  <1>3. RemoveAt(s, k) = a \o c
    BY SMT DEF RemoveAt
  <1>. HIDE DEF a, c
  <1>4. a \o c \in Seq(T) /\ Len(a \o c) = Len(s) - 1
        /\ \A i \in 1 .. Len(s) - 1 : (a \o c)[i] = IF i <= k - 1 THEN a[i] ELSE c[i - (k - 1)]
    <2>1. a \o c \in Seq(T) /\ Len(a \o c) = Len(a) + Len(c)
          /\ \A i \in 1 .. Len(a) + Len(c) : (a \o c)[i] = IF i <= Len(a) THEN a[i] ELSE c[i - Len(a)]
      BY <1>1, <1>2, ConcatIs
    <2>2. Len(a) + Len(c) = Len(s) - 1 /\ Len(a) = k - 1
      BY SMT, <1>1, <1>2
    <2>. QED  BY <2>1, <2>2
  <1>5. ASSUME NEW i \in 1 .. Len(s) - 1 PROVE (a \o c)[i] = IF i < k THEN s[i] ELSE s[i + 1]
    <2>1. CASE i < k
      <3>1. i \in 1 .. k - 1 /\ i <= k - 1
        BY SMT, <2>1
      <3>. QED  BY <1>1, <1>4, <2>1, <3>1
    <2>2. CASE ~(i < k)
      <3>1. i - (k - 1) \in 1 .. Len(s) - k /\ (i - (k - 1)) + k = i + 1 /\ ~(i <= k - 1)
        BY SMT, <2>2
      <3>2. (a \o c)[i] = c[i - (k - 1)]
        BY <1>4, <3>1
      <3>3. c[i - (k - 1)] = s[(i - (k - 1)) + k]
        BY <1>2, <3>1
      <3>. QED  BY <2>2, <3>1, <3>2, <3>3
    <2>. QED  BY <2>1, <2>2
  <1>. QED  BY <1>3, <1>4, <1>5

\* Only the descriptors of the objects in A matter.
LEMMA GoodChange ==
  ASSUME NEW g, NEW A, NEW B, NEW f, NEW h, Good(g, A, f), A \subseteq B, \A o \in A : h[o] = f[o]
  PROVE  Good(g, B, h)
  BY SMT DEF Good, Bucket

\* A table with nothing in it
LEMMA GoodNoReg ==
  ASSUME NEW A, NEW f PROVE Good(NoReg, A, f)
  <1>1. <<>> \in Seq(Entries) /\ Len(<<>>) = 0
    BY SMT
  <1>2. NoReg \in Tables /\ \A b \in 1 .. NBuckets : NoReg.pfds[b] = <<>>
    BY SMT DEF NoReg, Tables
  <1>3. \A b \in 1 .. NBuckets : Bucket(<<>>, b, A, f)
    BY SMT, <1>1 DEF Bucket
  <1>. QED  BY SMT, <1>2, <1>3 DEF Good

\* A record of three fields with two of them changed
LEMMA RecordUpdate ==
  ASSUME NEW P, NEW Q, NEW g \in [pfds : P, pfdcount : Int, interest : Q], NEW q \in P, NEW c \in Int
  PROVE  /\ [g EXCEPT !.pfds = q, !.pfdcount = c] \in [pfds : P, pfdcount : Int, interest : Q]
         /\ [g EXCEPT !.pfds = q, !.pfdcount = c].pfds = q
         /\ [g EXCEPT !.pfds = q, !.pfdcount = c].pfdcount = c
         /\ [g EXCEPT !.pfds = q, !.pfdcount = c].interest = g.interest
  OBVIOUS

\* h is g with other buckets and another count.
Updated(g, h, q, c) == h \in Tables /\ h.pfds = q /\ h.pfdcount = c /\ h.interest = g.interest

LEMMA TableUpdate ==
  ASSUME NEW g \in Tables, NEW q \in [1 .. NBuckets -> Seq(Entries)], NEW c \in Int
  PROVE  Updated(g, [g EXCEPT !.pfds = q, !.pfdcount = c], q, c)
  <1>. DEFINE P == [1 .. NBuckets -> Seq(Entries)]
              Q == SUBSET Interest
  <1>1. g \in [pfds : P, pfdcount : Int, interest : Q] /\ q \in P
    BY SMT DEF Tables
  <1>2. Tables = [pfds : P, pfdcount : Int, interest : Q]
    BY SMT DEF Tables
  <1>. HIDE DEF P, Q
  <1>. QED  BY <1>1, <1>2, RecordUpdate DEF Updated

\* h is g with r for bucket x; E are the entries of r, and of g for the other buckets.
OneBucket(g, h, x, r) == \A b \in 1 .. NBuckets : h.pfds[b] = IF b = x THEN r ELSE g.pfds[b]
OneChanged(g, E, x, r) ==
    /\ E \in SUBSET Entries
    /\ \A p \in Entries : index_fd(p.fd) = x => (p \in E <=> In(p, r))
    /\ \A p \in Entries : index_fd(p.fd) # x => (p \in E <=> p \in Ent(g))

LEMMA EntChange ==
  ASSUME NEW g, NEW h, NEW x, NEW r, NEW E, OneBucket(g, h, x, r), OneChanged(g, E, x, r)
  PROVE  Ent(h) = E
  <1>. USE DEF OneBucket, OneChanged
  <1>1. \A p \in Entries : index_fd(p.fd) \in 1 .. NBuckets
    BY FdsAreNat DEF Entries
  <1>2. ASSUME NEW p \in Entries PROVE p \in Ent(h) <=> p \in E
    <2>1. h.pfds[index_fd(p.fd)] = IF index_fd(p.fd) = x THEN r ELSE g.pfds[index_fd(p.fd)]
      BY <1>1
    <2>2. p \in Ent(h) <=> In(p, h.pfds[index_fd(p.fd)])
      BY DEF Ent
    <2>3. p \in Ent(g) <=> In(p, g.pfds[index_fd(p.fd)])
      BY DEF Ent
    <2>. QED  BY <2>1, <2>2, <2>3
  <1>3. Ent(h) \subseteq Entries
    BY DEF Ent
  <1>. QED  BY <1>2, <1>3

\* After remove_pfd no entry has the descriptor, so that its object may leave A.
LEMMA GoodRemovePfd ==
  ASSUME NEW g, NEW A, NEW f, Good(g, A, f), NEW o \in Objs, NEW n \in Fds, f[o] = n,
         find_pfd(g, n) # 0
  PROVE  /\ Good(remove_pfd(g, n), A \ {o}, f)
         /\ Becomes(g, remove_pfd(g, n), {p \in Ent(g) : p.fd # n}, g.pfdcount - 1)
  <1>. DEFINE x == index_fd(n)
              s == g.pfds[x]
              k == find_pfd(g, n)
              r == RemoveAt(s, k)
              h == remove_pfd(g, n)
  <1>1. x \in 1 .. NBuckets
    BY SMT, FdsAreNat
  <1>2. s \in Seq(Entries) /\ Bucket(s, x, A, f)
    BY SMT, <1>1 DEF Good, Bucket
  <1>3. k \in 1 .. Len(s) /\ s[k].fd = n
    BY SMT, <1>2, FindIs
  <1>. HIDE DEF k
  <1>4. r \in Seq(Entries) /\ Len(r) = Len(s) - 1
        /\ \A i \in 1 .. Len(s) - 1 : r[i] = IF i < k THEN s[i] ELSE s[i + 1]
    BY <1>2, <1>3, RemoveAtIs
  <1>5. h = [g EXCEPT !.pfds[x] = r, !.pfdcount = @ - 1]
    BY SMT DEF remove_pfd, RemoveAt, k
  <1>. HIDE DEF r, s, x, h
  <1>6. h \in Tables /\ h.pfdcount = g.pfdcount - 1 /\ h.interest = g.interest
        /\ \A b \in 1 .. NBuckets : h.pfds[b] = IF b = x THEN r ELSE g.pfds[b]
    <2>. DEFINE q == [g.pfds EXCEPT ![x] = r]
    <2>1. g \in Tables /\ g.pfds \in [1 .. NBuckets -> Seq(Entries)] /\ g.pfdcount \in Int
      BY SMT DEF Good, Tables
    <2>2. q \in [1 .. NBuckets -> Seq(Entries)]
          /\ \A b \in 1 .. NBuckets : q[b] = IF b = x THEN r ELSE g.pfds[b]
      BY <1>1, <1>4, <2>1
    <2>3. h = [g EXCEPT !.pfds = q, !.pfdcount = g.pfdcount - 1]
      BY SMT, <1>5
    <2>. HIDE DEF q
    <2>4. h \in Tables /\ h.pfds = q /\ h.pfdcount = g.pfdcount - 1 /\ h.interest = g.interest
      <3>. DEFINE c == g.pfdcount - 1
      <3>1. c \in Int
        BY SMT, <2>1
      <3>2. h = [g EXCEPT !.pfds = q, !.pfdcount = c]
        BY SMT, <2>3
      <3>. HIDE DEF c
      <3>3. q \in [1 .. NBuckets -> Seq(Entries)]
        BY SMT, <2>2
      <3>4. Updated(g, [g EXCEPT !.pfds = q, !.pfdcount = c], q, c)
        BY <2>1, <3>1, <3>3, TableUpdate
      <3>. QED  BY <3>2, <3>4 DEF c, Updated
    <2>. QED  BY SMT, <2>2, <2>4
  <1>a. \A i \in 1 .. Len(r) : \E j \in 1 .. Len(s) : j # k /\ r[i] = s[j] /\ j = (IF i < k THEN i ELSE i + 1)
    BY SMT, <1>2, <1>3, <1>4
  <1>b. \A j \in 1 .. Len(s) : j # k => s[j].fd # n /\ s[j].obj # o
    BY SMT, <1>2, <1>3 DEF Bucket
  <1>7. Bucket(r, x, A \ {o}, f)
    <2>3. \A i \in 1 .. Len(r) : index_fd(r[i].fd) = x /\ r[i].obj \in A \ {o} /\ f[r[i].obj] = r[i].fd
      BY SMT, <1>2, <1>a, <1>b DEF Bucket
    <2>4. \A i, j \in 1 .. Len(r) : r[i].fd = r[j].fd => i = j
      <3>. TAKE i, j \in 1 .. Len(r)
      <3>. HAVE r[i].fd = r[j].fd
      <3>1. PICK i2 \in 1 .. Len(s) : r[i] = s[i2] /\ i2 = (IF i < k THEN i ELSE i + 1)
        BY SMT, <1>a
      <3>2. PICK j2 \in 1 .. Len(s) : r[j] = s[j2] /\ j2 = (IF j < k THEN j ELSE j + 1)
        BY SMT, <1>a
      <3>3. i2 = j2
        BY SMTT(20), <1>2, <3>1, <3>2 DEF Bucket
      <3>. QED  BY SMT, <1>3, <1>4, <3>1, <3>2, <3>3
    <2>. QED  BY SMT, <1>4, <2>3, <2>4 DEF Bucket
  <1>8. \A b \in 1 .. NBuckets : b # x => Bucket(g.pfds[b], b, A \ {o}, f)
    BY SMT DEF Good, Bucket, x
  <1>9. ASSUME NEW p \in Entries, index_fd(p.fd) = x
        PROVE  p \in {e \in Ent(g) : e.fd # n} <=> In(p, r)
    <2>1. p \in Ent(g) <=> In(p, s)
      BY SMT, <1>9 DEF Ent, s
    <2>2. ASSUME In(p, r) PROVE In(p, s) /\ p.fd # n
      BY SMT, <1>a, <1>b, <2>2 DEF In
    <2>3. ASSUME In(p, s), p.fd # n PROVE In(p, r)
      <3>1. PICK j \in 1 .. Len(s) : s[j] = p /\ j # k
        BY SMT, <1>3, <2>3 DEF In
      <3>. DEFINE i == IF j < k THEN j ELSE j - 1
      <3>2. i \in 1 .. Len(s) - 1 /\ (IF i < k THEN i ELSE i + 1) = j
        BY SMT, <1>2, <1>3, <3>1
      <3>. HIDE DEF i
      <3>3. r[i] = s[j]
        BY SMT, <1>4, <3>2
      <3>. QED  BY SMT, <1>4, <3>1, <3>2, <3>3 DEF In
    <2>. QED  BY SMT, <2>1, <2>2, <2>3
  <1>10. ASSUME NEW p \in Entries, index_fd(p.fd) # x PROVE p.fd # n
    BY SMT, <1>10 DEF x
  <1>11. Ent(h) = {e \in Ent(g) : e.fd # n}
    <2>. DEFINE E == {e \in Ent(g) : e.fd # n}
    <2>1. E \in SUBSET Entries /\ \A p \in Entries : index_fd(p.fd) # x => (p \in E <=> p \in Ent(g))
      BY SMT, <1>10 DEF Ent
    <2>2. \A p \in Entries : index_fd(p.fd) = x => (p \in E <=> In(p, r))
      BY SMT, <1>9
    <2>. HIDE DEF E
    <2>3. Ent(h) = E
      BY <1>6, <2>1, <2>2, EntChange DEF OneBucket, OneChanged
    <2>. QED  BY SMT, <2>3 DEF E
  <1>. QED  BY SMT, <1>6, <1>7, <1>8, <1>11 DEF Good, Becomes, h

\* add_pfd puts the object in front of its bucket.
LEMMA GoodAddPfd ==
  ASSUME NEW g, NEW A, NEW f, Good(g, A, f), NEW o \in Objs, NEW n \in Fds, f[o] = n,
         NEW events \in SUBSET {"IN", "OUT"}, find_pfd(g, n) = 0
  PROVE  LET p == [fd |-> n, events |-> events, obj |-> o]
             h == add_pfd(g, p)
         IN  /\ Good(h, A \union {o}, f) /\ find_pfd(h, n) # 0
             /\ Becomes(g, h, Ent(g) \union {p}, g.pfdcount + 1)
  <1>. DEFINE p == [fd |-> n, events |-> events, obj |-> o]
              x == index_fd(n)
              s == g.pfds[x]
              r == <<p>> \o s
              h == add_pfd(g, p)
              q == [g.pfds EXCEPT ![x] = r]
              c == g.pfdcount + 1
  <1>1. x \in 1 .. NBuckets /\ p \in Entries /\ p.fd = n /\ p.obj = o
    BY SMT, FdsAreNat DEF Entries
  <1>2. s \in Seq(Entries) /\ Bucket(s, x, A, f)
    BY SMT, <1>1 DEF Good, Bucket
  <1>3. \A i \in 1 .. Len(s) : s[i].fd # n
    BY SMT, <1>2, FindIs
  <1>4. h = [g EXCEPT !.pfds = q, !.pfdcount = c]
    BY SMT DEF add_pfd
  <1>5. g \in Tables /\ g.pfds \in [1 .. NBuckets -> Seq(Entries)] /\ c \in Int
    BY SMT DEF Good, Tables
  <1>. HIDE DEF p, s, c
  <1>6. r \in Seq(Entries) /\ Len(r) = Len(s) + 1 /\ \A i \in 1 .. Len(s) + 1 : r[i] = IF i = 1 THEN p ELSE s[i - 1]
    <2>1. <<p>> \in Seq(Entries) /\ Len(<<p>>) = 1 /\ <<p>>[1] = p
      BY SMT, <1>1
    <2>. HIDE DEF x
    <2>. QED  BY SMT, <1>2, <2>1, ConcatIs
  <1>. HIDE DEF r, h
  <1>7. q \in [1 .. NBuckets -> Seq(Entries)] /\ \A b \in 1 .. NBuckets : q[b] = IF b = x THEN r ELSE g.pfds[b]
    BY <1>1, <1>5, <1>6
  <1>. HIDE DEF q
  <1>8. Updated(g, [g EXCEPT !.pfds = q, !.pfdcount = c], q, c)
    <2>1. g \in Tables /\ c \in Int
      BY SMT, <1>5
    <2>2. q \in [1 .. NBuckets -> Seq(Entries)]
      BY SMT, <1>7
    <2>. QED  BY <2>1, <2>2, TableUpdate
  <1>9. h \in Tables /\ h.pfds = q /\ h.pfdcount = g.pfdcount + 1 /\ h.interest = g.interest
    BY <1>4, <1>8 DEF c, Updated
  <1>a. Len(s) \in Nat
    BY SMT, <1>2
  <1>b. \A i \in 1 .. Len(r) : (i = 1 /\ r[i] = p) \/ (i - 1 \in 1 .. Len(s) /\ r[i] = s[i - 1])
    <2>. TAKE i \in 1 .. Len(r)
    <2>1. i \in 1 .. Len(s) + 1
      BY SMT, <1>6
    <2>2. r[i] = IF i = 1 THEN p ELSE s[i - 1]
      BY SMT, <1>6, <2>1
    <2>3. i # 1 => i - 1 \in 1 .. Len(s)
      BY SMT, <1>a, <2>1
    <2>. QED  BY SMT, <2>2, <2>3
  <1>10. Bucket(r, x, A \union {o}, f)
    <2>3. \A i \in 1 .. Len(r) : index_fd(r[i].fd) = x /\ r[i].obj \in A \union {o} /\ f[r[i].obj] = r[i].fd
      BY SMT, <1>1, <1>2, <1>b DEF Bucket
    <2>4. \A i, j \in 1 .. Len(r) : r[i].fd = r[j].fd => i = j
      <3>. TAKE i, j \in 1 .. Len(r)
      <3>. HAVE r[i].fd = r[j].fd
      <3>1. CASE i = 1 \/ j = 1
        BY SMT, <1>1, <1>3, <1>6, <1>b, <3>1
      <3>2. CASE i # 1 /\ j # 1
        <4>1. i - 1 \in 1 .. Len(s) /\ j - 1 \in 1 .. Len(s) /\ s[i - 1].fd = s[j - 1].fd
          BY SMT, <1>b, <3>2
        <4>2. i - 1 = j - 1
          BY SMTT(20), <1>2, <4>1 DEF Bucket
        <4>. QED  BY SMT, <1>6, <1>a, <4>2
      <3>. QED  BY SMT, <3>1, <3>2
    <2>. QED  BY SMT, <1>6, <2>3, <2>4 DEF Bucket
  <1>11. \A b \in 1 .. NBuckets : Bucket(g.pfds[b], b, A \union {o}, f)
    BY SMT DEF Good, Bucket
  <1>12. Good(h, A \union {o}, f)
    BY <1>7, <1>9, <1>10, <1>11 DEF Good
  <1>13. find_pfd(h, n) # 0
    <2>1. h.pfds[index_fd(n)] = r
      BY SMT, <1>1, <1>7, <1>9
    <2>2. 1 \in 1 .. Len(r) /\ r[1].fd = n
      BY SMT, <1>1, <1>2, <1>6
    <2>. QED  BY SMTT(20), <1>6, <2>1, <2>2, FindIs
  <1>14. ASSUME NEW e \in Entries, index_fd(e.fd) = x PROVE e \in Ent(g) \union {p} <=> In(e, r)
    <2>1. e \in Ent(g) <=> In(e, s)
      BY SMT, <1>14 DEF Ent, s
    <2>2. ASSUME In(e, r) PROVE In(e, s) \/ e = p
      BY SMT, <1>b, <2>2 DEF In
    <2>3. ASSUME In(e, s) PROVE In(e, r)
      <3>1. PICK j \in 1 .. Len(s) : s[j] = e
        BY SMT, <2>3 DEF In
      <3>2. j + 1 \in 1 .. Len(s) + 1 /\ j + 1 # 1 /\ (j + 1) - 1 = j
        BY SMT, <1>a, <3>1
      <3>3. r[j + 1] = s[(j + 1) - 1] /\ j + 1 \in 1 .. Len(r)
        BY <1>6, <3>2
      <3>. QED  BY <3>1, <3>2, <3>3 DEF In
    <2>4. In(p, r)
      <3>1. 1 \in 1 .. Len(s) + 1
        BY SMT, <1>a
      <3>. QED  BY SMT, <1>6, <3>1 DEF In
    <2>. QED  BY SMT, <2>1, <2>2, <2>3, <2>4
  <1>15. Ent(h) = Ent(g) \union {p}
    <2>. DEFINE E == Ent(g) \union {p}
    <2>1. E \in SUBSET Entries
      BY SMT, <1>1 DEF Ent
    <2>2. \A e \in Entries : index_fd(e.fd) # x => (e \in E <=> e \in Ent(g))
      BY SMT, <1>1
    <2>3. \A e \in Entries : index_fd(e.fd) = x => (e \in E <=> In(e, r))
      BY SMT, <1>14
    <2>4. \A b \in 1 .. NBuckets : h.pfds[b] = IF b = x THEN r ELSE g.pfds[b]
      BY <1>7, <1>9
    <2>. HIDE DEF E, x
    <2>5. Ent(h) = E
      BY <2>1, <2>2, <2>3, <2>4, EntChange DEF OneBucket, OneChanged
    <2>. QED  BY SMT, <2>5 DEF E
  <1>16. Becomes(g, h, Ent(g) \union {p}, g.pfdcount + 1)
    BY SMT, <1>9, <1>15 DEF Becomes
  <1>. QED  BY SMT, <1>12, <1>13, <1>16 DEF h, p

\* What epoll monitors is not in the table.
LEMMA GoodInterest ==
  ASSUME NEW g, NEW A, NEW f, Good(g, A, f), NEW I \in SUBSET Interest
  PROVE  LET h == [g EXCEPT !.interest = I]
         IN  Good(h, A, f) /\ Ent(h) = Ent(g) /\ h.pfdcount = g.pfdcount /\ h.interest = I
  <1>. DEFINE P == [1 .. NBuckets -> Seq(Entries)]
              Q == SUBSET Interest
              h == [g EXCEPT !.interest = I]
  <1>1. Tables = [pfds : P, pfdcount : Int, interest : Q] /\ g \in Tables /\ I \in Q
    BY SMT DEF Tables, Good
  <1>. HIDE DEF P, Q
  <1>2. h \in Tables /\ h.pfds = g.pfds /\ h.pfdcount = g.pfdcount /\ h.interest = I
    BY SMT, <1>1
  <1>. HIDE DEF h
  <1>3. Good(h, A, f)
    BY SMT, <1>2 DEF Good
  <1>4. Ent(h) = Ent(g)
    BY <1>2 DEF Ent
  <1>. QED  BY SMT, <1>2, <1>3, <1>4 DEF h

\* What epoll monitors when the entries are E
Watched(E) == {[fd |-> p.fd, events |-> p.events] : p \in E}

\* Without descriptor n
Without(E, n) == {e \in E : e.fd # n}

LEMMA WatchedWithout ==
  ASSUME NEW E \in SUBSET Entries, NEW n
  PROVE  Without(Watched(E), n) = Watched(Without(E, n))
  <1>1. \A e : [fd |-> e.fd, events |-> e.events].fd = e.fd
    BY SMT
  <1>. QED  BY <1>1 DEF Watched, Without

\* With other events for it
LEMMA WatchedIs ==
  ASSUME NEW E \in SUBSET Entries, NEW n, NEW p \in Entries
  PROVE  Watched(Without(E, n) \union {p}) = Without(Watched(E), n) \union {[fd |-> p.fd, events |-> p.events]}
  <1>1. Without(Watched(E), n) = Watched(Without(E, n))
    BY WatchedWithout
  <1>2. \A F : Watched(F \union {p}) = Watched(F) \union {[fd |-> p.fd, events |-> p.events]}
    BY DEF Watched
  <1>. QED  BY <1>1, <1>2

\* epoll_ctl leaves the table, and has epoll monitor the descriptor for the events.
Monitors(g, h, n, events) ==
    /\ Ent(h) = Ent(g) /\ h.pfdcount = g.pfdcount
    /\ build = "linux" => h.interest = {r \in g.interest : r.fd # n} \union {[fd |-> n, events |-> events]}

LEMMA GoodEpollCtl ==
  ASSUME NEW g, NEW A, NEW f, Good(g, A, f), NEW n \in Fds, NEW events \in SUBSET {"IN", "OUT"}
  PROVE  Good(epoll_ctl(g, n, events), A, f) /\ Monitors(g, epoll_ctl(g, n, events), n, events)
  <1>1. g.interest \in SUBSET Interest
    BY SMT DEF Good, Tables
  <1>. DEFINE I == {r \in g.interest : r.fd # n} \union {[fd |-> n, events |-> events]}
  <1>2. I \in SUBSET Interest
    <2>1. [fd |-> n, events |-> events] \in Interest
      BY SMT DEF Interest
    <2>. QED  BY SMT, <1>1, <2>1
  <1>3. epoll_ctl(g, n, events) = IF build = "linux" THEN [g EXCEPT !.interest = I] ELSE g
    BY SMT DEF epoll_ctl
  <1>. HIDE DEF I
  <1>4. LET h == [g EXCEPT !.interest = I]
        IN  Good(h, A, f) /\ Ent(h) = Ent(g) /\ h.pfdcount = g.pfdcount /\ h.interest = I
    BY SMT, <1>2, GoodInterest
  <1>. QED  BY <1>3, <1>4 DEF I, Monitors

\* What the entries are: objects of A with the descriptors that f gives them, which find_pfd finds.
LEMMA EntriesAre ==
  ASSUME NEW g, NEW A, NEW f, Good(g, A, f)
  PROVE  /\ Ent(g) \in SUBSET Entries
         /\ \A p \in Ent(g) : p.obj \in A /\ f[p.obj] = p.fd
         /\ \A p, q \in Ent(g) : p.fd = q.fd => p = q
         /\ \A n \in Fds : find_pfd(g, n) = 0 <=> \A p \in Ent(g) : p.fd # n
  <1>1. \A b \in 1 .. NBuckets : Bucket(g.pfds[b], b, A, f)
    BY SMT DEF Good
  <1>2. Ent(g) \in SUBSET Entries
    BY SMT DEF Ent
  <1>3. ASSUME NEW p \in Ent(g)
        PROVE  /\ p.fd \in Fds /\ index_fd(p.fd) \in 1 .. NBuckets
               /\ Bucket(g.pfds[index_fd(p.fd)], index_fd(p.fd), A, f)
               /\ In(p, g.pfds[index_fd(p.fd)])
    <2>1. p.fd \in Fds
      BY SMT, <1>2 DEF Entries
    <2>. QED  BY <1>1, <2>1, FdsAreNat DEF Ent
  <1>4. ASSUME NEW p \in Ent(g) PROVE p.obj \in A /\ f[p.obj] = p.fd
    BY SMT, <1>3 DEF Bucket, In
  <1>5. ASSUME NEW p \in Ent(g), NEW q \in Ent(g), p.fd = q.fd PROVE p = q
    <2>. DEFINE s == g.pfds[index_fd(p.fd)]
    <2>1. In(p, s) /\ In(q, s) /\ Bucket(s, index_fd(p.fd), A, f)
      BY <1>3, <1>5
    <2>. HIDE DEF s
    <2>2. PICK i \in 1 .. Len(s) : s[i] = p
      BY SMT, <2>1 DEF In
    <2>3. PICK j \in 1 .. Len(s) : s[j] = q
      BY SMT, <2>1 DEF In
    <2>4. i = j
      BY SMT, <1>5, <2>1, <2>2, <2>3 DEF Bucket
    <2>. QED  BY SMT, <2>2, <2>3, <2>4
  <1>6. ASSUME NEW n \in Fds PROVE find_pfd(g, n) = 0 <=> \A p \in Ent(g) : p.fd # n
    <2>. DEFINE s == g.pfds[index_fd(n)]
    <2>1. s \in Seq(Entries)
      BY <1>1, FdsAreNat DEF Bucket
    <2>2. ASSUME find_pfd(g, n) = 0, NEW p \in Ent(g), p.fd = n PROVE FALSE
      <3>1. In(p, s)
        BY <1>3, <2>2
      <3>. QED  BY SMT, <2>1, <2>2, <3>1, FindIs DEF In
    <2>3. ASSUME find_pfd(g, n) # 0 PROVE \E p \in Ent(g) : p.fd = n
      <3>. DEFINE k == find_pfd(g, n)
      <3>1. k \in 1 .. Len(s) /\ s[k].fd = n
        BY <2>1, <2>3, FindIs
      <3>. HIDE DEF k
      <3>2. s[k] \in Entries
        BY SMT, <2>1, <3>1
      <3>3. In(s[k], s)
        BY <3>1 DEF In
      <3>4. s[k] \in Ent(g)
        BY <3>1, <3>2, <3>3 DEF Ent
      <3>. QED  BY SMT, <3>1, <3>4
    <2>. QED  BY <2>2, <2>3
  <1>. QED  BY <1>2, <1>4, <1>5, <1>6

\* The table holds the objects of A, each once, and epoll monitors its entries.
Exact(g, A, f, b) ==
    /\ Good(g, A, f) /\ A \in SUBSET Objs
    /\ \A o \in A : \E p \in Ent(g) : p.obj = o
    /\ g.pfdcount = Cardinality(A)
    /\ b = "linux" => g.interest = Watched(Ent(g))

LEMMA CardinalityChanges ==
  ASSUME NEW A \in SUBSET Objs, NEW o \in Objs
  PROVE  /\ Cardinality(A) \in Nat
         /\ o \notin A => Cardinality(A \union {o}) = Cardinality(A) + 1
         /\ o \in A => Cardinality(A \ {o}) = Cardinality(A) - 1
  <1>1. IsFiniteSet(A)
    BY SMT, ObjsFinite, FS_Subset
  <1>. QED  BY <1>1, FS_CardinalityType, FS_AddElement, FS_RemoveElement

\* Only the descriptors of the objects in A matter.
LEMMA ExactChange ==
  ASSUME NEW g, NEW A, NEW f, NEW h, NEW b, Exact(g, A, f, b), \A o \in A : h[o] = f[o]
  PROVE  Exact(g, A, h, b)
  BY GoodChange DEF Exact

\* A registration of an object whose descriptor is not there puts it in the table, or leaves the table when
\* it fails.
LEMMA ExactAdd ==
  ASSUME NEW g, NEW A, NEW f, Exact(g, A, f, build), NEW o \in Objs, NEW n \in Fds, f[o] = n,
         NEW events \in SUBSET {"IN", "OUT"}, NEW fails \in BOOLEAN, o \notin A, \A q \in A : f[q] # n
  PROVE  Exact(pomp_loop_add(g, n, events, o, fails), IF fails THEN A ELSE A \union {o}, f, build)
  <1>. DEFINE p == [fd |-> n, events |-> events, obj |-> o]
              a == add_pfd(g, p)
  <1>1. Good(g, A, f) /\ A \in SUBSET Objs /\ (\A x \in A : \E e \in Ent(g) : e.obj = x)
        /\ g.pfdcount = Cardinality(A) /\ (build = "linux" => g.interest = Watched(Ent(g)))
    BY SMT DEF Exact
  <1>2. Ent(g) \in SUBSET Entries /\ \A e \in Ent(g) : e.fd # n
    BY SMT, <1>1, EntriesAre
  <1>3. find_pfd(g, n) = 0
    BY <1>1, <1>2, EntriesAre
  <1>4. Good(a, A \union {o}, f) /\ find_pfd(a, n) # 0 /\ Becomes(g, a, Ent(g) \union {p}, g.pfdcount + 1)
    BY SMT, <1>1, <1>3, GoodAddPfd
  <1>5. p \in Entries /\ p.fd = n /\ p.events = events /\ p.obj = o
    BY SMT DEF Entries
  <1>6. pomp_loop_add(g, n, events, o, fails) = IF fails THEN remove_pfd(a, n) ELSE epoll_ctl(a, n, events)
    BY SMT, <1>3 DEF pomp_loop_add
  <1>7. {e \in Ent(g) : e.fd # n} = Ent(g)
    BY <1>2
  <1>c. Cardinality(A) \in Nat /\ Cardinality(A \union {o}) = Cardinality(A) + 1
    BY <1>1, CardinalityChanges
  <1>. HIDE DEF a, p
  <1>8. CASE fails
    <2>. DEFINE h == remove_pfd(a, n)
    <2>1. Good(h, (A \union {o}) \ {o}, f) /\ Becomes(a, h, {e \in Ent(a) : e.fd # n}, a.pfdcount - 1)
      BY <1>4, GoodRemovePfd
    <2>. HIDE DEF h
    <2>2. (A \union {o}) \ {o} = A
      BY SMT
    <2>3. {e \in Ent(a) : e.fd # n} = Ent(g)
      BY <1>2, <1>4, <1>5 DEF Becomes
    <2>4. Ent(h) = Ent(g) /\ h.interest = g.interest
      BY <1>4, <2>1, <2>3 DEF Becomes
    <2>5. h.pfdcount = g.pfdcount
      BY SMT, <1>1, <1>4, <1>c, <2>1 DEF Becomes
    <2>6. Exact(h, A, f, build)
      BY <1>1, <2>1, <2>2, <2>4, <2>5 DEF Exact
    <2>. QED  BY SMT, <1>6, <1>8, <2>6 DEF h
  <1>9. CASE ~fails
    <2>. DEFINE h == epoll_ctl(a, n, events)
    <2>a. Good(h, A \union {o}, f) /\ Monitors(a, h, n, events)
      BY <1>4, GoodEpollCtl
    <2>1. /\ Good(h, A \union {o}, f) /\ Ent(h) = Ent(a) /\ h.pfdcount = a.pfdcount
          /\ build = "linux" => h.interest = {r \in a.interest : r.fd # n} \union {[fd |-> n, events |-> events]}
      BY <2>a DEF Monitors
    <2>. HIDE DEF h
    <2>2. build = "linux" => h.interest = Watched(Ent(h))
      <3>e. Ent(g) \in SUBSET Entries /\ p \in Entries
        BY SMT, <1>2, <1>5
      <3>1. Watched(Without(Ent(g), n) \union {p})
                = Without(Watched(Ent(g)), n) \union {[fd |-> p.fd, events |-> p.events]}
        BY SMT, <3>e, WatchedIs
      <3>. QED  BY <1>1, <1>4, <1>5, <1>7, <2>1, <3>1 DEF Becomes, Without
    <2>3. h.pfdcount = Cardinality(A \union {o})
      BY <1>1, <1>4, <1>c, <2>1 DEF Becomes
    <2>4. \A x \in A \union {o} : \E e \in Ent(h) : e.obj = x
      BY <1>1, <1>4, <1>5, <2>1 DEF Becomes
    <2>5. A \union {o} \in SUBSET Objs
      BY SMT, <1>1
    <2>6. Exact(h, A \union {o}, f, build)
      BY <2>1, <2>2, <2>3, <2>4, <2>5 DEF Exact
    <2>. QED  BY SMT, <1>6, <1>9, <2>6 DEF h
  <1>. QED  BY SMT, <1>8, <1>9

\* A removal takes the object out, if it is there.
LEMMA ExactRemove ==
  ASSUME NEW g, NEW A, NEW f, Exact(g, A, f, build), NEW o \in Objs, NEW n \in Fds, f[o] = n,
         \A q \in A : f[q] = n => q = o
  PROVE  Exact(pomp_loop_remove(g, n), A \ {o}, f, build)
  <1>1. Good(g, A, f) /\ A \in SUBSET Objs /\ (\A x \in A : \E e \in Ent(g) : e.obj = x)
        /\ g.pfdcount = Cardinality(A) /\ (build = "linux" => g.interest = Watched(Ent(g)))
    BY SMT DEF Exact
  <1>2. Ent(g) \in SUBSET Entries /\ (\A p \in Ent(g) : p.obj \in A /\ f[p.obj] = p.fd)
        /\ (find_pfd(g, n) = 0 <=> \A p \in Ent(g) : p.fd # n)
    BY <1>1, EntriesAre
  <1>3. CASE find_pfd(g, n) = 0
    <2>1. o \notin A
      BY SMT, <1>1, <1>2, <1>3
    <2>2. A \ {o} = A
      BY SMT, <2>1
    <2>. QED  BY SMT, <1>3, <2>2 DEF pomp_loop_remove
  <1>4. CASE find_pfd(g, n) # 0
    <2>. DEFINE h == remove_pfd(g, n)
                I == {r \in h.interest : r.fd # n}
                k == [h EXCEPT !.interest = I]
                E == {e \in Ent(g) : e.fd # n}
    <2>1. Good(h, A \ {o}, f) /\ Becomes(g, h, E, g.pfdcount - 1)
      BY <1>1, <1>4, GoodRemovePfd
    <2>2. pomp_loop_remove(g, n) = k
      BY SMT, <1>4 DEF pomp_loop_remove
    <2>. HIDE DEF h
    <2>3. I \in SUBSET Interest
      BY SMT, <2>1 DEF Good, Tables
    <2>. HIDE DEF I
    <2>4. Good(k, A \ {o}, f) /\ Ent(k) = Ent(h) /\ k.pfdcount = h.pfdcount /\ k.interest = I
      BY SMT, <2>1, <2>3, GoodInterest
    <2>. HIDE DEF k, E
    <2>5. o \in A
      BY <1>2, <1>4
    <2>6. k.pfdcount = Cardinality(A \ {o})
      BY <1>1, <2>1, <2>4, <2>5, CardinalityChanges DEF Becomes
    <2>7. build = "linux" => k.interest = Watched(Ent(k))
      <3>e. Ent(g) \in SUBSET Entries
        BY SMT, <1>2
      <3>1. Without(Watched(Ent(g)), n) = Watched(Without(Ent(g), n))
        BY <3>e, WatchedWithout
      <3>. QED  BY <1>1, <2>1, <2>4, <3>1 DEF Becomes, I, E, Without
    <2>8. \A x \in A \ {o} : \E e \in Ent(k) : e.obj = x
      <3>. TAKE x \in A \ {o}
      <3>1. PICK e \in Ent(g) : e.obj = x
        BY SMT, <1>1
      <3>2. e.fd # n
        BY <1>2, <3>1
      <3>. QED  BY <2>1, <2>4, <3>1, <3>2 DEF Becomes, E
    <2>9. A \ {o} \in SUBSET Objs
      BY SMT, <1>1
    <2>10. Exact(k, A \ {o}, f, build)
      BY <2>4, <2>6, <2>7, <2>8, <2>9 DEF Exact
    <2>. QED  BY SMT, <2>2, <2>10
  <1>. QED  BY SMT, <1>3, <1>4

\* An update changes entry e into p, with other events.
SetEvents(g, n, events, h, e, p) ==
    /\ h = [g EXCEPT !.pfds[index_fd(n)][find_pfd(g, n)].events = events]
    /\ e \in Ent(g) /\ e.fd = n
    /\ p \in Entries /\ p.fd = n /\ p.events = events /\ p.obj = e.obj
    /\ Becomes(g, h, {x \in Ent(g) : x.fd # n} \union {p}, g.pfdcount)

LEMMA GoodSetEvents ==
  ASSUME NEW g, NEW A, NEW f, Good(g, A, f), NEW n \in Fds, NEW events \in SUBSET {"IN", "OUT"},
         find_pfd(g, n) # 0
  PROVE  \E h, e, p : Good(h, A, f) /\ SetEvents(g, n, events, h, e, p)
  <1>. DEFINE x == index_fd(n)
              s == g.pfds[x]
              k == find_pfd(g, n)
              p == [s[k] EXCEPT !.events = events]
              r == [s EXCEPT ![k] = p]
              q == [g.pfds EXCEPT ![x] = r]
              c == g.pfdcount
              h == [g EXCEPT !.pfds = q, !.pfdcount = c]
  <1>1. x \in 1 .. NBuckets
    BY SMT, FdsAreNat
  <1>2. s \in Seq(Entries) /\ Bucket(s, x, A, f)
    BY SMTT(20), <1>1 DEF Good, Bucket
  <1>3. k \in 1 .. Len(s) /\ s[k].fd = n
    BY SMT, <1>2, FindIs
  <1>4. p \in Entries /\ p.fd = n /\ p.obj = s[k].obj /\ p.events = events
    <2>1. s[k] \in Entries
      BY SMT, <1>2, <1>3
    <2>. HIDE DEF s, k
    <2>. QED  BY SMT, <1>3, <2>1 DEF Entries
  <1>5. g \in Tables /\ g.pfds \in [1 .. NBuckets -> Seq(Entries)] /\ c \in Int
    BY SMT DEF Good, Tables
  <1>. HIDE DEF p, s, k, c
  <1>6. r \in Seq(Entries) /\ Len(r) = Len(s) /\ \A i \in 1 .. Len(s) : r[i] = IF i = k THEN p ELSE s[i]
    BY SMT, <1>2, <1>3, <1>4
  <1>. HIDE DEF r
  <1>7. q \in [1 .. NBuckets -> Seq(Entries)] /\ \A b \in 1 .. NBuckets : q[b] = IF b = x THEN r ELSE g.pfds[b]
    BY <1>1, <1>5, <1>6
  <1>. HIDE DEF q
  <1>8. h \in Tables /\ h.pfds = q /\ h.pfdcount = g.pfdcount /\ h.interest = g.interest
    <2>1. q \in [1 .. NBuckets -> Seq(Entries)] /\ c \in Int /\ g \in Tables
      BY SMT, <1>5, <1>7
    <2>. HIDE DEF x
    <2>2. Updated(g, h, q, c)
      BY <2>1, TableUpdate
    <2>. QED  BY <2>2 DEF Updated, c
  <1>9. Bucket(r, x, A, f)
    <2>1. \A i \in 1 .. Len(r) : r[i].fd = s[i].fd /\ r[i].obj = s[i].obj
      BY SMT, <1>3, <1>4, <1>6
    <2>. QED  BY SMT, <1>2, <1>6, <2>1 DEF Bucket
  <1>10. Good(h, A, f)
    <2>. HIDE DEF h
    <2>. QED  BY SMT, <1>7, <1>8, <1>9 DEF Good
  <1>11. [g EXCEPT !.pfds[index_fd(n)][find_pfd(g, n)].events = events] = h
    <2>1. [g EXCEPT !.pfds[index_fd(n)][find_pfd(g, n)].events = events] = [g EXCEPT !.pfds = q]
      BY SMT DEF q, r, p, s, k
    <2>2. [g EXCEPT !.pfds = q] = h
      BY <1>5 DEF Tables, c
    <2>. QED  BY SMT, <2>1, <2>2
  <1>. HIDE DEF h
  <1>12. ASSUME NEW e \in Entries, index_fd(e.fd) = x
         PROVE  e \in {y \in Ent(g) : y.fd # n} \union {p} <=> In(e, r)
    <2>1. e \in Ent(g) <=> In(e, s)
      BY SMT, <1>12 DEF Ent, s
    <2>2. \A j \in 1 .. Len(s) : j # k => s[j].fd # n
      BY SMT, <1>2, <1>3 DEF Bucket
    <2>3. ASSUME In(e, r) PROVE (In(e, s) /\ e.fd # n) \/ e = p
      BY SMT, <1>6, <2>2, <2>3 DEF In
    <2>4. ASSUME In(e, s), e.fd # n PROVE In(e, r)
      BY SMT, <1>3, <1>6, <2>4 DEF In
    <2>5. In(p, r)
      BY SMT, <1>3, <1>6 DEF In
    <2>. QED  BY <2>1, <2>3, <2>4, <2>5
  <1>13. Ent(h) = {y \in Ent(g) : y.fd # n} \union {p}
    <2>. DEFINE E == {y \in Ent(g) : y.fd # n} \union {p}
    <2>1. E \in SUBSET Entries
      BY SMT, <1>4 DEF Ent
    <2>2. \A e \in Entries : index_fd(e.fd) # x => (e \in E <=> e \in Ent(g))
      BY <1>4
    <2>3. \A e \in Entries : index_fd(e.fd) = x => (e \in E <=> In(e, r))
      BY SMT, <1>12
    <2>4. \A b \in 1 .. NBuckets : h.pfds[b] = IF b = x THEN r ELSE g.pfds[b]
      BY <1>7, <1>8
    <2>. HIDE DEF E, x
    <2>5. OneBucket(g, h, x, r) /\ OneChanged(g, E, x, r)
      BY <2>1, <2>2, <2>3, <2>4 DEF OneBucket, OneChanged
    <2>6. Ent(h) = E
      BY <2>5, EntChange
    <2>. QED  BY SMT, <2>6 DEF E
  <1>14. s[k] \in Ent(g)
    <2>1. s[k] \in Entries /\ In(s[k], s)
      BY SMT, <1>2, <1>3 DEF In
    <2>. QED  BY <1>3, <2>1 DEF Ent, s
  <1>15. Becomes(g, h, {y \in Ent(g) : y.fd # n} \union {p}, g.pfdcount)
    BY <1>8, <1>13 DEF Becomes
  <1>. QED  BY <1>3, <1>4, <1>10, <1>11, <1>14, <1>15 DEF SetEvents

LEMMA ExactUpdate ==
  ASSUME NEW g, NEW A, NEW f, Exact(g, A, f, build), NEW n \in Fds, NEW events \in SUBSET {"IN", "OUT"},
         NEW fails \in BOOLEAN
  PROVE  Exact(pomp_loop_update(g, n, events, fails), A, f, build)
  <1>1. CASE find_pfd(g, n) = 0 \/ fails
    BY SMT, <1>1 DEF pomp_loop_update
  <1>2. CASE find_pfd(g, n) # 0 /\ ~fails
    <2>1. Good(g, A, f) /\ A \in SUBSET Objs /\ (\A x \in A : \E e \in Ent(g) : e.obj = x)
          /\ g.pfdcount = Cardinality(A) /\ (build = "linux" => g.interest = Watched(Ent(g)))
      BY SMT DEF Exact
    <2>2. Ent(g) \in SUBSET Entries /\ \A e, d \in Ent(g) : e.fd = d.fd => e = d
      BY <2>1, EntriesAre
    <2>a. PICK h, e, p : Good(h, A, f) /\ SetEvents(g, n, events, h, e, p)
      BY <1>2, <2>1, GoodSetEvents
    <2>3. /\ h = [g EXCEPT !.pfds[index_fd(n)][find_pfd(g, n)].events = events]
          /\ Good(h, A, f) /\ e \in Ent(g) /\ e.fd = n
          /\ p \in Entries /\ p.fd = n /\ p.events = events /\ p.obj = e.obj
          /\ Becomes(g, h, {x \in Ent(g) : x.fd # n} \union {p}, g.pfdcount)
      BY <2>a DEF SetEvents
    <2>. DEFINE k == epoll_ctl(h, n, events)
    <2>4. pomp_loop_update(g, n, events, fails) = k
      BY SMT, <1>2, <2>3 DEF pomp_loop_update
    <2>b. Good(k, A, f) /\ Monitors(h, k, n, events)
      BY <2>a, GoodEpollCtl
    <2>5. /\ Good(k, A, f) /\ Ent(k) = Ent(h) /\ k.pfdcount = h.pfdcount
          /\ build = "linux" => k.interest = {r \in h.interest : r.fd # n} \union {[fd |-> n, events |-> events]}
      BY <2>b DEF Monitors
    <2>. HIDE DEF k
    <2>6. Ent(k) = {x \in Ent(g) : x.fd # n} \union {p} /\ k.pfdcount = g.pfdcount /\ h.interest = g.interest
      BY <2>3, <2>5 DEF Becomes
    <2>7. build = "linux" => k.interest = Watched(Ent(k))
      <3>e. Ent(g) \in SUBSET Entries /\ p \in Entries
        BY SMT, <2>2, <2>3
      <3>1. Watched(Without(Ent(g), n) \union {p})
                = Without(Watched(Ent(g)), n) \union {[fd |-> p.fd, events |-> p.events]}
        BY <3>e, WatchedIs
      <3>2. p.fd = n /\ p.events = events
        BY SMT, <2>3
      <3>. QED  BY <2>1, <2>5, <2>6, <3>1, <3>2 DEF Without
    <2>8. \A x \in A : \E y \in Ent(k) : y.obj = x
      <3>. TAKE x \in A
      <3>1. PICK y \in Ent(g) : y.obj = x
        BY SMT, <2>1
      <3>2. CASE y.fd = n
        BY <2>2, <2>3, <2>6, <3>1, <3>2
      <3>3. CASE y.fd # n
        BY <2>6, <3>1, <3>3
      <3>. QED  BY SMT, <3>2, <3>3
    <2>9. Exact(k, A, f, build)
      BY <2>1, <2>5, <2>6, <2>7, <2>8 DEF Exact
    <2>. QED  BY SMT, <2>4, <2>9
  <1>. QED  BY SMT, <1>1, <1>2

\* A list of the entries of E, with one for each descriptor
Lists(s, E) ==
    /\ s \in Seq(Entries)
    /\ \A i \in 1 .. Len(s) : s[i] \in E
    /\ \A p \in E : In(p, s)
    /\ \A i, j \in 1 .. Len(s) : s[i].fd = s[j].fd => i = j

LEMMA ListsJoin ==
  ASSUME NEW x, NEW E, Lists(x, E), NEW y, NEW F, Lists(y, F), \A p \in E, q \in F : p.fd # q.fd
  PROVE  Lists(x \o y, E \union F)
  <1>. DEFINE z == x \o y
  <1>1. x \in Seq(Entries) /\ y \in Seq(Entries) /\ Len(x) \in Nat /\ Len(y) \in Nat
    BY SMT DEF Lists
  <1>2. z \in Seq(Entries) /\ Len(z) = Len(x) + Len(y)
        /\ \A i \in 1 .. Len(x) + Len(y) : z[i] = IF i <= Len(x) THEN x[i] ELSE y[i - Len(x)]
    BY <1>1, ConcatIs
  <1>. HIDE DEF z
  <1>3. \A i \in 1 .. Len(z) : \/ i \in 1 .. Len(x) /\ z[i] = x[i]
                               \/ i - Len(x) \in 1 .. Len(y) /\ z[i] = y[i - Len(x)]
    <2>. TAKE i \in 1 .. Len(z)
    <2>1. i \in 1 .. Len(x) + Len(y) /\ (i <= Len(x) => i \in 1 .. Len(x))
          /\ (~(i <= Len(x)) => i - Len(x) \in 1 .. Len(y))
      BY SMT, <1>1, <1>2
    <2>. QED  BY <1>2, <2>1
  <1>4. \A i \in 1 .. Len(z) : z[i] \in E \union F
    BY <1>3 DEF Lists
  <1>5. ASSUME NEW p \in E PROVE In(p, z)
    <2>1. PICK i \in 1 .. Len(x) : x[i] = p
      BY SMT, <1>5 DEF Lists, In
    <2>2. i \in 1 .. Len(x) + Len(y) /\ i <= Len(x)
      BY SMT, <1>1, <2>1
    <2>. QED  BY <1>2, <2>1, <2>2 DEF In
  <1>6. ASSUME NEW p \in F PROVE In(p, z)
    <2>1. PICK i \in 1 .. Len(y) : y[i] = p
      BY SMT, <1>6 DEF Lists, In
    <2>2. i + Len(x) \in 1 .. Len(x) + Len(y) /\ ~(i + Len(x) <= Len(x)) /\ (i + Len(x)) - Len(x) = i
      BY SMT, <1>1, <2>1
    <2>3. z[i + Len(x)] = y[(i + Len(x)) - Len(x)]
      BY <1>2, <2>2
    <2>. QED  BY <1>2, <2>1, <2>2, <2>3 DEF In
  <1>7. ASSUME NEW i \in 1 .. Len(z), NEW j \in 1 .. Len(z), z[i].fd = z[j].fd PROVE i = j
    <2>1. CASE i \in 1 .. Len(x) /\ z[i] = x[i]
      <3>1. x[i] \in E
        BY <2>1 DEF Lists
      <3>2. CASE j \in 1 .. Len(x) /\ z[j] = x[j]
        BY <1>7, <2>1, <3>2 DEF Lists
      <3>3. CASE j - Len(x) \in 1 .. Len(y) /\ z[j] = y[j - Len(x)]
        BY <1>7, <2>1, <3>1, <3>3 DEF Lists
      <3>. QED  BY <1>3, <3>2, <3>3
    <2>2. CASE i - Len(x) \in 1 .. Len(y) /\ z[i] = y[i - Len(x)]
      <3>1. y[i - Len(x)] \in F
        BY <2>2 DEF Lists
      <3>2. CASE j \in 1 .. Len(x) /\ z[j] = x[j]
        BY <1>7, <2>2, <3>1, <3>2 DEF Lists
      <3>3. CASE j - Len(x) \in 1 .. Len(y) /\ z[j] = y[j - Len(x)]
        <4>1. i - Len(x) = j - Len(x)
          BY <1>7, <2>2, <3>3 DEF Lists
        <4>. QED  BY SMT, <1>1, <4>1
      <3>. QED  BY <1>3, <3>2, <3>3
    <2>. QED  BY <1>3, <2>1, <2>2
  <1>8. \A p \in E \union F : In(p, z)
    BY <1>5, <1>6
  <1>9. \A i, j \in 1 .. Len(z) : z[i].fd = z[j].fd => i = j
    BY <1>7
  <1>. QED  BY <1>2, <1>4, <1>8, <1>9 DEF Lists, z

\* The buckets one after the other list the entries of the table.
LEMMA RegisteredLists ==
  ASSUME NEW g, NEW A, NEW f, Good(g, A, f)
  PROVE  Lists(Registered(g), Ent(g))
  <1>. DEFINE N == NBuckets
              Upto(k) == {p \in Ent(g) : index_fd(p.fd) \in 1 .. k}
  <1>1. N \in Nat \ {0} /\ g.pfds \in [1 .. N -> Seq(Entries)]
    BY SMT, Bounds DEF Good, Tables
  <1>2. g.pfds \in Seq(Seq(Entries)) /\ Len(g.pfds) = N
    BY SMT, <1>1
  <1>3. PICK F \in [1 .. N -> Seq(Entries)] :
            /\ Registered(g) = F[N]
            /\ \A i \in 1 .. N : F[i] = IF i = 1 THEN g.pfds[i] ELSE F[i - 1] \o g.pfds[i]
    <2>1. PICK F \in [1 .. NBuckets -> Seq(Entries)] : Appended(F, g)
      BY <1>1, RegisteredIs
    <2>. QED  BY <2>1 DEF Appended
  <1>4. ASSUME NEW k \in 1 .. N PROVE Lists(g.pfds[k], {p \in Ent(g) : index_fd(p.fd) = k})
    <2>. DEFINE s == g.pfds[k]
    <2>1. Bucket(s, k, A, f)
      BY SMT DEF Good
    <2>2. s \in Seq(Entries)
      BY SMT, <2>1 DEF Bucket
    <2>3. ASSUME NEW i \in 1 .. Len(s) PROVE s[i] \in Ent(g) /\ index_fd(s[i].fd) = k
      <3>1. s[i] \in Entries /\ In(s[i], s)
        BY SMT, <2>2 DEF In
      <3>2. index_fd(s[i].fd) = k
        BY <2>1 DEF Bucket
      <3>. QED  BY <3>1, <3>2 DEF Ent
    <2>4. ASSUME NEW p \in Ent(g), index_fd(p.fd) = k PROVE In(p, s)
      BY <2>4 DEF Ent
    <2>5. \A i, j \in 1 .. Len(s) : s[i].fd = s[j].fd => i = j
      BY <2>1 DEF Bucket
    <2>. QED  BY <2>2, <2>3, <2>4, <2>5 DEF Lists
  <1>. DEFINE P == {k \in Nat : k + 1 \in 1 .. N => Lists(F[k + 1], Upto(k + 1))}
  <1>5. 0 \in P
    <2>0. 1 \in 1 .. N
      BY SMT, <1>1
    <2>1. F[1] = g.pfds[1] /\ 1 \in 1 .. N
      BY <1>3, <2>0
    <2>2. \A p \in Ent(g) : index_fd(p.fd) = 1 <=> index_fd(p.fd) \in 1 .. 1
      <3>1. \A n : n = 1 <=> n \in 1 .. 1
        BY SMT
      <3>. QED  BY <3>1
    <2>3. Upto(1) = {p \in Ent(g) : index_fd(p.fd) = 1}
      BY <2>2
    <2>4. Lists(F[1], Upto(1))
      BY <1>4, <2>1, <2>3
    <2>. HIDE DEF Upto
    <2>. QED  BY SMT, <2>4
  <1>6. ASSUME NEW k \in Nat, k \in P PROVE k + 1 \in P
    <2>. SUFFICES ASSUME (k + 1) + 1 \in 1 .. N PROVE Lists(F[(k + 1) + 1], Upto((k + 1) + 1))
      <3>. HIDE DEF Upto
      <3>. QED  BY SMT
    <2>. DEFINE m == k + 1
                E == {p \in Ent(g) : index_fd(p.fd) = m + 1}
    <2>1. m \in 1 .. N /\ m + 1 \in 1 .. N /\ m + 1 # 1 /\ (m + 1) - 1 = m /\ m \in Nat
      BY SMT, <1>1
    <2>2. Lists(F[m], Upto(m))
      <3>. HIDE DEF Upto
      <3>. QED  BY SMT, <1>6, <2>1
    <2>. HIDE DEF m
    <2>3. F[m + 1] = F[m] \o g.pfds[m + 1]
      BY <1>3, <2>1
    <2>4. \A n : n \in 1 .. m + 1 <=> n \in 1 .. m \/ n = m + 1
      BY SMT, <2>1
    <2>5. \A n : ~(n \in 1 .. m /\ n = m + 1)
      BY SMT, <2>1
    <2>6. \A p \in Upto(m), q \in E : p.fd # q.fd
      BY <2>5
    <2>7. Upto(m + 1) = Upto(m) \union E
      BY <2>4
    <2>8. Lists(g.pfds[m + 1], E)
      BY <1>4, <2>1
    <2>. HIDE DEF Upto, E
    <2>9. Lists(F[m] \o g.pfds[m + 1], Upto(m) \union E)
      BY <2>2, <2>6, <2>8, ListsJoin
    <2>. QED  BY <2>3, <2>7, <2>9 DEF m
  <1>7. N - 1 \in P
    <2>. HIDE DEF P
    <2>1. Nat \subseteq P
      BY <1>5, <1>6, Induction
    <2>. QED  BY SMT, <1>1, <2>1
  <1>8. Upto(N) = Ent(g)
    <2>1. Ent(g) \subseteq Entries
      BY SMT DEF Ent
    <2>2. \A p \in Ent(g) : index_fd(p.fd) \in 1 .. N
      BY <2>1, FdsAreNat DEF Entries
    <2>. QED  BY SMT, <2>2
  <1>9. Lists(F[N], Upto(N))
    <2>. HIDE DEF Upto
    <2>1. (N - 1) + 1 = N /\ N \in 1 .. N
      BY SMT, <1>1
    <2>2. (N - 1) + 1 \in 1 .. N => Lists(F[(N - 1) + 1], Upto((N - 1) + 1))
      BY <1>7
    <2>. QED  BY <2>1, <2>2
  <1>. QED  BY <1>3, <1>8, <1>9

\* A table with nothing in it
LEMMA ExactNoReg ==
  ASSUME NEW f, NEW b PROVE Exact(NoReg, {}, f, b)
  <1>1. Good(NoReg, {}, f)
    BY SMT, GoodNoReg
  <1>2. Ent(NoReg) = {}
    BY SMT, <1>1, EntriesAre
  <1>3. NoReg.pfdcount = 0 /\ NoReg.interest = {}
    BY SMT DEF NoReg
  <1>4. Watched({}) = {}
    BY SMT DEF Watched
  <1>. QED  BY <1>1, <1>2, <1>3, <1>4, FS_EmptySet DEF Exact

\* A table whose list is empty holds no object.
LEMMA ExactEmpty ==
  ASSUME NEW g, NEW A, NEW f, NEW b, Exact(g, A, f, b), Registered(g) = <<>>
  PROVE  A = {}
  <1>1. Lists(<<>>, Ent(g))
    BY RegisteredLists DEF Exact
  <1>2. \A p \in Ent(g) : FALSE
    BY SMT, <1>1 DEF Lists, In
  <1>. QED  BY <1>2 DEF Exact

\* The table holds the attached objects, under the descriptors that they have; without a loop there are
\* none.
RegInv ==
    /\ Exact(reg, attached, fd, build)
    /\ loop # "alive" => Idle \notin attached
    /\ loop = "none" => attached = {}

LEMMA RegInit ==
  ASSUME Init PROVE RegInv
  BY SMT, ExactNoReg DEF Init, RegInv

LEMMA RegStep ==
  ASSUME OwnInv, RegInv, [Next]_vars PROVE RegInv'
  <1>. USE DEF objvars, thread
  <1>i. /\ Idle \in Objs /\ Evts \subseteq Objs /\ Timers \subseteq Objs /\ Raws \subseteq Objs
        /\ \A o \in Timers \union Raws : o # Idle
    BY SMT, Sorts DEF Objs
  <1>f. fd \in [Objs -> Fds \union {0}] /\ \A o \in Objs : Alive(o) => fd[o] \in Fds
    BY SMT DEF OwnInv, Owned, Alive
  <1>n. NewFd \in Fds /\ NewFd \notin open
    BY SMT, NewFdIsFree DEF OwnInv
  <1>b. \A fails \in Failures : fails \in BOOLEAN
    BY DEF Failures
  <1>s. {"IN"} \in SUBSET {"IN", "OUT"} /\ \A events \in EventSets : events \in SUBSET {"IN", "OUT"}
    BY SMT, EventNames
  <1>a. \A o \in attached : Alive(o) /\ o \in Objs
    BY SMT DEF OwnInv
  <1>. HIDE DEF NewFd
  <1>e. \A o \in attached : fd[o] # NewFd
    BY SMT, <1>a, <1>n DEF OwnInv, Owned
  <1>d. \A o \in Objs, p \in attached : fd[p] = fd[o] => p = o
    BY <1>a DEF OwnInv, Owned
  <1>1. CASE pomp_loop_new
    <2>1. fd'[Idle] = NewFd /\ Idle \notin attached /\ attached = {}
      BY SMT, <1>1, <1>i, <1>f DEF pomp_loop_new, RegInv
    <2>2. Exact(NoReg, {}, fd', build)
      BY SMT, ExactNoReg
    <2>3. Exact(pomp_loop_add(NoReg, NewFd, {"IN"}, Idle, FALSE), {} \union {Idle}, fd', build)
      BY <1>i, <1>n, <1>s, <2>1, <2>2, ExactAdd
    <2>. QED  BY <1>1, <2>1, <2>3 DEF pomp_loop_new, RegInv
  <1>2. ASSUME NEW busy \in BOOLEAN, pomp_loop_destroy(busy) PROVE RegInv'
    <2>. DEFINE g == IF loop = "alive" THEN pomp_loop_remove(reg, fd[Idle]) ELSE reg
    <2>1. Exact(g, attached \ {Idle}, fd, build)
      <3>1. CASE loop = "alive"
        <4>1. fd[Idle] \in Fds
          BY SMT, <1>f, <1>i, <3>1 DEF OwnInv
        <4>2. Exact(pomp_loop_remove(reg, fd[Idle]), attached \ {Idle}, fd, build)
          BY <1>i, <1>d, <4>1, ExactRemove DEF RegInv
        <4>. QED  BY SMT, <3>1, <4>2
      <3>2. CASE loop # "alive"
        <4>1. attached \ {Idle} = attached
          BY SMT, <3>2 DEF RegInv
        <4>. QED  BY SMT, <3>2, <4>1 DEF RegInv
      <3>. QED  BY SMT, <3>1, <3>2
    <2>. HIDE DEF g
    <2>2. attached' = attached \ {Idle} /\ build' = build
      BY SMT, <1>2 DEF pomp_loop_destroy
    <2>3. CASE busy \/ Registered(g) # <<>>
      <3>1. loop' = "destroying" /\ reg' = g /\ fd' = fd
        BY SMT, <1>2, <2>3 DEF pomp_loop_destroy, g
      <3>. QED  BY <2>1, <2>2, <3>1 DEF RegInv
    <2>4. CASE ~(busy \/ Registered(g) # <<>>)
      <3>1. reg' = NoReg
        BY SMT, <1>2, <2>4 DEF pomp_loop_destroy, g
      <3>2. attached' = {}
        BY <2>1, <2>2, <2>4, ExactEmpty
      <3>. QED  BY <3>1, <3>2, ExactNoReg DEF RegInv
    <2>. QED  BY SMT, <2>3, <2>4
  <1>3. ASSUME NEW o \in Objs, o \notin attached, NEW n, fd' = [fd EXCEPT ![o] = n],
               UNCHANGED <<build, reg, attached, loop>>
        PROVE  RegInv'
    <2>1. \A p \in attached : fd'[p] = fd[p]
      BY SMT, <1>3, <1>f, <1>a
    <2>2. Exact(reg, attached, fd', build)
      BY <2>1, ExactChange DEF RegInv
    <2>. QED  BY SMT, <1>3, <2>2 DEF RegInv
  <1>4. ASSUME NEW e \in Evts, pomp_evt_new(e) \/ pomp_evt_destroy(e) PROVE RegInv'
    <2>1. e \in Objs /\ e \notin attached /\ UNCHANGED <<build, reg, attached, loop>>
      BY SMT, <1>4, <1>i, <1>a DEF pomp_evt_new, pomp_evt_destroy
    <2>2. \E n : fd' = [fd EXCEPT ![e] = n]
      BY SMT, <1>4 DEF pomp_evt_new, pomp_evt_destroy
    <2>. QED  BY <1>3, <2>1, <2>2
  <1>5. ASSUME NEW o \in Objs, Alive(o), o \notin attached, NEW events \in SUBSET {"IN", "OUT"},
               NEW fails \in BOOLEAN, o # Idle, loop # "none",
               reg' = pomp_loop_add(reg, fd[o], events, o, fails),
               attached' = (IF fails THEN attached ELSE attached \union {o}), UNCHANGED <<build, fd, loop>>
        PROVE  RegInv'
    <2>1. fd[o] \in Fds /\ \A q \in attached : fd[q] # fd[o]
      BY <1>5, <1>f, <1>d
    <2>. DEFINE B == IF fails THEN attached ELSE attached \union {o}
    <2>2. Exact(pomp_loop_add(reg, fd[o], events, o, fails), B, fd, build)
      BY <1>5, <2>1, ExactAdd DEF RegInv
    <2>. QED  BY SMT, <1>5, <2>2 DEF RegInv
  <1>6. ASSUME NEW e \in Evts, NEW fails \in Failures, pomp_evt_attach_to_loop(e, fails) PROVE RegInv'
    BY <1>5, <1>6, <1>i, <1>s, <1>b DEF pomp_evt_attach_to_loop
  <1>7. ASSUME NEW o \in Raws, NEW events \in EventSets, NEW fails \in Failures, AddRaw(o, events, fails)
        PROVE  RegInv'
    BY SMTT(20), <1>5, <1>7, <1>i, <1>s, <1>b DEF AddRaw, OwnInv
  <1>8. ASSUME NEW o \in Objs, o \in attached, o # Idle, reg' = pomp_loop_remove(reg, fd[o]),
               attached' = attached \ {o}, UNCHANGED <<build, fd, loop>>
        PROVE  RegInv'
    <2>1. fd[o] \in Fds
      BY SMT, <1>8, <1>f, <1>a
    <2>2. Exact(pomp_loop_remove(reg, fd[o]), attached \ {o}, fd, build)
      BY <1>8, <1>d, <2>1, ExactRemove DEF RegInv
    <2>. QED  BY SMT, <1>8, <2>2 DEF RegInv
  <1>9. ASSUME NEW e \in Evts, pomp_evt_detach_from_loop(e) PROVE RegInv'
    BY SMT, <1>8, <1>9, <1>i DEF pomp_evt_detach_from_loop
  <1>10. ASSUME NEW o \in Raws, RemoveRaw(o) PROVE RegInv'
    BY SMT, <1>8, <1>10, <1>i DEF RemoveRaw
  <1>11. ASSUME NEW o \in Raws, NEW events \in EventSets, NEW fails \in Failures, UpdateRaw(o, events, fails)
         PROVE  RegInv'
    <2>1. fd[o] \in Fds
      BY SMT, <1>11, <1>f, <1>i DEF OwnInv
    <2>2. Exact(pomp_loop_update(reg, fd[o], events, fails), attached, fd, build)
      BY <1>11, <1>s, <1>b, <2>1, ExactUpdate DEF RegInv
    <2>. QED  BY SMT, <1>11, <2>2 DEF UpdateRaw, RegInv
  <1>12. ASSUME NEW t \in Timers, NEW fails \in Failures, NEW z \in BOOLEAN, pomp_timer_new(t, fails, z)
         PROVE  RegInv'
    <2>. DEFINE g == pomp_loop_add(reg, NewFd, {"IN"}, t, fails)
                h == [fd EXCEPT ![t] = NewFd]
                B == IF fails THEN attached ELSE attached \union {t}
    <2>1. t \in Objs /\ t # Idle /\ t \notin attached /\ h[t] = NewFd
      BY SMT, <1>12, <1>i, <1>f, <1>a DEF pomp_timer_new
    <2>2. \A p \in attached : h[p] = fd[p] /\ h[p] # NewFd
      BY SMT, <1>f, <1>a, <1>e, <2>1
    <2>. HIDE DEF h
    <2>3. Exact(reg, attached, h, build)
      BY <2>2, ExactChange DEF RegInv
    <2>4. Exact(g, B, h, build)
      BY <1>b, <1>n, <1>s, <2>1, <2>2, <2>3, ExactAdd
    <2>. HIDE DEF g
    <2>5. CASE fails
      <3>1. Exact(g, attached, h, build)
        BY SMT, <2>4, <2>5
      <3>2. Exact(pomp_loop_remove(g, NewFd), attached \ {t}, h, build)
        BY <1>n, <2>1, <2>2, <3>1, ExactRemove
      <3>3. attached \ {t} = attached
        BY SMT, <2>1
      <3>4. Exact(pomp_loop_remove(g, NewFd), attached, fd, build)
        BY <2>2, <3>2, <3>3, ExactChange
      <3>. QED  BY <1>12, <2>5, <3>4 DEF pomp_timer_new, RegInv, g
    <2>6. CASE ~fails
      <3>1. Exact(g, attached \union {t}, h, build)
        BY SMT, <2>4, <2>6
      <3>. QED  BY <1>12, <2>1, <2>6, <3>1 DEF pomp_timer_new, RegInv, g, h
    <2>. QED  BY SMT, <2>5, <2>6
  <1>13. ASSUME NEW t \in Timers, pomp_timer_destroy(t) PROVE RegInv'
    <2>1. fd[t] \in Fds /\ t \in Objs
      BY SMT, <1>13, <1>f, <1>i DEF pomp_timer_destroy
    <2>2. Exact(pomp_loop_remove(reg, fd[t]), attached \ {t}, fd, build)
      BY <1>d, <2>1, ExactRemove DEF RegInv
    <2>3. \A p \in attached \ {t} : fd'[p] = fd[p]
      BY SMT, <1>13, <1>f, <1>a DEF pomp_timer_destroy
    <2>4. Exact(pomp_loop_remove(reg, fd[t]), attached \ {t}, fd', build)
      BY <2>2, <2>3, ExactChange
    <2>. QED  BY SMTT(20), <1>13, <2>4 DEF pomp_timer_destroy, RegInv
  <1>14. CASE UNCHANGED <<build, reg, attached, fd, loop>>
    BY SMT, <1>14 DEF RegInv
  <1>15. CASE LoopThread
    BY SMT, <1>14, <1>15 DEF LoopThread, Process, CheckPeriod, Rearm, CallbackReturn, EndOfBatch
  <1>. QED
    BY <1>1, <1>2, <1>4, <1>6, <1>7, <1>9, <1>10, <1>11, <1>12, <1>13, <1>14, <1>15
    DEF Next, vars, pomp_evt_signal, pomp_evt_clear, pomp_timer_set, Expire, Wait

LEMMA RegExactly ==
  ASSUME RegInv PROVE RegisteredExactly
  <1>. DEFINE list == Registered(reg)
              n == Len(list)
              F == [i \in 1 .. n |-> list[i].obj]
  <1>1. Good(reg, attached, fd) /\ reg.pfdcount = Cardinality(attached)
        /\ (\A o \in attached : \E p \in Ent(reg) : p.obj = o)
        /\ (build = "linux" => reg.interest = Watched(Ent(reg)))
    BY SMT DEF RegInv, Exact
  <1>2. Lists(list, Ent(reg))
    BY <1>1, RegisteredLists
  <1>3. \A p \in Ent(reg) : p.obj \in attached /\ fd[p.obj] = p.fd
    BY SMT, <1>1, EntriesAre
  <1>. HIDE DEF list
  <1>4. list \in Seq(Entries) /\ n \in Nat /\ DOMAIN list = 1 .. n
    BY SMT, <1>2 DEF Lists
  <1>5. \A i \in 1 .. n : list[i] \in Ent(reg) /\ list[i].obj \in attached /\ fd[list[i].obj] = list[i].fd
    BY <1>2, <1>3 DEF Lists
  <1>a. \A p \in Ent(reg) : \E i \in 1 .. n : list[i] = p
    BY <1>2 DEF Lists, In
  <1>b. \A i, j \in 1 .. n : list[i].fd = list[j].fd => i = j
    BY <1>2 DEF Lists
  <1>. HIDE DEF n
  <1>6. \A o \in attached : \E i \in 1 .. n : list[i].obj = o
    BY <1>1, <1>a
  <1>7. ASSUME NEW i \in 1 .. n, NEW j \in 1 .. n, list[i].obj = list[j].obj PROVE i = j
    <2>1. fd[list[i].obj] = list[i].fd /\ fd[list[j].obj] = list[j].fd
      BY <1>5
    <2>2. list[i].fd = list[j].fd
      BY <1>7, <2>1
    <2>. QED  BY <1>b, <2>2
  <1>8. n = Cardinality(attached)
    <2>1. F \in Bijection(1 .. n, attached)
      BY <1>5, <1>6, <1>7 DEF Bijection, Injection, Surjection, IsInjective
    <2>2. IsFiniteSet(1 .. n) /\ Cardinality(1 .. n) = n
      BY SMT, <1>4, FS_Interval
    <2>. HIDE DEF F
    <2>. QED  BY <2>1, <2>2, FS_Bijection, Fun_ExistsBij DEF ExistsBijection
  <1>9. {<<list[i].fd, list[i].obj>> : i \in 1 .. n} = {<<fd[o], o>> : o \in attached}
    <2>1. \A i \in 1 .. n : <<list[i].fd, list[i].obj>> = <<fd[list[i].obj], list[i].obj>>
      BY <1>5
    <2>2. \A o \in attached : \E i \in 1 .. n : <<fd[o], o>> = <<list[i].fd, list[i].obj>>
      BY <1>5, <1>6
    <2>3. ASSUME NEW i \in 1 .. n PROVE <<list[i].fd, list[i].obj>> \in {<<fd[o], o>> : o \in attached}
      BY <1>5, <2>1
    <2>4. ASSUME NEW o \in attached PROVE <<fd[o], o>> \in {<<list[i].fd, list[i].obj>> : i \in 1 .. n}
      BY <2>2
    <2>. QED  BY <2>3, <2>4
  <1>10. ASSUME NEW b \in 1 .. NBuckets, NEW i \in DOMAIN reg.pfds[b] PROVE index_fd(reg.pfds[b][i].fd) = b
    <2>. DEFINE s == reg.pfds[b]
    <2>1. Bucket(s, b, attached, fd) /\ i \in DOMAIN s
      BY SMT, <1>1 DEF Good
    <2>. HIDE DEF s
    <2>2. index_fd(s[i].fd) = b
      BY SMT, <2>1 DEF Bucket
    <2>. QED  BY SMT, <2>2 DEF s
  <1>11. Watched(Ent(reg)) = {[fd |-> list[i].fd, events |-> list[i].events] : i \in 1 .. n}
    BY <1>5, <1>a DEF Watched
  <1>. QED  BY <1>1, <1>4, <1>8, <1>9, <1>10, <1>11 DEF RegisteredExactly, list, n

\* The table of the loop, its count and what epoll monitors are the descriptors of the attached objects,
\* for any number of objects and buckets, whatever epoll_ctl refuses and however numbers are used again.
THEOREM TableIsExact == Spec => []RegisteredExactly
  BY OwnInit, OwnStep, RegInit, RegStep, RegExactly, PTL DEF Spec

(***************************************************************************)
(* The batch of epoll_wait or poll                                          *)
(***************************************************************************)
\* What is left of a batch are numbers of descriptors, of objects that may be gone.
BatchInv == \E T : batch \in Seq(T) /\ \A b \in T : b.fd \in Fds

LEMMA InterestFinite ==
  IsFiniteSet(Interest)
  <1>. DEFINE E == SUBSET {"IN", "OUT"}
              f == [x \in Fds \X E |-> [fd |-> x[1], events |-> x[2]]]
  <1>1. IsFiniteSet(Fds)
    <2>1. Cardinality(Objs) + 1 \in Int
      BY SMT, ObjsFinite, FS_CardinalityType
    <2>. QED  BY SMT, <2>1, FS_Interval DEF Fds
  <1>2. IsFiniteSet(E)
    <2>1. IsFiniteSet({"IN"} \union {"OUT"})
      BY FS_Singleton, FS_AddElement
    <2>2. {"IN"} \union {"OUT"} = {"IN", "OUT"}
      BY SMT
    <2>. QED  BY SMT, <2>1, <2>2, FS_SUBSET
  <1>3. IsFiniteSet(Fds \X E)
    BY SMT, <1>1, <1>2, FS_Product
  <1>4. f \in Surjection(Fds \X E, Interest)
    <2>. HIDE DEF E
    <2>1. \A x \in Fds \X E : f[x] = [fd |-> x[1], events |-> x[2]] /\ f[x] \in Interest
      BY SMT DEF Interest, E
    <2>2. f \in [Fds \X E -> Interest]
      BY SMT, <2>1
    <2>3. ASSUME NEW r \in Interest PROVE \E x \in Fds \X E : f[x] = r
      <3>1. <<r.fd, r.events>> \in Fds \X E /\ r = [fd |-> r.fd, events |-> r.events]
        BY SMT DEF Interest, E
      <3>2. f[<<r.fd, r.events>>] = [fd |-> r.fd, events |-> r.events]
        BY SMT, <2>1, <3>1
      <3>. QED  BY SMT, <3>1, <3>2
    <2>. QED  BY SMT, <2>2, <2>3 DEF Surjection
  <1>. QED  BY SMT, <1>3, <1>4, FS_Surjection

\* A batch of epoll_wait has entries for monitored descriptors.
LEMMA EpollBatch ==
  ASSUME reg \in Tables, NEW rawevents, NEW bs \in EpollBatches(rawevents)
  PROVE  \E T : bs \in Seq(T) /\ \A b \in T : b.fd \in Fds
  <1>. DEFINE R == {x \in reg.interest : IsReady(x, rawevents)}
              ready == {Entry(r) : r \in R}
              f == [r \in R |-> Entry(r)]
  <1>1. R \subseteq Interest /\ IsFiniteSet(R)
    BY SMT, InterestFinite, FS_Subset DEF Tables
  <1>. HIDE DEF R
  <1>2. f \in Surjection(R, ready)
    BY SMT DEF Surjection
  <1>3. IsFiniteSet(ready)
    BY SMT, <1>1, <1>2, FS_Surjection
  <1>4. \A b \in ready : b.fd \in Fds
    BY SMT, <1>1 DEF Entry, Interest
  <1>. HIDE DEF ready
  <1>5. PICK s \in SUBSET ready : bs \in Bijection(1 .. Cardinality(s), s)
    BY DEF EpollBatches, kSubset, ready, R
  <1>6. Cardinality(s) \in Nat
    BY SMT, <1>3, FS_Subset, FS_CardinalityType
  <1>7. bs \in [1 .. Cardinality(s) -> s]
    BY <1>5 DEF Bijection, Injection
  <1>8. bs \in Seq(s)
    BY SMT, <1>6, <1>7
  <1>. QED  BY SMT, <1>4, <1>8

\* A batch of poll has entries for registered descriptors.
LEMMA PollBatchIs ==
  ASSUME RegInv, NEW rawevents
  PROVE  \E T : PollBatch(rawevents) \in Seq(T) /\ \A b \in T : b.fd \in Fds
  <1>. DEFINE a == PollArray
              n == Len(a)
              T == {Entry(r) : r \in Entries}
              S == Seq(T)
              Turn(i, x) == IF IsReady(a[i], rawevents) THEN Append(x, Entry(a[i])) ELSE x
              step == [i \in Int |-> [x \in S |-> IF i \in 1 .. n THEN Turn(i, x) ELSE x]]
              ready == CHOOSE f : f = [i \in 0 .. n |->
                                          IF i = 0 THEN <<>>
                                          ELSE IF IsReady(a[i], rawevents) THEN Append(f[i - 1], Entry(a[i]))
                                          ELSE f[i - 1]]
  <1>1. a \in Seq(Entries)
    <2>. DEFINE list == Registered(reg)
    <2>1. RegisteredExactly
      BY SMT, RegExactly
    <2>2. list \in Seq(Entries)
      BY RegisteredLists DEF RegInv, Exact, Lists
    <2>3. a = SubSeq(list, 1, Len(list))
      BY <2>1 DEF RegisteredExactly, PollArray
    <2>. HIDE DEF list
    <2>. QED  BY SMT, <2>2, <2>3
  <1>2. \A b \in T : b.fd \in Fds
    BY SMT DEF Entry, Entries
  <1>3. PollBatch(rawevents) = ready[n]
    BY SMT DEF PollBatch
  <1>. HIDE DEF a
  <1>4. n \in Nat /\ \A i \in 1 .. n : Entry(a[i]) \in T
    <2>. HIDE DEF T
    <2>1. n \in Nat /\ \A i \in 1 .. n : a[i] \in Entries
      BY SMT, <1>1
    <2>. QED  BY <2>1 DEF T
  <1>. HIDE DEF T, n
  <1>5. <<>> \in S /\ \A i \in 1 .. n, x \in S : Turn(i, x) \in S
    BY SMT, <1>4
  <1>. HIDE DEF S
  <1>6. step \in [Int -> [S -> S]]
    <2>. HIDE DEF Turn
    <2>. QED  BY <1>5
  <1>. HIDE DEF step
  <1>7. PICK f \in [0 .. n -> S] : Follows(f, 0, n, <<>>, step)
    <2>1. 0 \in Int /\ 0 + n = n
      BY SMT, <1>4
    <2>2. \A m \in Nat : \E f \in [0 .. 0 + m -> S] : Follows(f, 0, 0 + m, <<>>, step)
      BY <1>5, <1>6, <2>1, Recursion
    <2>3. \E f \in [0 .. 0 + n -> S] : Follows(f, 0, 0 + n, <<>>, step)
      BY <1>4, <2>2
    <2>. QED  BY <2>1, <2>3
  <1>8. \A i \in 0 .. n : f[i] = IF i = 0 THEN <<>> ELSE Turn(i, f[i - 1])
    <2>. HIDE DEF Turn
    <2>. TAKE i \in 0 .. n
    <2>1. CASE i = 0
      BY <1>7, <2>1 DEF Follows
    <2>2. CASE i # 0
      <3>1. i - 1 \in 0 .. n /\ i \in Int /\ i \in 1 .. n
        BY SMT, <1>4, <2>2
      <3>2. f[i - 1] \in S
        BY <1>7, <3>1
      <3>3. step[i][f[i - 1]] = Turn(i, f[i - 1])
        BY <3>1, <3>2 DEF step
      <3>. QED  BY <1>7, <2>2, <3>3 DEF Follows
    <2>. QED  BY SMT, <2>1, <2>2
  <1>9. f = [i \in 0 .. n |-> IF i = 0 THEN <<>>
                              ELSE IF IsReady(a[i], rawevents) THEN Append(f[i - 1], Entry(a[i]))
                              ELSE f[i - 1]]
    BY <1>7, <1>8
  <1>10. ready = [i \in 0 .. n |-> IF i = 0 THEN <<>>
                                   ELSE IF IsReady(a[i], rawevents) THEN Append(ready[i - 1], Entry(a[i]))
                                   ELSE ready[i - 1]]
    BY <1>9
  <1>. HIDE DEF ready
  <1>11. \A i \in 0 .. n : ready[i] = IF i = 0 THEN <<>> ELSE Turn(i, ready[i - 1])
    BY <1>10
  <1>. HIDE DEF Turn
  <1>. DEFINE P == {k \in Nat : k \in 0 .. n => ready[k] \in S}
  <1>12. 0 \in P
    BY <1>5, <1>11
  <1>13. ASSUME NEW k \in Nat, k \in P PROVE k + 1 \in P
    <2>. SUFFICES ASSUME k + 1 \in 0 .. n PROVE ready[k + 1] \in S
      BY SMT
    <2>1. k \in 0 .. n /\ k + 1 # 0 /\ (k + 1) - 1 = k /\ k + 1 \in 1 .. n
      BY SMT, <1>4
    <2>2. ready[k + 1] = Turn(k + 1, ready[k])
      BY <1>11, <2>1
    <2>3. ready[k] \in S
      BY <1>13, <2>1
    <2>. QED  BY <1>5, <2>1, <2>2, <2>3
  <1>14. ready[n] \in S
    <2>1. n \in P
      <3>. HIDE DEF P
      <3>. QED  BY <1>4, <1>12, <1>13, Induction
    <2>2. n \in 0 .. n
      BY SMT, <1>4
    <2>. QED  BY <2>1, <2>2
  <1>. QED  BY <1>2, <1>3, <1>14 DEF S

LEMMA BatchStep ==
  ASSUME BatchInv, RegInv, [Next]_vars PROVE BatchInv'
  <1>. USE DEF objvars, thread
  <1>1. CASE UNCHANGED batch
    BY SMT, <1>1 DEF BatchInv
  <1>2. CASE Wait
    <2>1. PICK rawevents \in SUBSET {"IN", "OUT"} : batch' \in Batches(rawevents)
      BY SMT, <1>2 DEF Wait
    <2>2. reg \in Tables
      BY SMT DEF RegInv, Exact, Good
    <2>3. CASE batch' \in EpollBatches(rawevents)
      BY <2>2, <2>3, EpollBatch DEF BatchInv
    <2>4. CASE batch' = PollBatch(rawevents)
      BY <2>4, PollBatchIs DEF BatchInv
    <2>. QED  BY SMT, <2>1, <2>3, <2>4 DEF Batches
  <1>3. CASE Process
    <2>1. PICK T : batch \in Seq(T) /\ \A b \in T : b.fd \in Fds
      BY SMT DEF BatchInv
    <2>2. batch # <<>> /\ batch' = Tail(batch)
      BY SMT, <1>3 DEF Process
    <2>3. Tail(batch) \in Seq(T)
      BY SMT, <2>1, <2>2
    <2>. QED  BY SMT, <2>1, <2>2, <2>3 DEF BatchInv
  <1>. QED
    BY <1>1, <1>2, <1>3
    DEF Next, LoopThread, vars, pomp_loop_new, pomp_loop_destroy, pomp_evt_new, pomp_evt_destroy,
        pomp_evt_attach_to_loop, pomp_evt_detach_from_loop, AddRaw, UpdateRaw, RemoveRaw, pomp_timer_new,
        pomp_timer_destroy, pomp_evt_signal, pomp_evt_clear, pomp_timer_set, Expire, CheckPeriod, Rearm,
        CallbackReturn, EndOfBatch

\* The object that is called is attached: what the lookup finds is in the table.
LEMMA LookupAttached ==
  ASSUME BatchInv, RegInv, batch # <<>>
  PROVE  Lookup(Head(batch)) = None \/ Lookup(Head(batch)) \in attached
  <1>. DEFINE n == Head(batch).fd
  <1>1. n \in Fds
    BY SMT DEF BatchInv
  <1>. HIDE DEF n
  <1>2. index_fd(n) \in 1 .. NBuckets /\ Bucket(reg.pfds[index_fd(n)], index_fd(n), attached, fd)
    BY SMT, <1>1, FdsAreNat DEF RegInv, Exact, Good
  <1>3. find_pfd(reg, n) = 0 \/ find_pfd(reg, n) \in 1 .. Len(reg.pfds[index_fd(n)])
    BY SMT, <1>2, FindIs DEF Bucket
  <1>4. find_pfd(reg, n) # 0 => reg.pfds[index_fd(n)][find_pfd(reg, n)].obj \in attached
    BY SMT, <1>2, <1>3 DEF Bucket
  <1>5. Lookup(Head(batch)) = IF find_pfd(reg, n) = 0 THEN None
                              ELSE reg.pfds[index_fd(n)][find_pfd(reg, n)].obj
    BY SMT DEF Lookup, n
  <1>. QED  BY SMT, <1>4, <1>5

LEMMA CalledAttached ==
  ASSUME BatchInv, RegInv, [Next]_vars PROVE cb' # cb /\ cb' # None => cb' \in attached
  <1>. USE DEF objvars, thread
  <1>1. CASE UNCHANGED cb
    BY SMT, <1>1
  <1>2. CASE CallbackReturn
    BY SMT, <1>2 DEF CallbackReturn
  <1>3. CASE Process
    <2>. DEFINE o == Lookup(Head(batch))
    <2>1. o = None \/ o \in attached
      BY SMT, <1>3, LookupAttached DEF Process
    <2>2. cb' = cb \/ cb' = o
      <3>. HIDE DEF o
      <3>. QED
        BY SMT, <1>3 DEF Process, o, Skip, Call, evt_cb, timer_fd_cb, timer_posix_cb, timer_kqueue_cb
    <2>. QED  BY SMT, <2>1, <2>2
  <1>. QED
    BY <1>1, <1>2, <1>3
    DEF Next, LoopThread, vars, pomp_loop_new, pomp_loop_destroy, pomp_evt_new, pomp_evt_destroy,
        pomp_evt_attach_to_loop, pomp_evt_detach_from_loop, AddRaw, UpdateRaw, RemoveRaw, pomp_timer_new,
        pomp_timer_destroy, pomp_evt_signal, pomp_evt_clear, pomp_timer_set, Expire, Wait, CheckPeriod,
        Rearm, EndOfBatch

\* Over epoll and over poll, no object is called once it is detached or destroyed, even when its events are
\* in the batch or its descriptor number is used again for another object, for any number of objects and
\* buckets.
THEOREM NoStaleCallback == Spec => NoCallbackAfterDetach
  <1>1. Init => BatchInv
    <2>1. <<>> \in Seq({})
      BY SMT
    <2>. QED  BY SMT, <2>1 DEF Init, BatchInv
  <1>. QED
    BY <1>1, OwnInit, OwnStep, RegInit, RegStep, BatchStep, CalledAttached, PTL DEF Spec, NoCallbackAfterDetach

=============================================================================
