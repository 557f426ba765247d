------------------------------ MODULE CtxProofs ------------------------------
(***************************************************************************)
(* Proofs about Ctx for any number of connections: what the program is told  *)
(* of its connections, that none is freed while a function in progress uses  *)
(* it, and that a stopped context is quiet.                                  *)
(***************************************************************************)
EXTENDS Ctx, FiniteSetTheorems, SequenceTheorems, TLAPS

\* A leaf that names no prover is for Zenon.
USE Zenon

(***************************************************************************)
(* The inductive invariant. Nine stacks are possible: pomp_conn_cb and       *)
(* pomp_ctx_stop_idle are called by the loop alone, since a stop asked for   *)
(* in a callback is deferred; a close is called by one of them or, in the    *)
(* place of pomp_conn_cb, by the loop; and a callback is always the          *)
(* innermost call.                                                           *)
(***************************************************************************)
Fr(f, c) == [f |-> f, c |-> c]

Stack(k, c) ==
    IF k = "cb" THEN <<Fr("cb", c)>>
    ELSE IF k = "conn" THEN <<Fr("conn", c)>>
    ELSE IF k = "conncb" THEN <<Fr("conn", c), Fr("cb", c)>>
    ELSE IF k = "close" THEN <<Fr("close", c)>>
    ELSE IF k = "closecb" THEN <<Fr("close", c), Fr("cb", c)>>
    ELSE IF k = "stop" THEN <<Fr("stop", NoConn)>>
    ELSE IF k = "stopclose" THEN <<Fr("stop", NoConn), Fr("close", c)>>
    ELSE IF k = "stopclosecb" THEN <<Fr("stop", NoConn), Fr("close", c), Fr("cb", c)>>
    ELSE <<>>

Conning == {"conn", "conncb"}
Closing == {"close", "closecb", "stopclose", "stopclosecb"}
Stopping == {"stop", "stopclose", "stopclosecb"}
Calling == {"cb", "conncb", "closecb", "stopclosecb"}
Kinds == {"none"} \union Conning \union Closing \union Stopping \union Calling

\* What holds while the stack is of kind k about c.
During(k, c) ==
    /\ c \in 1 .. made \/ k \in {"none", "stop"}
    /\ k # "none" => addr
    /\ k \notin {"none", "stop"} => c \notin freed
    /\ k \in Conning => c \in conns
    /\ k \in Closing => c \notin conns /\ (type = "client" => conns = {} /\ ~fd)
    /\ k \in Stopping => stopping /\ idle = 0
    /\ notifying = IF k \in Calling THEN 1 ELSE 0

StackInv == \E k \in Kinds, c \in 1 .. made \union {NoConn} : stack = Stack(k, c) /\ During(k, c)

FlagsType ==
    /\ addr \in BOOLEAN /\ stopping \in BOOLEAN /\ destroyed \in BOOLEAN
    /\ fd \in BOOLEAN /\ timer \in BOOLEAN /\ failed \in BOOLEAN

BaseType ==
    /\ type \in Types
    /\ conncount \in Nat /\ idle \in Nat
    /\ made \in 0 .. MaxMade
    /\ conns \subseteq 1 .. made /\ freed \subseteq 1 .. made
    /\ seen \in [Made -> Seq({"connected", "disconnected"})]

\* The list is as the type of the context wants it: counted for a server; of one connection
\* at most, and with one attempt at a time, for a client.
ConnsInv ==
    /\ conns \intersect freed = {}
    /\ type = "server" => conncount = Cardinality(conns)
    /\ type = "client" => /\ \A c, d \in conns : c = d
                          /\ conns # {} => ~fd /\ ~timer
                          /\ ~(fd /\ timer)

\* What the program was told, with nothing told of connections to come.
SeenInv == EventsPaired /\ \A c \in Made : c > made => seen[c] = <<>>

IdleInv == idle \in {0, 1} /\ (idle = 1 => stopping)

CtxInv ==
    FlagsType /\ BaseType /\ StackInv /\ ConnsInv /\ SeenInv /\ IdleInv /\ StoppedIsQuiet

(***************************************************************************)
(* Stacks                                                                   *)
(***************************************************************************)
\* The kind of the stack when the innermost call has returned.
Under(k) ==
    IF k = "conncb" THEN "conn"
    ELSE IF k = "closecb" THEN "close"
    ELSE IF k = "stopclosecb" THEN "stopclose"
    ELSE IF k = "stopclose" THEN "stop"
    ELSE "none"

\* The stacks one by one.
LEMMA StackIs ==
  ASSUME NEW c
  PROVE  /\ Stack("none", c) = <<>>
         /\ Stack("cb", c) = <<Fr("cb", c)>>
         /\ Stack("conn", c) = <<Fr("conn", c)>>
         /\ Stack("conncb", c) = <<Fr("conn", c), Fr("cb", c)>>
         /\ Stack("close", c) = <<Fr("close", c)>>
         /\ Stack("closecb", c) = <<Fr("close", c), Fr("cb", c)>>
         /\ Stack("stop", c) = <<Fr("stop", NoConn)>>
         /\ Stack("stopclose", c) = <<Fr("stop", NoConn), Fr("close", c)>>
         /\ Stack("stopclosecb", c) = <<Fr("stop", NoConn), Fr("close", c), Fr("cb", c)>>
  BY DEF Stack

\* The kinds one by one.
LEMMA KindsAre ==
  ASSUME NEW k \in Kinds
  PROVE  k \in {"none", "cb", "conn", "conncb", "close", "closecb", "stop", "stopclose", "stopclosecb"}
  BY DEF Kinds, Conning, Closing, Stopping, Calling

\* Sequences of up to three elements.
LEMMA SmallEqual ==
  ASSUME NEW S, NEW s \in Seq(S), NEW t \in Seq(S), Len(s) = Len(t), Len(s) <= 3,
         Len(s) >= 1 => s[1] = t[1], Len(s) >= 2 => s[2] = t[2], Len(s) = 3 => s[3] = t[3]
  PROVE  s = t
  <1>1. \A i \in 1 .. Len(s) : i = 1 \/ i = 2 \/ i = 3
    BY SMT
  <1>2. \A i \in 1 .. Len(s) : s[i] = t[i]
    BY SMT, <1>1
  <1>. QED  BY <1>2, SeqEqual

LEMMA TupleIs ==
  ASSUME NEW S, NEW a \in S, NEW b \in S, NEW d \in S
  PROVE  /\ <<>> \in Seq(S) /\ Len(<<>>) = 0
         /\ <<a>> \in Seq(S) /\ Len(<<a>>) = 1 /\ <<a>>[1] = a
         /\ <<a, b>> \in Seq(S) /\ Len(<<a, b>>) = 2 /\ <<a, b>>[1] = a /\ <<a, b>>[2] = b
         /\ <<a, b, d>> \in Seq(S) /\ Len(<<a, b, d>>) = 3
         /\ <<a, b, d>>[1] = a /\ <<a, b, d>>[2] = b /\ <<a, b, d>>[3] = d
  BY SMT

\* An element more, and one less.
LEMMA AppendTuple ==
  ASSUME NEW a, NEW b, NEW d
  PROVE  Append(<<>>, a) = <<a>> /\ Append(<<a>>, b) = <<a, b>> /\ Append(<<a, b>>, d) = <<a, b, d>>
  <1>. DEFINE S == {a, b, d}
              s == <<a>>
              t == <<a, b>>
              u == <<a, b, d>>
  <1>1. a \in S /\ b \in S /\ d \in S
    OBVIOUS
  <1>. HIDE DEF S
  <1>2. s \in Seq(S) /\ Len(s) = 1 /\ s[1] = a
    BY SMT, <1>1
  <1>3. t \in Seq(S) /\ Len(t) = 2 /\ t[1] = a /\ t[2] = b
    BY SMT, <1>1
  <1>4. u \in Seq(S) /\ Len(u) = 3 /\ u[1] = a /\ u[2] = b /\ u[3] = d
    BY SMT, <1>1
  <1>5. <<>> \in Seq(S) /\ Len(<<>>) = 0
    BY SMT
  <1>. HIDE DEF s, t, u
  <1>6. Append(<<>>, a) = s
    BY SMT, <1>1, <1>2, <1>5, SmallEqual
  <1>7. Append(s, b) = t
    <2>1. /\ Append(s, b) \in Seq(S) /\ Len(Append(s, b)) = Len(s) + 1
          /\ \A i \in 1 .. Len(s) : Append(s, b)[i] = s[i]
          /\ Append(s, b)[Len(s) + 1] = b
      BY SMT, <1>1, <1>2, AppendProperties
    <2>2. Len(s) + 1 = 2 /\ 1 \in 1 .. Len(s)
      BY SMT, <1>2
    <2>. QED  BY SMT, <1>2, <1>3, <2>1, <2>2, SmallEqual
  <1>8. Append(t, d) = u
    <2>1. /\ Append(t, d) \in Seq(S) /\ Len(Append(t, d)) = Len(t) + 1
          /\ \A i \in 1 .. Len(t) : Append(t, d)[i] = t[i]
          /\ Append(t, d)[Len(t) + 1] = d
      BY SMTT(20), <1>1, <1>3, AppendProperties
    <2>2. Len(t) + 1 = 3 /\ 1 \in 1 .. Len(t) /\ 2 \in 1 .. Len(t)
      BY SMT, <1>3
    <2>. QED  BY SMT, <1>3, <1>4, <2>1, <2>2, SmallEqual
  <1>. QED  BY <1>6, <1>7, <1>8 DEF s, t, u

LEMMA SubTuple ==
  ASSUME NEW a, NEW b, NEW d
  PROVE  SubSeq(<<a>>, 1, 0) = <<>> /\ SubSeq(<<a, b>>, 1, 1) = <<a>> /\ SubSeq(<<a, b, d>>, 1, 2) = <<a, b>>
  <1>. DEFINE S == {a, b, d}
              s == <<a>>
              t == <<a, b>>
              u == <<a, b, d>>
  <1>1. a \in S /\ b \in S /\ d \in S
    OBVIOUS
  <1>. HIDE DEF S
  <1>2. s \in Seq(S) /\ Len(s) = 1 /\ s[1] = a
    BY SMT, <1>1
  <1>3. t \in Seq(S) /\ Len(t) = 2 /\ t[1] = a /\ t[2] = b
    BY SMT, <1>1
  <1>4. u \in Seq(S) /\ Len(u) = 3 /\ u[1] = a /\ u[2] = b /\ u[3] = d
    BY SMT, <1>1
  <1>. HIDE DEF s, t, u
  <1>5. SubSeq(s, 1, 0) = <<>>
    BY SMT, <1>1, <1>2
  <1>6. SubSeq(t, 1, 1) = s
    BY SMT, <1>1, <1>2, <1>3, SmallEqual
  <1>7. SubSeq(u, 1, 2) = t
    BY SMT, <1>1, <1>3, <1>4, SmallEqual
  <1>. QED  BY <1>5, <1>6, <1>7 DEF s, t, u

\* The innermost call, and what is below it.
LEMMA TopIs ==
  ASSUME NEW a, NEW b, NEW d
  PROVE  /\ stack = <<a>> => stack # <<>> /\ Top = a /\ Rest = <<>>
         /\ stack = <<a, b>> => stack # <<>> /\ Top = b /\ Rest = <<a>>
         /\ stack = <<a, b, d>> => stack # <<>> /\ Top = d /\ Rest = <<a, b>>
  <1>. DEFINE S == {a, b, d}
  <1>1. a \in S /\ b \in S /\ d \in S
    OBVIOUS
  <1>. HIDE DEF S
  <1>2. stack = <<a>> => stack # <<>> /\ Top = a /\ Rest = <<>>
    <2>. HAVE stack = <<a>>
    <2>1. Len(stack) = 1 /\ stack[1] = a /\ Len(<<>>) = 0 /\ Len(stack) - 1 = 0
      BY SMT, <1>1, TupleIs
    <2>. QED  BY <2>1, SubTuple DEF Top, Rest
  <1>3. stack = <<a, b>> => stack # <<>> /\ Top = b /\ Rest = <<a>>
    <2>. HAVE stack = <<a, b>>
    <2>1. Len(stack) = 2 /\ stack[2] = b /\ Len(<<>>) = 0 /\ Len(stack) - 1 = 1
      BY SMT, <1>1, TupleIs
    <2>. QED  BY <2>1, SubTuple DEF Top, Rest
  <1>4. stack = <<a, b, d>> => stack # <<>> /\ Top = d /\ Rest = <<a, b>>
    <2>. HAVE stack = <<a, b, d>>
    <2>1. Len(stack) = 3 /\ stack[3] = d /\ Len(<<>>) = 0 /\ Len(stack) - 1 = 2
      BY SMT, <1>1, TupleIs
    <2>. QED  BY <2>1, SubTuple DEF Top, Rest
  <1>. QED  BY <1>2, <1>3, <1>4

\* What can be called where.
LEMMA CallIs ==
  ASSUME NEW c, NEW d
  PROVE  /\ Call(<<>>, "cb", c) = Stack("cb", c)
         /\ Call(<<>>, "conn", c) = Stack("conn", c)
         /\ Call(<<>>, "close", c) = Stack("close", c)
         /\ Call(<<>>, "stop", NoConn) = Stack("stop", c)
         /\ Call(Stack("conn", c), "cb", c) = Stack("conncb", c)
         /\ Call(Stack("close", c), "cb", c) = Stack("closecb", c)
         /\ Call(Stack("stop", d), "close", c) = Stack("stopclose", c)
         /\ Call(Stack("stopclose", c), "cb", c) = Stack("stopclosecb", c)
  <1>1. \A below, f, x : Call(below, f, x) = Append(below, Fr(f, x))
    BY DEF Call, Fr
  <1>2. /\ Call(<<>>, "cb", c) = Stack("cb", c)
        /\ Call(<<>>, "conn", c) = Stack("conn", c)
        /\ Call(<<>>, "close", c) = Stack("close", c)
        /\ Call(<<>>, "stop", NoConn) = Stack("stop", c)
    BY ZenonT(30), <1>1, StackIs, AppendTuple
  <1>3. /\ Append(<<Fr("conn", c)>>, Fr("cb", c)) = <<Fr("conn", c), Fr("cb", c)>>
        /\ Append(<<Fr("close", c)>>, Fr("cb", c)) = <<Fr("close", c), Fr("cb", c)>>
        /\ Append(<<Fr("stop", NoConn)>>, Fr("close", c)) = <<Fr("stop", NoConn), Fr("close", c)>>
        /\ Append(<<Fr("stop", NoConn), Fr("close", c)>>, Fr("cb", c))
              = <<Fr("stop", NoConn), Fr("close", c), Fr("cb", c)>>
    BY AppendTuple
  <1>4. /\ Call(Stack("conn", c), "cb", c) = Stack("conncb", c)
        /\ Call(Stack("close", c), "cb", c) = Stack("closecb", c)
        /\ Call(Stack("stop", d), "close", c) = Stack("stopclose", c)
        /\ Call(Stack("stopclose", c), "cb", c) = Stack("stopclosecb", c)
    <2>1. Stack("stop", d) = Stack("stop", c)
      BY StackIs
    <2>. QED  BY <1>1, <1>3, <2>1, StackIs
  <1>. QED  BY <1>2, <1>4

\* At the innermost call of a stack.
LEMMA AtIs ==
  ASSUME NEW k \in Kinds, NEW c, stack = Stack(k, c)
  PROVE  /\ stack = <<>> <=> k = "none"
         /\ At("cb") <=> k \in Calling
         /\ At("conn") <=> k = "conn"
         /\ At("close") <=> k \in {"close", "stopclose"}
         /\ At("stop") <=> k = "stop"
         /\ k \notin {"none", "stop"} => Top.c = c
         /\ k # "none" => Rest = Stack(Under(k), c) /\ Under(k) \in Kinds \ Calling
  <1>1. \A f, d : Fr(f, d).f = f /\ Fr(f, d).c = d
    BY DEF Fr
  <1>2. CASE k = "none"
    BY <1>2, StackIs DEF At, Calling
  <1>3. CASE k \in {"cb", "conn", "close", "stop"}
    <2>. DEFINE d == IF k = "stop" THEN NoConn ELSE c
    <2>1. stack = <<Fr(k, d)>>
      BY <1>3, StackIs
    <2>2. Top = Fr(k, d) /\ stack # <<>> /\ Rest = <<>>
      BY <2>1, TopIs
    <2>3. Under(k) = "none"
      BY <1>3 DEF Under
    <2>. QED  BY <1>1, <1>3, <2>1, <2>2, <2>3, StackIs DEF At, Calling, Kinds
  <1>4. CASE k \in {"conncb", "closecb", "stopclose"}
    <2>. DEFINE f == IF k = "conncb" THEN "conn" ELSE IF k = "closecb" THEN "close" ELSE "stop"
                d == IF k = "stopclose" THEN NoConn ELSE c
                g == IF k = "stopclose" THEN "close" ELSE "cb"
    <2>1. stack = <<Fr(f, d), Fr(g, c)>> /\ Stack(f, c) = <<Fr(f, d)>>
      BY <1>4, StackIs
    <2>2. Top = Fr(g, c) /\ stack # <<>> /\ Rest = <<Fr(f, d)>>
      BY <2>1, TopIs
    <2>3. Under(k) = f
      BY <1>4 DEF Under
    <2>. QED  BY SMT, <1>1, <1>4, <2>1, <2>2, <2>3 DEF At, Calling, Kinds, Conning, Closing, Stopping
  <1>5. CASE k = "stopclosecb"
    <2>1. stack = <<Fr("stop", NoConn), Fr("close", c), Fr("cb", c)>>
      BY <1>5, StackIs
    <2>2. Top = Fr("cb", c) /\ stack # <<>> /\ Rest = <<Fr("stop", NoConn), Fr("close", c)>>
      BY <2>1, TopIs
    <2>3. Under(k) = "stopclose"
      BY <1>5 DEF Under
    <2>. QED  BY SMT, <1>1, <1>5, <2>1, <2>2, <2>3, StackIs DEF At, Calling, Kinds, Closing
  <1>. QED  BY <1>2, <1>3, <1>4, <1>5, KindsAre

(***************************************************************************)
(* What the program is told                                                 *)
(***************************************************************************)
\* The three histories of a connection.
LEMMA Histories ==
  /\ Append(<<>>, "connected") = <<"connected">>
  /\ Append(<<"connected">>, "disconnected") = <<"connected", "disconnected">>
  /\ <<>> # <<"connected">> /\ <<>> # <<"connected", "disconnected">>
  /\ <<"connected">> # <<"connected", "disconnected">>
  /\ <<>> \in Seq({"connected", "disconnected"})
  /\ <<"connected">> \in Seq({"connected", "disconnected"})
  /\ <<"connected", "disconnected">> \in Seq({"connected", "disconnected"})
  <1>. DEFINE S == {"connected", "disconnected"}
              a == "connected"
              b == "disconnected"
  <1>1. a \in S /\ b \in S
    OBVIOUS
  <1>. HIDE DEF S, a, b
  <1>2. /\ <<>> \in Seq(S) /\ Len(<<>>) = 0 /\ <<a>> \in Seq(S) /\ Len(<<a>>) = 1
        /\ <<a, b>> \in Seq(S) /\ Len(<<a, b>>) = 2
    BY <1>1, TupleIs
  <1>3. Append(<<>>, a) = <<a>> /\ Append(<<a>>, b) = <<a, b>>
    BY AppendTuple
  <1>4. <<>> # <<a>> /\ <<>> # <<a, b>> /\ <<a>> # <<a, b>>
    BY <1>2
  <1>. QED  BY <1>2, <1>3, <1>4 DEF S, a, b

\* A new connection is told.
LEMMA TellConnected ==
  ASSUME BaseType, SeenInv, made < MaxMade, made' = made + 1, conns' = conns \union {made'},
         type' = type, type # "dgram",
         seen' = [seen EXCEPT ![made'] = Append(@, "connected")]
  PROVE  SeenInv' /\ seen' \in [Made -> Seq({"connected", "disconnected"})]
  <1>1. made \in Nat /\ made' \in Made /\ made' > made /\ made' \notin conns
    BY SMT, SetupAssumption DEF BaseType, Made
  <1>2. seen[made'] = <<>>
    BY <1>1 DEF SeenInv
  <1>3. seen' = [seen EXCEPT ![made'] = <<"connected">>]
    BY <1>2, Histories
  <1>4. /\ seen' \in [Made -> Seq({"connected", "disconnected"})]
        /\ \A c \in Made : seen'[c] = IF c = made' THEN <<"connected">> ELSE seen[c]
    BY <1>1, <1>3, Histories DEF BaseType
  <1>5. EventsPaired'
    BY <1>1, <1>4 DEF SeenInv, EventsPaired
  <1>6. \A c \in Made : c > made' => seen'[c] = <<>>
    BY SMT, <1>1, <1>4 DEF SeenInv, Made
  <1>. QED  BY <1>4, <1>5, <1>6 DEF SeenInv

\* The end of a connection is told.
LEMMA TellDisconnected ==
  ASSUME BaseType, SeenInv, NEW c \in conns, made' = made, conns' = conns \ {c},
         type' = type, type # "dgram",
         seen' = [seen EXCEPT ![c] = Append(@, "disconnected")]
  PROVE  SeenInv' /\ seen' \in [Made -> Seq({"connected", "disconnected"})]
  <1>1. c \in Made /\ c <= made
    BY SMT, SetupAssumption DEF BaseType, Made
  <1>2. seen[c] = <<"connected">>
    BY <1>1 DEF SeenInv, EventsPaired
  <1>3. seen' = [seen EXCEPT ![c] = <<"connected", "disconnected">>]
    BY <1>2, Histories
  <1>4. /\ seen' \in [Made -> Seq({"connected", "disconnected"})]
        /\ \A d \in Made : seen'[d] = IF d = c THEN <<"connected", "disconnected">> ELSE seen[d]
    BY <1>1, <1>3, Histories DEF BaseType
  <1>5. EventsPaired'
    BY <1>1, <1>4, Histories DEF SeenInv, EventsPaired
  <1>6. \A d \in Made : d > made' => seen'[d] = <<>>
    BY SMT, <1>1, <1>4 DEF SeenInv, Made, BaseType
  <1>. QED  BY <1>4, <1>5, <1>6 DEF SeenInv

\* Nothing is told, and nothing had to be.
LEMMA TellNothing ==
  ASSUME BaseType, SeenInv, seen' = seen, made' \in Nat, made' >= made,
         \/ conns' = conns /\ type' = type
         \/ conns = {} /\ conns' = {}
         \/ type' = "dgram" /\ (type = "dgram" \/ conns = {})
  PROVE  SeenInv'
  <1>1. \A c \in Made : (c \in conns' /\ type' # "dgram") <=> (c \in conns /\ type # "dgram")
    BY DEF BaseType
  <1>2. EventsPaired'
    BY <1>1 DEF SeenInv, EventsPaired
  <1>3. \A c \in Made : c > made' => seen'[c] = <<>>
    BY SMT DEF SeenInv, BaseType, Made
  <1>. QED  BY <1>2, <1>3 DEF SeenInv

(***************************************************************************)
(* The steps                                                                *)
(***************************************************************************)
\* The stack after a step.
LEMMA StackTo ==
  ASSUME NEW k \in Kinds, NEW c \in 1 .. made' \union {NoConn}, stack' = Stack(k, c), During(k, c)'
  PROVE  StackInv'
  BY DEF StackInv

\* In the loop nothing is in progress.
LEMMA InTheLoop ==
  ASSUME CtxInv, stack = <<>>
  PROVE  notifying = 0 /\ \A c : stack = Stack("none", c)
  <1>1. PICK k \in Kinds, c \in 1 .. made \union {NoConn} : stack = Stack(k, c) /\ During(k, c)
    BY DEF CtxInv, StackInv
  <1>2. k = "none"
    BY <1>1, AtIs
  <1>. QED  BY <1>1, <1>2, StackIs DEF During, Calling

\* And it stays so.
LEMMA StayInLoop ==
  ASSUME stack' = <<>>, notifying' = 0
  PROVE  StackInv'
  <1>1. stack' = Stack("none", NoConn)
    BY StackIs
  <1>2. During("none", NoConn)'
    BY DEF During, Conning, Closing, Stopping, Calling
  <1>. QED  BY <1>1, <1>2, StackTo DEF Kinds

\* A server counts its connections, which are finitely many.
LEMMA ConnsFinite ==
  ASSUME BaseType
  PROVE  /\ IsFiniteSet(conns) /\ Cardinality(conns) \in Nat
         /\ Cardinality(conns) = 0 <=> conns = {}
         /\ \A c \in conns : Cardinality(conns \ {c}) = Cardinality(conns) - 1
         /\ \A c : c \notin conns => Cardinality(conns \union {c}) = Cardinality(conns) + 1
  <1>1. made \in Int /\ conns \subseteq 1 .. made
    BY SMT DEF BaseType
  <1>2. IsFiniteSet(1 .. made)
    BY SMT, <1>1, FS_Interval
  <1>3. IsFiniteSet(conns)
    BY <1>1, <1>2, FS_Subset
  <1>. QED  BY <1>3, FS_CardinalityType, FS_EmptySet, FS_RemoveElement, FS_AddElement

LEMMA StartStep ==
  ASSUME CtxInv, NEW t \in Types, NEW res \in Results, Start(t, res)
  PROVE  CtxInv'
  <1>1. stack = <<>>
    <2>1. PICK k \in Kinds, c \in 1 .. made \union {NoConn} : stack = Stack(k, c) /\ During(k, c)
      BY DEF CtxInv, StackInv
    <2>2. k = "none"
      BY <2>1 DEF Start, During
    <2>. QED  BY <2>1, <2>2, AtIs
  <1>2. notifying = 0 /\ BaseType /\ ConnsInv /\ SeenInv /\ IdleInv
    BY <1>1, InTheLoop DEF CtxInv
  <1>3. ~fd /\ conns = {} /\ ~timer /\ idle = 0 /\ ~stopping /\ ~addr
    BY DEF Start, CtxInv, StoppedIsQuiet
  <1>4. /\ type' = t /\ addr' = (res # "error") /\ failed' = FALSE
        /\ stopping' = stopping /\ idle' = idle /\ seen' = seen /\ freed' = freed /\ destroyed' = destroyed
        /\ conncount' = IF t = "server" THEN 0 ELSE conncount
    BY DEF Start
  <1>5. /\ fd' = (t # "dgram" /\ res = "ok") /\ timer' = (res = "later")
        /\ \/ conns' = {} /\ made' = made
           \/ t = "dgram" /\ res = "ok" /\ made < MaxMade /\ made' = made + 1 /\ conns' = {made'}
    BY <1>3 DEF Start, start, server_start, client_start, dgram_start
  <1>6. StackInv'
    BY <1>1, <1>2, StayInLoop DEF Start
  <1>f. FlagsType'
    BY <1>4, <1>5 DEF FlagsType, CtxInv
  <1>7. BaseType'
    BY SMT, <1>2, <1>3, <1>4, <1>5, SetupAssumption DEF BaseType
  <1>8. ConnsInv'
    <2>1. ~(fd' /\ timer')
      BY <1>5
    <2>2. conns' \intersect freed' = {} /\ (t # "dgram" => conns' = {})
      BY SMT, <1>2, <1>3, <1>4, <1>5 DEF BaseType, ConnsInv
    <2>. QED  BY <1>4, <2>1, <2>2, FS_EmptySet DEF ConnsInv
  <1>9. SeenInv'
    BY SMT, <1>2, <1>3, <1>4, <1>5, TellNothing DEF BaseType
  <1>10. IdleInv' /\ StoppedIsQuiet'
    BY <1>2, <1>3, <1>4, <1>5 DEF IdleInv, StoppedIsQuiet, Results
  <1>. QED  BY <1>f, <1>6, <1>7, <1>8, <1>9, <1>10 DEF CtxInv

LEMMA TimerStep ==
  ASSUME CtxInv, NEW res \in Results, TimerCb(res)
  PROVE  CtxInv'
  <1>1. stack = <<>> /\ notifying = 0 /\ BaseType /\ ConnsInv /\ SeenInv /\ IdleInv
    BY InTheLoop DEF CtxInv, TimerCb, InLoop
  <1>2. timer /\ addr /\ (type = "client" => conns = {})
    BY <1>1 DEF TimerCb, CtxInv, StoppedIsQuiet, ConnsInv
  <1>3. /\ type' = type /\ addr' = addr /\ failed' = (failed \/ res = "error")
        /\ stopping' = stopping /\ idle' = idle /\ seen' = seen /\ freed' = freed
        /\ destroyed' = destroyed /\ conncount' = conncount
    BY DEF TimerCb
  <1>4. fd' = (type # "dgram" /\ res = "ok") /\ timer' = (res = "later")
    BY DEF TimerCb, start, server_start, client_start, dgram_start
  <1>c. \/ conns' = conns /\ made' = made
        \/ type = "dgram" /\ made < MaxMade /\ made' = made + 1 /\ conns' = {made'}
    BY DEF TimerCb, start, server_start, client_start, dgram_start
  <1>5. StackInv'
    BY <1>1, StayInLoop DEF TimerCb
  <1>f. FlagsType'
    BY <1>3, <1>4 DEF FlagsType, CtxInv
  <1>6. BaseType'
    <2>1. conns' \subseteq 1 .. made' /\ freed' \subseteq 1 .. made' /\ made' \in 0 .. MaxMade
      <3>1. conns \subseteq 1 .. made /\ freed \subseteq 1 .. made /\ made \in 0 .. MaxMade /\ freed' = freed
        BY <1>1, <1>3 DEF BaseType
      <3>2. made \in Nat /\ made' \in 0 .. MaxMade /\ made <= made'
        BY SMT, <1>c, <3>1, SetupAssumption
      <3>3. \A c \in 1 .. made : c \in 1 .. made'
        BY SMT, <3>2
      <3>4. conns' \subseteq 1 .. made'
        <4>1. made' = made + 1 => made' \in 1 .. made'
          BY SMT, <3>2
        <4>. QED  BY <1>c, <3>1, <4>1
      <3>. QED  BY <3>1, <3>2, <3>3, <3>4
    <2>. QED  BY <1>1, <1>3, <2>1 DEF BaseType
  <1>7. ConnsInv'
    <2>1. ~(fd' /\ timer')
      BY <1>4
    <2>2. conns' \intersect freed' = {} /\ (type # "dgram" => conns' = conns)
      <3>1. freed \subseteq 1 .. made /\ made \in Nat /\ freed' = freed /\ conns \intersect freed = {}
        BY SMT, <1>1, <1>3, SetupAssumption DEF BaseType, ConnsInv
      <3>. QED  BY SMT, <1>c, <3>1
    <2>. QED  BY <1>1, <1>2, <1>3, <2>1, <2>2 DEF ConnsInv
  <1>8. SeenInv'
    BY SMT, <1>1, <1>3, <1>c, TellNothing DEF BaseType
  <1>9. IdleInv' /\ StoppedIsQuiet'
    BY <1>1, <1>2, <1>3 DEF IdleInv, StoppedIsQuiet
  <1>. QED  BY <1>f, <1>5, <1>6, <1>7, <1>8, <1>9 DEF CtxInv

\* A connection comes: the program is told of it in the loop.
LEMMA AcceptStep ==
  ASSUME CtxInv, Accept
  PROVE  CtxInv'
  <1>1. stack = <<>> /\ notifying = 0 /\ BaseType /\ ConnsInv /\ SeenInv /\ IdleInv
    BY InTheLoop DEF CtxInv, Accept, InLoop
  <1>2. /\ made < MaxMade /\ made' = made + 1 /\ conns' = conns \union {made'} /\ type = "server"
        /\ conncount' = conncount + 1 /\ type' = type /\ idle' = idle /\ freed' = freed
        /\ notifying' = notifying + 1 /\ stack' = Call(stack, "cb", made')
        /\ seen' = [seen EXCEPT ![made'] = Append(@, "connected")]
    BY DEF Accept, NotifyEvent, Notify
  <1>3. addr' = addr /\ stopping' = stopping /\ fd' = fd /\ timer' = timer /\ destroyed' = destroyed
        /\ failed' = failed
    BY DEF Accept
  <1>4. addr
    BY DEF Accept, CtxInv, StoppedIsQuiet
  <1>5. made \in Nat /\ made' \in 1 .. made' /\ made' \in 0 .. MaxMade /\ made' \notin freed /\ made' \notin conns
    BY SMT, <1>1, <1>2, SetupAssumption DEF BaseType
  <1>6. SeenInv' /\ seen' \in [Made -> Seq({"connected", "disconnected"})]
    BY <1>1, <1>2, TellConnected
  <1>7. FlagsType'
    BY <1>3 DEF FlagsType, CtxInv
  <1>8. BaseType'
    <2>1. conns \subseteq 1 .. made /\ freed \subseteq 1 .. made
      BY <1>1 DEF BaseType
    <2>2. \A c \in 1 .. made : c \in 1 .. made'
      BY SMT, <1>2, <1>5
    <2>3. conns' \subseteq 1 .. made' /\ freed' \subseteq 1 .. made'
      BY <1>2, <1>5, <2>1, <2>2
    <2>. QED  BY SMT, <1>1, <1>2, <1>5, <1>6, <2>3 DEF BaseType
  <1>9. ConnsInv'
    BY <1>1, <1>2, <1>5, ConnsFinite DEF ConnsInv
  <1>10. IdleInv' /\ StoppedIsQuiet'
    BY <1>1, <1>2, <1>3, <1>4 DEF IdleInv, StoppedIsQuiet
  <1>11. StackInv'
    <2>. PICK c : c = made'
      OBVIOUS
    <2>1. stack' = Stack("cb", c)
      BY <1>1, <1>2, CallIs
    <2>2. During("cb", c)'
      BY SMT, <1>1, <1>2, <1>3, <1>4, <1>5 DEF During, Conning, Closing, Stopping, Calling
    <2>3. "cb" \in Kinds /\ c \in 1 .. made' \union {NoConn}
      BY <1>5 DEF Kinds, Calling
    <2>. QED  BY <2>1, <2>2, <2>3, StackTo
  <1>. QED  BY <1>6, <1>7, <1>8, <1>9, <1>10, <1>11 DEF CtxInv

LEMMA CompleteStep ==
  ASSUME CtxInv, Complete
  PROVE  CtxInv'
  <1>1. stack = <<>> /\ notifying = 0 /\ BaseType /\ ConnsInv /\ SeenInv /\ IdleInv
    BY InTheLoop DEF CtxInv, Complete, InLoop
  <1>2. fd /\ type = "client" /\ conns = {} /\ ~timer /\ addr
    BY <1>1 DEF Complete, ConnsInv, CtxInv, StoppedIsQuiet
  <1>3. /\ made < MaxMade /\ made' = made + 1 /\ conns' = {made'}
        /\ conncount' = conncount /\ type' = type /\ idle' = idle /\ freed' = freed
        /\ notifying' = notifying + 1 /\ stack' = Call(stack, "cb", made')
        /\ seen' = [seen EXCEPT ![made'] = Append(@, "connected")]
    BY DEF Complete, NotifyEvent, Notify
  <1>4. addr' = addr /\ stopping' = stopping /\ fd' = FALSE /\ timer' = timer /\ destroyed' = destroyed
        /\ failed' = failed
    BY DEF Complete
  <1>5. made \in Nat /\ made' \in 1 .. made' /\ made' \in 0 .. MaxMade /\ made' \notin freed
    BY SMT, <1>1, <1>3, SetupAssumption DEF BaseType
  <1>6. SeenInv' /\ seen' \in [Made -> Seq({"connected", "disconnected"})]
    <2>1. conns' = conns \union {made'}
      BY <1>2, <1>3
    <2>. QED  BY <1>1, <1>2, <1>3, <2>1, TellConnected
  <1>7. FlagsType'
    BY <1>4 DEF FlagsType, CtxInv
  <1>8. BaseType'
    <2>1. freed \subseteq 1 .. made
      BY <1>1 DEF BaseType
    <2>2. \A c \in 1 .. made : c \in 1 .. made'
      BY SMT, <1>3, <1>5
    <2>3. conns' \subseteq 1 .. made' /\ freed' \subseteq 1 .. made'
      BY <1>3, <1>5, <2>1, <2>2
    <2>. QED  BY <1>1, <1>3, <1>5, <1>6, <2>3 DEF BaseType
  <1>9. ConnsInv'
    BY <1>2, <1>3, <1>4, <1>5 DEF ConnsInv
  <1>10. IdleInv' /\ StoppedIsQuiet'
    BY <1>1, <1>2, <1>3, <1>4 DEF IdleInv, StoppedIsQuiet
  <1>11. StackInv'
    <2>. PICK c : c = made'
      OBVIOUS
    <2>1. stack' = Stack("cb", c)
      BY <1>1, <1>3, CallIs
    <2>2. During("cb", c)'
      BY SMT, <1>1, <1>2, <1>3, <1>4, <1>5 DEF During, Conning, Closing, Stopping, Calling
    <2>3. "cb" \in Kinds /\ c \in 1 .. made' \union {NoConn}
      BY <1>5 DEF Kinds, Calling
    <2>. QED  BY <2>1, <2>2, <2>3, StackTo
  <1>. QED  BY <1>6, <1>7, <1>8, <1>9, <1>10, <1>11 DEF CtxInv

LEMMA CompleteFailsStep ==
  ASSUME CtxInv, CompleteFails
  PROVE  CtxInv'
  <1>1. stack = <<>> /\ notifying = 0 /\ BaseType /\ ConnsInv /\ SeenInv /\ IdleInv
    BY InTheLoop DEF CtxInv, CompleteFails, InLoop
  <1>2. fd /\ type = "client" /\ conns = {} /\ addr
    BY <1>1 DEF CompleteFails, ConnsInv, CtxInv, StoppedIsQuiet
  <1>3. /\ made' = made /\ conns' = conns /\ conncount' = conncount /\ type' = type
        /\ idle' = idle /\ freed' = freed /\ notifying' = notifying /\ stack' = stack /\ seen' = seen
    BY DEF CompleteFails
  <1>4. addr' = addr /\ stopping' = stopping /\ fd' = FALSE /\ timer' = TRUE /\ destroyed' = destroyed
        /\ failed' = failed
    BY DEF CompleteFails
  <1>5. FlagsType'
    BY <1>4 DEF FlagsType, CtxInv
  <1>6. BaseType' /\ SeenInv'
    BY <1>1, <1>3 DEF BaseType, SeenInv, EventsPaired
  <1>7. ConnsInv' /\ IdleInv' /\ StoppedIsQuiet'
    BY <1>1, <1>2, <1>3, <1>4 DEF ConnsInv, IdleInv, StoppedIsQuiet
  <1>8. StackInv'
    BY <1>1, <1>3, StayInLoop
  <1>. QED  BY <1>5, <1>6, <1>7, <1>8 DEF CtxInv

\* A call that changes no more than the stack.
LEMMA StackOnly ==
  ASSUME CtxInv, StackInv',
         UNCHANGED <<type, addr, stopping, fd, conns, conncount, timer, idle, made, seen, freed,
                     destroyed, failed>>
  PROVE  CtxInv'
  <1>1. FlagsType'
    BY DEF FlagsType, CtxInv
  <1>2. BaseType' /\ SeenInv'
    BY DEF CtxInv, BaseType, SeenInv, EventsPaired
  <1>3. ConnsInv' /\ IdleInv' /\ StoppedIsQuiet'
    BY DEF CtxInv, ConnsInv, IdleInv, StoppedIsQuiet
  <1>. QED  BY <1>1, <1>2, <1>3 DEF CtxInv

\* pomp_conn_cb is called.
LEMMA ConnCbStep ==
  ASSUME CtxInv, NEW c \in conns, ConnCb(c)
  PROVE  CtxInv'
  <1>1. stack = <<>> /\ notifying = 0
    BY InTheLoop DEF ConnCb, InLoop
  <1>2. c \in 1 .. made /\ c \notin freed /\ addr
    BY DEF CtxInv, BaseType, ConnsInv, StoppedIsQuiet
  <1>3. /\ stack' = Stack("conn", c)
        /\ UNCHANGED <<type, addr, stopping, fd, conns, conncount, timer, idle, made, seen, freed,
                       destroyed, failed, notifying>>
    BY <1>1, CallIs DEF ConnCb
  <1>4. During("conn", c)'
    BY <1>1, <1>2, <1>3 DEF During, Conning, Closing, Stopping, Calling
  <1>5. StackInv'
    BY <1>2, <1>3, <1>4, StackTo DEF Kinds, Conning
  <1>. QED  BY <1>3, <1>5, StackOnly

\* The program is called, for a message or for a send that ends with the connection.
LEMMA NotifyStep ==
  ASSUME CtxInv, ConnMsg \/ CloseNotify
  PROVE  CtxInv'
  <1>1. PICK k \in Kinds, c \in 1 .. made \union {NoConn} : stack = Stack(k, c) /\ During(k, c)
    BY DEF CtxInv, StackInv
  <1>2. k \in {"conn", "close", "stopclose"} /\ Top.c = c
    BY <1>1, AtIs DEF ConnMsg, CloseNotify
  <1>3. /\ stack' = Call(stack, "cb", Top.c) /\ notifying' = notifying + 1
        /\ UNCHANGED <<type, addr, stopping, fd, conns, conncount, timer, idle, made, seen, freed,
                       destroyed, failed>>
    BY DEF ConnMsg, CloseNotify, Notify
  <1>4. PICK m \in {"conncb", "closecb", "stopclosecb"} :
           /\ stack' = Stack(m, c)
           /\ k = "conn" <=> m = "conncb"
           /\ k = "stopclose" <=> m = "stopclosecb"
    <2>1. /\ k = "conn" => stack' = Stack("conncb", c)
          /\ k = "close" => stack' = Stack("closecb", c)
          /\ k = "stopclose" => stack' = Stack("stopclosecb", c)
      BY <1>1, <1>2, <1>3, CallIs
    <2>. QED  BY <1>2, <2>1
  <1>5. During(m, c)'
    BY SMT, <1>1, <1>2, <1>3, <1>4 DEF During, Conning, Closing, Stopping, Calling
  <1>6. StackInv'
    BY <1>3, <1>4, <1>5, StackTo DEF Kinds, Calling
  <1>. QED  BY <1>3, <1>6, StackOnly

\* A callback returns, or pomp_conn_cb does.
LEMMA ReturnStep ==
  ASSUME CtxInv, CallbackReturn \/ ConnEnd
  PROVE  CtxInv'
  <1>1. PICK k \in Kinds, c \in 1 .. made \union {NoConn} : stack = Stack(k, c) /\ During(k, c)
    BY DEF CtxInv, StackInv
  <1>2. k \in Calling \union {"conn"} /\ notifying' = 0
    BY SMT, <1>1, AtIs DEF CallbackReturn, ConnEnd, During, Calling
  <1>3. /\ stack' = Rest
        /\ UNCHANGED <<type, addr, stopping, fd, conns, conncount, timer, idle, made, seen, freed,
                       destroyed, failed>>
    BY DEF CallbackReturn, ConnEnd
  <1>4. stack' = Stack(Under(k), c) /\ Under(k) \in Kinds
    BY <1>1, <1>2, <1>3, AtIs DEF Calling
  <1>5. During(Under(k), c)'
    BY <1>1, <1>2, <1>3 DEF Under, During, Conning, Closing, Stopping, Calling
  <1>6. StackInv'
    BY <1>3, <1>4, <1>5, StackTo
  <1>. QED  BY <1>3, <1>6, StackOnly

\* A connection is removed, by pomp_conn_cb or by a stop.
LEMMA RemoveStep ==
  ASSUME CtxInv, notifying = 0, addr, NEW below, NEW c \in conns,
         below = <<>> \/ (below = Stack("stop", c) /\ stopping /\ idle = 0),
         RemoveConn(below, c),
         UNCHANGED <<type, addr, stopping, fd, idle, made, freed, destroyed, failed>>
  PROVE  CtxInv'
  <1>1. BaseType /\ ConnsInv /\ SeenInv /\ IdleInv
    BY DEF CtxInv
  <1>2. c \in 1 .. made /\ c \notin freed
    BY <1>1 DEF BaseType, ConnsInv
  <1>3. /\ conns' = conns \ {c} /\ timer' = timer
        /\ conncount' = IF type = "server" THEN conncount - 1 ELSE conncount
    BY DEF RemoveConn
  <1>4. /\ type = "dgram" => stack' = Call(below, "close", c) /\ notifying' = 0 /\ seen' = seen
        /\ type # "dgram" => /\ stack' = Call(Call(below, "close", c), "cb", c)
                             /\ notifying' = 1
                             /\ seen' = [seen EXCEPT ![c] = Append(@, "disconnected")]
    BY SMT DEF RemoveConn, NotifyEvent, Notify
  <1>5. SeenInv' /\ seen' \in [Made -> Seq({"connected", "disconnected"})]
    <2>1. CASE type = "dgram"
      BY SMT, <1>1, <1>4, <2>1, TellNothing DEF BaseType
    <2>2. CASE type # "dgram"
      BY <1>1, <1>3, <1>4, <2>2, TellDisconnected
    <2>. QED  BY <2>1, <2>2
  <1>6. FlagsType'
    BY <1>3 DEF FlagsType, CtxInv
  <1>7. conncount' \in Nat /\ (type = "server" => conncount' = Cardinality(conns'))
    <2>1. type = "server" => conncount = Cardinality(conns)
      BY <1>1 DEF ConnsInv
    <2>2. Cardinality(conns) \in Nat \ {0} /\ Cardinality(conns \ {c}) = Cardinality(conns) - 1
      BY <1>1, ConnsFinite
    <2>. QED  BY SMT, <1>1, <1>3, <2>1, <2>2 DEF BaseType
  <1>8. BaseType'
    BY <1>1, <1>3, <1>5, <1>7 DEF BaseType
  <1>9. ConnsInv'
    BY <1>1, <1>3, <1>7 DEF ConnsInv
  <1>10. IdleInv' /\ StoppedIsQuiet'
    BY <1>1 DEF IdleInv, StoppedIsQuiet
  <1>11. type = "client" => conns' = {} /\ ~fd
    BY <1>1, <1>3 DEF ConnsInv
  <1>12. PICK m \in Closing : /\ stack' = Stack(m, c)
                              /\ m \in Stopping => below = Stack("stop", c) /\ stopping /\ idle = 0
                              /\ m \in Calling <=> type # "dgram"
    <2>1. CASE below = <<>>
      <3>1. Call(below, "close", c) = Stack("close", c)
            /\ Call(Call(below, "close", c), "cb", c) = Stack("closecb", c)
        BY <2>1, CallIs
      <3>. QED  BY <1>4, <3>1 DEF Closing, Stopping, Calling
    <2>2. CASE below = Stack("stop", c) /\ stopping /\ idle = 0
      <3>1. Call(below, "close", c) = Stack("stopclose", c)
            /\ Call(Call(below, "close", c), "cb", c) = Stack("stopclosecb", c)
        BY <2>2, CallIs
      <3>. QED  BY <1>4, <2>2, <3>1 DEF Closing, Stopping, Calling
    <2>. QED  BY <2>1, <2>2
  <1>13. During(m, c)'
    BY <1>2, <1>3, <1>4, <1>11, <1>12 DEF During, Conning, Closing
  <1>14. StackInv'
    BY <1>2, <1>12, <1>13, StackTo DEF Kinds
  <1>. QED  BY <1>5, <1>6, <1>8, <1>9, <1>10, <1>14 DEF CtxInv

LEMMA ConnRemoveStep ==
  ASSUME CtxInv, ConnRemove
  PROVE  CtxInv'
  <1>1. PICK k \in Kinds, c \in 1 .. made \union {NoConn} : stack = Stack(k, c) /\ During(k, c)
    BY DEF CtxInv, StackInv
  <1>2. k = "conn" /\ Top.c = c /\ Rest = <<>>
    BY <1>1, AtIs, StackIs DEF ConnRemove, Under
  <1>3. notifying = 0 /\ addr /\ c \in conns
    BY <1>1, <1>2 DEF During, Conning, Calling
  <1>4. /\ RemoveConn(Rest, c)
        /\ UNCHANGED <<type, addr, stopping, fd, idle, made, freed, destroyed, failed>>
    BY <1>2 DEF ConnRemove
  <1>. QED  BY <1>2, <1>3, <1>4, RemoveStep

LEMMA StopNextStep ==
  ASSUME CtxInv, StopNext
  PROVE  CtxInv'
  <1>1. PICK k \in Kinds, d \in 1 .. made \union {NoConn} : stack = Stack(k, d) /\ During(k, d)
    BY DEF CtxInv, StackInv
  <1>2. k = "stop"
    BY <1>1, AtIs DEF StopNext
  <1>3. notifying = 0 /\ addr /\ stopping /\ idle = 0
    BY <1>1, <1>2 DEF During, Stopping, Calling
  <1>4. PICK c \in conns : RemoveConn(stack, c)
    BY DEF StopNext
  <1>5. stack = Stack("stop", c)
    BY <1>1, <1>2, StackIs
  <1>6. UNCHANGED <<type, addr, stopping, fd, idle, made, freed, destroyed, failed>>
    BY DEF StopNext
  <1>. QED  BY <1>3, <1>4, <1>5, <1>6, RemoveStep

\* A connection is freed.
LEMMA CloseEndStep ==
  ASSUME CtxInv, CloseEnd
  PROVE  CtxInv'
  <1>1. PICK k \in Kinds, c \in 1 .. made \union {NoConn} : stack = Stack(k, c) /\ During(k, c)
    BY DEF CtxInv, StackInv
  <1>2. k \in {"close", "stopclose"} /\ Top.c = c /\ Rest = Stack(Under(k), c)
    BY <1>1, AtIs DEF CloseEnd
  <1>3. /\ c \in 1 .. made /\ c \notin conns /\ addr /\ notifying = 0
        /\ type = "client" => conns = {} /\ ~fd
        /\ k = "stopclose" => stopping /\ idle = 0
    BY <1>1, <1>2 DEF During, Closing, Stopping, Calling
  <1>4. freed' = freed \union {c} /\ stack' = Stack(Under(k), c)
    BY <1>2 DEF CloseEnd
  <1>5. timer' = (timer \/ (type = "client" /\ ~stopping /\ addr))
    BY DEF CloseEnd, Reconnect
  <1>6. UNCHANGED <<type, addr, stopping, notifying, fd, conns, conncount, idle, made, seen,
                    destroyed, failed>>
    BY DEF CloseEnd
  <1>7. FlagsType'
    BY <1>5, <1>6 DEF FlagsType, CtxInv
  <1>8. BaseType' /\ SeenInv'
    BY <1>3, <1>4, <1>6 DEF CtxInv, BaseType, SeenInv, EventsPaired
  <1>9. ConnsInv'
    <2>1. timer' => timer \/ type = "client"
      BY <1>5
    <2>2. conns' \intersect freed' = {}
      BY <1>3, <1>4, <1>6 DEF CtxInv, ConnsInv
    <2>. QED  BY <1>3, <1>6, <2>1, <2>2 DEF CtxInv, ConnsInv
  <1>10. IdleInv' /\ StoppedIsQuiet'
    BY <1>3, <1>6 DEF CtxInv, IdleInv, StoppedIsQuiet
  <1>11. Under(k) \in {"none", "stop"} /\ (Under(k) = "stop" => k = "stopclose")
    BY <1>2 DEF Under
  <1>12. During(Under(k), c)'
    BY <1>3, <1>6, <1>11 DEF During, Conning, Closing, Stopping, Calling
  <1>13. StackInv'
    BY <1>4, <1>6, <1>11, <1>12, StackTo DEF Kinds, Stopping
  <1>. QED  BY <1>7, <1>8, <1>9, <1>10, <1>13 DEF CtxInv

\* A stop is asked for: in a callback it is deferred.
LEMMA StopStep ==
  ASSUME CtxInv, Stop
  PROVE  CtxInv'
  <1>1. PICK k \in Kinds, c \in 1 .. made \union {NoConn} : stack = Stack(k, c) /\ During(k, c)
    BY DEF CtxInv, StackInv
  <1>2. k \in {"none"} \union Calling /\ addr /\ ~stopping /\ idle = 0 /\ k \notin Stopping
    <2>1. idle \in {0, 1} /\ (idle = 1 => stopping)
      BY DEF CtxInv, IdleInv
    <2>. QED  BY <1>1, <2>1, AtIs DEF Stop, AtHome, InLoop, During
  <1>3. stopping' = TRUE /\ UNCHANGED <<addr, fd, timer, destroyed, failed>>
    BY DEF Stop
  <1>4. UNCHANGED <<type, conns, conncount, made, seen, freed, notifying>>
    BY DEF Stop
  <1>5. FlagsType'
    BY <1>3 DEF FlagsType, CtxInv
  <1>6. SeenInv' /\ ConnsInv' /\ StoppedIsQuiet'
    BY <1>2, <1>3, <1>4 DEF CtxInv, SeenInv, EventsPaired, ConnsInv, StoppedIsQuiet
  <1>7. CASE notifying > 0
    <2>1. idle' = 1 /\ stack' = stack
      BY SMT, <1>2, <1>7 DEF Stop
    <2>2. During(k, c)'
      BY <1>1, <1>2, <1>3, <1>4 DEF During
    <2>3. StackInv'
      BY <1>1, <1>4, <2>1, <2>2, StackTo
    <2>4. BaseType' /\ IdleInv'
      BY <1>3, <1>4, <2>1 DEF CtxInv, BaseType, IdleInv
    <2>. QED  BY <1>5, <1>6, <2>3, <2>4 DEF CtxInv
  <1>8. CASE ~(notifying > 0)
    <2>1. k = "none" /\ notifying = 0
      BY SMT, <1>1, <1>2, <1>8 DEF During
    <2>2. stack' = Stack("stop", c) /\ idle' = idle
      BY <1>1, <1>8, <2>1, AtIs, CallIs DEF Stop
    <2>3. During("stop", c)'
      BY <1>2, <1>3, <1>4, <2>1, <2>2 DEF During, Conning, Closing, Stopping, Calling
    <2>4. StackInv'
      BY <1>4, <2>2, <2>3, StackTo DEF Kinds, Stopping
    <2>5. BaseType' /\ IdleInv'
      BY <1>2, <1>3, <1>4, <2>2 DEF CtxInv, BaseType, IdleInv
    <2>. QED  BY <1>5, <1>6, <2>4, <2>5 DEF CtxInv
  <1>. QED  BY <1>7, <1>8

\* A deferred stop begins in the loop.
LEMMA IdleRunStep ==
  ASSUME CtxInv, IdleRun
  PROVE  CtxInv'
  <1>1. stack = <<>> /\ notifying = 0
    BY InTheLoop DEF IdleRun, InLoop
  <1>2. idle = 1 /\ stopping /\ addr
    BY SMT DEF IdleRun, IdleCall, CtxInv, IdleInv, StoppedIsQuiet
  <1>3. /\ idle' = 0 /\ stack' = Stack("stop", NoConn)
        /\ UNCHANGED <<type, addr, stopping, notifying, fd, conns, conncount, timer, made, seen,
                       freed, destroyed, failed>>
    BY SMT, <1>1, <1>2, CallIs DEF IdleRun, IdleCall
  <1>4. FlagsType'
    BY <1>3 DEF FlagsType, CtxInv
  <1>5. BaseType' /\ SeenInv' /\ ConnsInv'
    BY <1>3 DEF CtxInv, BaseType, SeenInv, EventsPaired, ConnsInv
  <1>6. IdleInv' /\ StoppedIsQuiet'
    BY <1>2, <1>3 DEF IdleInv, StoppedIsQuiet
  <1>7. During("stop", NoConn)'
    BY <1>1, <1>2, <1>3 DEF During, Conning, Closing, Stopping, Calling
  <1>8. StackInv'
    BY <1>3, <1>7, StackTo DEF Kinds, Stopping
  <1>. QED  BY <1>4, <1>5, <1>6, <1>8 DEF CtxInv

LEMMA StopEndStep ==
  ASSUME CtxInv, StopEnd
  PROVE  CtxInv'
  <1>1. PICK k \in Kinds, c \in 1 .. made \union {NoConn} : stack = Stack(k, c) /\ During(k, c)
    BY DEF CtxInv, StackInv
  <1>2. k = "stop" /\ Rest = <<>> /\ conns = {}
    BY <1>1, AtIs, StackIs DEF StopEnd, Under
  <1>3. notifying = 0 /\ idle = 0
    BY <1>1, <1>2 DEF During, Stopping, Calling
  <1>4. /\ fd' = FALSE /\ timer' = FALSE /\ addr' = FALSE /\ stopping' = FALSE
        /\ destroyed' = destroyed /\ failed' = failed
    BY DEF StopEnd
  <1>5. stack' = <<>> /\ UNCHANGED <<type, notifying, conns, conncount, idle, made, seen, freed>>
    BY <1>2 DEF StopEnd
  <1>6. FlagsType'
    BY <1>4 DEF FlagsType, CtxInv
  <1>7. BaseType' /\ SeenInv' /\ ConnsInv'
    BY <1>2, <1>4, <1>5 DEF CtxInv, BaseType, SeenInv, EventsPaired, ConnsInv
  <1>8. IdleInv' /\ StoppedIsQuiet'
    BY SMT, <1>2, <1>3, <1>4, <1>5 DEF IdleInv, StoppedIsQuiet
  <1>9. StackInv'
    BY <1>3, <1>5, StayInLoop
  <1>. QED  BY <1>6, <1>7, <1>8, <1>9 DEF CtxInv

LEMMA DestroyStep ==
  ASSUME CtxInv, Destroy \/ UNCHANGED vars
  PROVE  CtxInv'
  <1>1. /\ destroyed' \in BOOLEAN
        /\ UNCHANGED <<type, addr, stopping, notifying, fd, conns, conncount, timer, idle, stack, made,
                       seen, freed, failed>>
    BY DEF Destroy, vars, CtxInv, FlagsType
  <1>2. FlagsType'
    BY <1>1 DEF FlagsType, CtxInv
  <1>3. BaseType' /\ SeenInv' /\ ConnsInv'
    BY <1>1 DEF CtxInv, BaseType, SeenInv, EventsPaired, ConnsInv
  <1>4. IdleInv' /\ StoppedIsQuiet'
    BY <1>1 DEF CtxInv, IdleInv, StoppedIsQuiet
  <1>5. StackInv'
    <2>1. PICK k \in Kinds, c \in 1 .. made \union {NoConn} : stack = Stack(k, c) /\ During(k, c)
      BY DEF CtxInv, StackInv
    <2>2. During(k, c)'
      BY <1>1, <2>1 DEF During
    <2>. QED  BY <1>1, <2>1, <2>2, StackTo
  <1>. QED  BY <1>2, <1>3, <1>4, <1>5 DEF CtxInv

(***************************************************************************)
(* The invariants                                                           *)
(***************************************************************************)
\* The invariant holds in every reachable state.
LEMMA Invariance == Spec => []CtxInv
  <1>1. Init => CtxInv
    <2>. SUFFICES ASSUME Init PROVE CtxInv
      OBVIOUS
    <2>1. FlagsType
      BY DEF Init, FlagsType
    <2>2. BaseType
      BY SMT, SetupAssumption, Histories DEF Init, BaseType
    <2>3. SeenInv /\ ConnsInv /\ IdleInv /\ StoppedIsQuiet
      BY SMT, Histories, FS_EmptySet DEF Init, SeenInv, EventsPaired, ConnsInv, IdleInv, StoppedIsQuiet
    <2>4. StackInv
      <3>1. stack = Stack("none", NoConn) /\ During("none", NoConn)
        BY StackIs DEF Init, During, Conning, Closing, Stopping, Calling
      <3>. QED  BY <3>1 DEF StackInv, Kinds
    <2>. QED  BY <2>1, <2>2, <2>3, <2>4 DEF CtxInv
  <1>2. CtxInv /\ [Next]_vars => CtxInv'
    BY StartStep, TimerStep, AcceptStep, CompleteStep, CompleteFailsStep, ConnCbStep, NotifyStep,
       ReturnStep, ConnRemoveStep, CloseEndStep, StopStep, IdleRunStep, StopNextStep, StopEndStep,
       DestroyStep DEF Next
  <1>. QED  BY <1>1, <1>2, PTL DEF Spec

\* The frames of the stacks.
LEMMA FramesAre ==
  ASSUME NEW k \in Kinds, NEW c
  PROVE  /\ Stack(k, c) \in Seq({Fr("stop", NoConn)} \union {Fr(f, c) : f \in {"cb", "conn", "close"}})
         /\ Len(Stack(k, c)) <= 3
         /\ k \in Calling => Len(Stack(k, c)) >= 1
         /\ \A i \in 1 .. Len(Stack(k, c)) :
               /\ Stack(k, c)[i].f = "cb" <=> k \in Calling /\ i = Len(Stack(k, c))
               /\ Stack(k, c)[i].f = "conn" => k \in Conning
               /\ \/ k \notin {"none", "stop"} /\ Stack(k, c)[i].c = c
                  \/ Stack(k, c)[i].c = NoConn
  <1>. DEFINE S == {Fr("stop", NoConn)} \union {Fr(f, c) : f \in {"cb", "conn", "close"}}
              s == Stack(k, c)
              a == Fr("stop", NoConn)
              b == Fr("close", c)
              d == Fr("cb", c)
              e == Fr("conn", c)
  <1>1. a \in S /\ b \in S /\ d \in S /\ e \in S
    OBVIOUS
  <1>2. a.f = "stop" /\ b.f = "close" /\ d.f = "cb" /\ e.f = "conn" /\ a.c = NoConn /\ b.c = c /\ d.c = c /\ e.c = c
    BY DEF Fr
  <1>. HIDE DEF S, a, b, d, e
  <1>3. CASE k = "none"
    <2>1. s = <<>>
      BY <1>3, StackIs
    <2>2. Len(s) = 0 /\ s \in Seq(S)
      BY <2>1, EmptySeq
    <2>. QED  BY SMT, <1>3, <2>2 DEF Calling, S
  <1>4. CASE k \in {"cb", "conn", "close", "stop"}
    <2>1. s = IF k = "cb" THEN <<d>> ELSE IF k = "conn" THEN <<e>> ELSE IF k = "close" THEN <<b>> ELSE <<a>>
      BY <1>4, StackIs DEF a, b, d, e
    <2>2. s \in Seq(S) /\ Len(s) = 1
          /\ s[1] = IF k = "cb" THEN d ELSE IF k = "conn" THEN e ELSE IF k = "close" THEN b ELSE a
      BY SMT, <1>1, <1>4, <2>1, TupleIs
    <2>3. \A i \in 1 .. Len(s) : i = 1
      BY SMT, <2>2
    <2>. QED  BY SMT, <1>2, <1>4, <2>2, <2>3 DEF Calling, Conning, S
  <1>5. CASE k \in {"conncb", "closecb", "stopclose"}
    <2>1. s = IF k = "conncb" THEN <<e, d>> ELSE IF k = "closecb" THEN <<b, d>> ELSE <<a, b>>
      BY <1>5, StackIs DEF a, b, d, e
    <2>2. /\ s \in Seq(S) /\ Len(s) = 2
          /\ s[1] = IF k = "conncb" THEN e ELSE IF k = "closecb" THEN b ELSE a
          /\ s[2] = IF k = "stopclose" THEN b ELSE d
      BY SMT, <1>1, <1>5, <2>1, TupleIs
    <2>3. \A i \in 1 .. Len(s) : i = 1 \/ i = 2
      BY SMT, <2>2
    <2>. QED  BY SMT, <1>2, <1>5, <2>2, <2>3 DEF Calling, Conning, S
  <1>6. CASE k = "stopclosecb"
    <2>1. s = <<a, b, d>>
      BY <1>6, StackIs DEF a, b, d
    <2>2. s \in Seq(S) /\ Len(s) = 3 /\ s[1] = a /\ s[2] = b /\ s[3] = d
      BY SMT, <1>1, <2>1, TupleIs
    <2>3. \A i \in 1 .. Len(s) : i = 1 \/ i = 2 \/ i = 3
      BY SMT, <2>2
    <2>4. /\ s[1].f = "stop" /\ s[2].f = "close" /\ s[3].f = "cb"
          /\ s[1].c = NoConn /\ s[2].c = c /\ s[3].c = c
      BY <1>2, <2>2
    <2>5. k \in Calling /\ k \notin {"none", "stop"}
      BY <1>6 DEF Calling
    <2>. HIDE DEF s
    <2>6. \A i \in 1 .. Len(s) : /\ s[i].f = "cb" <=> k \in Calling /\ i = Len(s)
                                 /\ s[i].f = "conn" => k \in Conning
                                 /\ (k \notin {"none", "stop"} /\ s[i].c = c) \/ s[i].c = NoConn
      BY <2>2, <2>3, <2>4, <2>5
    <2>. QED  BY SMT, <2>2, <2>6 DEF s, S
  <1>. QED  BY <1>3, <1>4, <1>5, <1>6, KindsAre

\* The variables of a context keep their types, and notifying counts the callbacks in progress
\* (pomp_ctx_notify_event, pomp_ctx_notify_msg and pomp_ctx_notify_send raise and lower it).
THEOREM CtxType == Spec => []TypeOK
  <1>1. CtxInv => TypeOK
    <2>. SUFFICES ASSUME CtxInv PROVE TypeOK
      OBVIOUS
    <2>1. PICK k \in Kinds, c \in 1 .. made \union {NoConn} : stack = Stack(k, c) /\ During(k, c)
      BY DEF CtxInv, StackInv
    <2>. DEFINE S == {Fr("stop", NoConn)} \union {Fr(f, c) : f \in {"cb", "conn", "close"}}
                C == {i \in 1 .. Len(stack) : stack[i].f = "cb"}
    <2>2. stack \in Seq(Frame)
      <3>1. c \in Made \union {NoConn}
        BY SMT, SetupAssumption DEF CtxInv, BaseType, Made
      <3>2. S \subseteq Frame
        BY SMT, <3>1 DEF Fr, Frame
      <3>3. stack \in Seq(S)
        BY <2>1, FramesAre
      <3>. HIDE DEF S
      <3>. QED  BY <3>2, <3>3, SeqMonotonic
    <2>3. /\ \A i \in 1 .. Len(stack) : stack[i].f = "cb" <=> k \in Calling /\ i = Len(stack)
          /\ k \in Calling => Len(stack) >= 1
      BY ZenonT(30), <2>1, FramesAre
    <2>4. C = IF k \in Calling THEN {Len(stack)} ELSE {}
      <3>1. Len(stack) \in Nat
        BY SMT, <2>2
      <3>. QED  BY SMT, <2>3, <3>1
    <2>5. notifying = Cardinality(C)
      <3>1. notifying = IF k \in Calling THEN 1 ELSE 0
        BY <2>1 DEF During
      <3>. HIDE DEF C
      <3>. QED  BY <2>4, <3>1, FS_EmptySet, FS_Singleton
    <2>. QED  BY <2>2, <2>5 DEF CtxInv, FlagsType, BaseType, TypeOK
  <1>. QED  BY <1>1, Invariance, PTL

\* The program is told of every connection of a server or a client that enters the list, once, and
\* of its end, once, as it leaves it (pomp_ctx_notify_event).
THEOREM EventsArePaired == Spec => []EventsPaired
  <1>1. CtxInv => EventsPaired
    BY DEF CtxInv, SeenInv
  <1>. QED  BY <1>1, Invariance, PTL

\* pomp_conn_destroy frees no connection that a function in progress still uses.
THEOREM UsedConnectionsStay == Spec => []InUseNotFreed
  <1>1. CtxInv => InUseNotFreed
    <2>. SUFFICES ASSUME CtxInv PROVE InUseNotFreed
      OBVIOUS
    <2>1. PICK k \in Kinds, c \in 1 .. made \union {NoConn} : stack = Stack(k, c) /\ During(k, c)
      BY DEF CtxInv, StackInv
    <2>2. NoConn \notin freed
      BY SMT DEF CtxInv, BaseType, NoConn
    <2>3. \A i \in 1 .. Len(stack) : /\ stack[i].f = "conn" => k \in Conning
                                     /\ (k \notin {"none", "stop"} /\ stack[i].c = c) \/ stack[i].c = NoConn
      BY <2>1, FramesAre
    <2>4. \A i \in 1 .. Len(stack) : stack[i].f = "conn" => stack[i].c = c /\ c \in conns
      <3>1. k \in Conning => stack = <<Fr("conn", c)>> \/ stack = <<Fr("conn", c), Fr("cb", c)>>
        BY <2>1, StackIs DEF Conning
      <3>2. k \in Conning => \A i \in 1 .. Len(stack) : stack[i].c = c
        <4>1. Fr("conn", c).c = c /\ Fr("cb", c).c = c
          BY DEF Fr
        <4>. HIDE DEF Fr
        <4>. QED  BY SMT, <3>1, <4>1
      <3>. QED  BY <2>1, <2>3, <3>2 DEF During
    <2>. QED  BY <2>1, <2>2, <2>3, <2>4 DEF During, InUseNotFreed
  <1>. QED  BY <1>1, Invariance, PTL

\* A context without an address, which pomp_ctx_destroy accepts, has nothing left that calls it.
THEOREM StoppedContextsAreQuiet == Spec => []StoppedIsQuiet
  <1>1. CtxInv => StoppedIsQuiet
    BY DEF CtxInv
  <1>. QED  BY <1>1, Invariance, PTL

\* No connection is freed of which the program has been told the beginning and not the end, and
\* u.server.conncount, which server_accept_conn compares with max_conn_count, is the length of the
\* list.
FreedAndCounted ==
    /\ \A c \in freed : seen[c] # <<"connected">>
    /\ type = "server" => conncount = Cardinality(conns)

\* The connections freed and the count of a server, for any number of connections.
THEOREM ConnectionsAreCounted == Spec => []FreedAndCounted
  <1>1. CtxInv => FreedAndCounted
    <2>. SUFFICES ASSUME CtxInv PROVE FreedAndCounted
      OBVIOUS
    <2>1. \A c \in freed : c \in Made /\ c \notin conns
      BY SMT, SetupAssumption DEF CtxInv, BaseType, ConnsInv, Made
    <2>. QED  BY <2>1 DEF CtxInv, SeenInv, EventsPaired, ConnsInv, FreedAndCounted
  <1>. QED  BY <1>1, Invariance, PTL

=============================================================================
