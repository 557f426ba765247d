-------------------------- MODULE IdleQueueProofs --------------------------
(***************************************************************************)
(* Proofs about IdleQueue for every set of threads, keys and cookies and    *)
(* every number of entries.                                                 *)
(***************************************************************************)
EXTENDS IdleQueue, SequenceTheorems, TLAPS

\* A leaf that names no prover is for Zenon.
USE Zenon

\* Only the innermost call of a thread is not inside a callback, and pomp_idle_evt_cb is
\* always the outermost call of the loop thread.
StackInv ==
    /\ \A t \in Threads : \A i \in 1 .. Len(calls[t]) :
          /\ i < Len(calls[t]) => calls[t][i].at = "running"
          /\ calls[t][i].op = "evt" =>
                i = 1 /\ t = Looper /\ evtcb = "busy" /\ calls[t][i].at # "scan"
    /\ evtcb \in {"ready", "cleared", "recheck"} => calls[Looper] = <<>>

\* The entries in the list have not been called, nor removed by anybody.
ListInv ==
    \A t \in Threads :
       /\ ran[t] \subseteq 1 .. added
       /\ dropped[t] \subseteq 1 .. added
       /\ ran[t] \cap entries = {}
       /\ dropped[t] \cap entries = {}

\* An entry taken off the list belongs to one call, which is about to call it.
FlightInv ==
    \A t \in Threads : InCall(t, "popped") =>
       /\ Top(t).entry \in (1 .. added) \ entries
       /\ NotCalled(Top(t).entry)
       /\ Top(t).entry \notin dropped[t]
       /\ \A u \in Threads : InCall(u, "popped") /\ Top(u).entry = Top(t).entry => u = t

\* With the same cookie, what a thread has called comes before what it is about to call,
\* and both come before what is in the list.
OrderInv ==
    \A t \in Threads :
       /\ \A f \in ran[t], e \in entries : cookie[e] = cookie[f] => f < e
       /\ InCall(t, "popped") =>
             /\ \A f \in ran[t] : cookie[f] = cookie[Top(t).entry] => f < Top(t).entry
             /\ \A e \in entries : cookie[e] = cookie[Top(t).entry] => Top(t).entry < e

IInv == TypeOK /\ StackInv /\ ListInv /\ FlightInv /\ OrderInv /\ NoLostIdle

-----------------------------------------------------------------------------
(***************************************************************************)
(* The stack of calls                                                       *)
(***************************************************************************)

\* A call that begins is the innermost one and leaves the others as they were.
LEMMA PushCall ==
  ASSUME calls \in [Threads -> Seq(Call)], NEW t \in Threads, NEW c \in Call, Push(t, c)
  PROVE  /\ calls' \in [Threads -> Seq(Call)]
         /\ \A u \in Threads \ {t} : calls'[u] = calls[u]
         /\ Len(calls'[t]) = Len(calls[t]) + 1
         /\ \A i \in 1 .. Len(calls[t]) : calls'[t][i] = calls[t][i]
         /\ calls'[t][Len(calls[t]) + 1] = c
  BY SMT DEF Push

\* A call that ends uncovers the one it was made from.
LEMMA PopCall ==
  ASSUME calls \in [Threads -> Seq(Call)], NEW t \in Threads, calls[t] # <<>>, Pop(t)
  PROVE  /\ calls' \in [Threads -> Seq(Call)]
         /\ \A u \in Threads \ {t} : calls'[u] = calls[u]
         /\ Len(calls'[t]) = Len(calls[t]) - 1
         /\ \A i \in 1 .. Len(calls[t]) - 1 : calls'[t][i] = calls[t][i]
  <1>. DEFINE s == calls[t]
              n == Len(s) - 1
  <1>1. s \in Seq(Call) /\ n \in Nat
    BY SMT, EmptySeq
  <1>2. \A i \in 1 .. n : s[i] \in Call
    BY SMT, <1>1
  <1>3. /\ SubSeq(s, 1, n) \in Seq(Call)
        /\ Len(SubSeq(s, 1, n)) = IF 1 <= n THEN n - 1 + 1 ELSE 0
        /\ \A i \in 1 .. n - 1 + 1 : SubSeq(s, 1, n)[i] = s[1 + i - 1]
    <2>. HIDE DEF s, n
    <2>. QED  BY SMT, <1>1, <1>2, SubSeqProperties
  <1>4. /\ Len(SubSeq(s, 1, n)) = n
        /\ \A i \in 1 .. n : SubSeq(s, 1, n)[i] = s[i]
    <2>. HIDE DEF s, n
    <2>. QED  BY SMT, <1>1, <1>3
  <1>5. calls' = [calls EXCEPT ![t] = SubSeq(s, 1, n)]
    BY DEF Pop
  <1>. QED  BY <1>3, <1>4, <1>5

\* A call that moves on stays the innermost one.
LEMMA BecomeCall ==
  ASSUME calls \in [Threads -> Seq(Call)], NEW t \in Threads, calls[t] # <<>>,
         NEW c \in Call, Become(t, c)
  PROVE  /\ calls' \in [Threads -> Seq(Call)]
         /\ \A u \in Threads \ {t} : calls'[u] = calls[u]
         /\ Len(calls'[t]) = Len(calls[t]) /\ Len(calls[t]) \in Nat \ {0}
         /\ \A i \in 1 .. Len(calls[t]) - 1 : calls'[t][i] = calls[t][i]
         /\ calls'[t][Len(calls[t])] = c
  <1>1. calls[t] \in Seq(Call) /\ Len(calls[t]) \in Nat \ {0}
    BY EmptySeq
  <1>. QED  BY SMT, <1>1 DEF Become

\* The innermost call is one of the calls in progress.
LEMMA TopCall ==
  ASSUME calls \in [Threads -> Seq(Call)], NEW t \in Threads, calls[t] # <<>>
  PROVE  Top(t) \in Call /\ Len(calls[t]) \in Nat \ {0}
  BY SMT, EmptySeq DEF Top

\* A step that moves the calls of one thread keeps the shape of the others' stacks.
LEMMA StackOnly ==
  ASSUME StackInv, NEW t \in Threads, \A u \in Threads \ {t} : calls'[u] = calls[u],
         t = Looper \/ evtcb' = evtcb,
         \A i \in 1 .. Len(calls'[t]) :
            /\ i < Len(calls'[t]) => calls'[t][i].at = "running"
            /\ calls'[t][i].op = "evt" =>
                 i = 1 /\ t = Looper /\ evtcb' = "busy" /\ calls'[t][i].at # "scan",
         t = Looper /\ evtcb' \in {"ready", "cleared", "recheck"} => calls'[t] = <<>>
  PROVE  StackInv'
  <1>1. ASSUME NEW u \in Threads, NEW i \in 1 .. Len(calls'[u])
        PROVE  /\ i < Len(calls'[u]) => calls'[u][i].at = "running"
               /\ calls'[u][i].op = "evt" =>
                    i = 1 /\ u = Looper /\ evtcb' = "busy" /\ calls'[u][i].at # "scan"
    <2>1. CASE u = t
      BY <2>1
    <2>2. CASE u # t
      <3>1. calls'[u] = calls[u] /\ (u = Looper => evtcb' = evtcb)
        BY <2>2
      <3>2. /\ i < Len(calls[u]) => calls[u][i].at = "running"
            /\ calls[u][i].op = "evt" =>
                 i = 1 /\ u = Looper /\ evtcb = "busy" /\ calls[u][i].at # "scan"
        BY <3>1 DEF StackInv
      <3>. QED  BY <3>1, <3>2
    <2>. QED  BY <2>1, <2>2
  <1>2. evtcb' \in {"ready", "cleared", "recheck"} => calls'[Looper] = <<>>
    BY ThreadsAssumption DEF StackInv
  <1>. QED  BY <1>1, <1>2 DEF StackInv

\* A call that moves on keeps the shape of the stack.
LEMMA MovesOn ==
  ASSUME IInv, NEW t \in Threads, calls[t] # <<>>, UNCHANGED evtcb,
         NEW c \in Call, c.op = Top(t).op, c.op = "evt" => c.at # "scan", Become(t, c)
  PROVE  /\ calls' \in [Threads -> Seq(Call)]
         /\ \A u \in Threads \ {t} : calls'[u] = calls[u]
         /\ calls'[t] # <<>> /\ Top(t)' = c
         /\ StackInv'
  <1>1. calls \in [Threads -> Seq(Call)] /\ StackInv
    BY DEF IInv, TypeOK
  <1>2. /\ calls' \in [Threads -> Seq(Call)]
        /\ \A u \in Threads \ {t} : calls'[u] = calls[u]
        /\ Len(calls'[t]) = Len(calls[t]) /\ Len(calls[t]) \in Nat \ {0}
        /\ \A i \in 1 .. Len(calls[t]) - 1 : calls'[t][i] = calls[t][i]
        /\ calls'[t][Len(calls[t])] = c
    BY <1>1, BecomeCall
  <1>3. t = Looper => evtcb \notin {"ready", "cleared", "recheck"}
    BY <1>1 DEF StackInv
  <1>4. \A i \in 1 .. Len(calls[t]) : calls'[t][i].op = calls[t][i].op
    BY SMT, <1>2 DEF Top
  <1>5. \A i \in 1 .. Len(calls'[t]) :
           /\ i < Len(calls'[t]) => calls'[t][i].at = "running"
           /\ calls'[t][i].op = "evt" =>
                i = 1 /\ t = Looper /\ evtcb' = "busy" /\ calls'[t][i].at # "scan"
    <2>. DEFINE n == Len(calls[t])
    <2>1. /\ \A i \in 1 .. n : i < n => calls[t][i].at = "running"
          /\ \A i \in 1 .. n : calls[t][i].op = "evt" =>
                i = 1 /\ t = Looper /\ evtcb = "busy" /\ calls[t][i].at # "scan"
      BY <1>1 DEF StackInv
    <2>2. Len(calls'[t]) = n /\ n \in Nat \ {0} /\ calls'[t][n] = c
      BY <1>2
    <2>3. \A i \in 1 .. n - 1 : calls'[t][i] = calls[t][i]
      BY <1>2
    <2>4. \A i \in 1 .. n : calls'[t][i].op = calls[t][i].op
      BY <1>4
    <2>. HIDE DEF n
    <2>5. \A i \in 1 .. n : i = n \/ (i < n /\ i \in 1 .. n - 1)
      BY SMT, <2>2
    <2>6. \A i \in 1 .. n : ~(n < n) /\ (i < n => i # n)
      BY SMT, <2>2
    <2>7. ASSUME NEW i \in 1 .. n
          PROVE  /\ i < n => calls'[t][i].at = "running"
                 /\ calls'[t][i].op = "evt" =>
                      i = 1 /\ t = Looper /\ evtcb' = "busy" /\ calls'[t][i].at # "scan"
      <3>1. CASE i = n
        BY <3>1, <2>1, <2>2, <2>4, <2>6
      <3>2. CASE i < n /\ i \in 1 .. n - 1
        BY <3>2, <2>1, <2>3
      <3>. QED  BY <3>1, <3>2, <2>5
    <2>. QED  BY <2>2, <2>7
  <1>6. StackInv'
    BY <1>1, <1>2, <1>3, <1>5, StackOnly
  <1>7. calls'[t] # <<>> /\ Top(t)' = c
    BY <1>2 DEF Top
  <1>. QED  BY <1>2, <1>6, <1>7

\* The call of pomp_idle_evt_cb is alone in its thread when it is the innermost one.
LEMMA TopIsEvt ==
  ASSUME IInv, NEW t \in Threads, calls[t] # <<>>, Top(t).op = "evt"
  PROVE  Len(calls[t]) = 1 /\ t = Looper /\ evtcb = "busy" /\ Top(t).at # "scan"
  <1>. DEFINE n == Len(calls[t])
  <1>1. n \in 1 .. n /\ Top(t) = calls[t][n]
    BY SMT, TopCall DEF IInv, TypeOK, Top
  <1>2. \A i \in 1 .. n : calls[t][i].op = "evt" =>
           i = 1 /\ t = Looper /\ evtcb = "busy" /\ calls[t][i].at # "scan"
    BY DEF IInv, StackInv
  <1>. HIDE DEF n
  <1>3. n = 1 /\ t = Looper /\ evtcb = "busy" /\ Top(t).at # "scan"
    BY <1>1, <1>2
  <1>. QED  BY <1>3 DEF n

\* A call that ends uncovers a callback, or leaves the thread outside of the loop.
LEMMA Ends ==
  ASSUME IInv, NEW t \in Threads, calls[t] # <<>>, Pop(t),
         \/ Top(t).op = "flush" /\ UNCHANGED evtcb
         \/ Top(t).op = "evt" /\ evtcb' = "recheck"
  PROVE  /\ calls' \in [Threads -> Seq(Call)]
         /\ \A u \in Threads \ {t} : calls'[u] = calls[u]
         /\ ~InCall(t, "popped")'
         /\ StackInv'
  <1>1. calls \in [Threads -> Seq(Call)] /\ StackInv
    BY DEF IInv, TypeOK
  <1>2. Len(calls[t]) \in Nat \ {0}
    BY <1>1, TopCall
  <1>3. /\ calls' \in [Threads -> Seq(Call)]
        /\ \A u \in Threads \ {t} : calls'[u] = calls[u]
        /\ Len(calls'[t]) = Len(calls[t]) - 1
        /\ \A i \in 1 .. Len(calls[t]) - 1 : calls'[t][i] = calls[t][i]
    BY <1>1, PopCall
  <1>4. \A i \in 1 .. Len(calls'[t]) : calls'[t][i].at = "running"
    BY SMT, <1>1, <1>2, <1>3 DEF StackInv
  <1>5. calls'[t] \in Seq(Call)
    BY <1>3
  <1>6. ~InCall(t, "popped")'
    BY SMT, <1>4, <1>5, EmptySeq DEF InCall, Top
  <1>7. CASE Top(t).op = "flush" /\ UNCHANGED evtcb
    <2>1. t = Looper => evtcb \notin {"ready", "cleared", "recheck"}
      BY <1>1 DEF StackInv
    <2>2. \A i \in 1 .. Len(calls'[t]) :
             /\ i < Len(calls'[t]) => calls'[t][i].at = "running"
             /\ calls'[t][i].op = "evt" =>
                  i = 1 /\ t = Looper /\ evtcb' = "busy" /\ calls'[t][i].at # "scan"
      <3>1. \A i \in 1 .. Len(calls[t]) : calls[t][i].op = "evt" =>
               i = 1 /\ t = Looper /\ evtcb = "busy" /\ calls[t][i].at # "scan"
        BY <1>1 DEF StackInv
      <3>2. \A i \in 1 .. Len(calls'[t]) :
               i \in 1 .. Len(calls[t]) /\ calls'[t][i] = calls[t][i]
        BY SMT, <1>2, <1>3
      <3>. QED  BY <3>1, <3>2, <1>4, <1>7
    <2>3. StackInv'
      BY <1>1, <1>3, <1>7, <2>1, <2>2, StackOnly
    <2>. QED  BY <1>3, <1>6, <2>3
  <1>8. CASE Top(t).op = "evt" /\ evtcb' = "recheck"
    <2>1. Len(calls[t]) = 1 /\ t = Looper
      BY <1>8, TopIsEvt
    <2>2. calls'[t] = <<>> /\ 1 .. Len(calls'[t]) = {}
      BY SMT, <1>3, <1>5, <2>1, EmptySeq
    <2>3. \A i \in 1 .. Len(calls'[t]) :
             /\ i < Len(calls'[t]) => calls'[t][i].at = "running"
             /\ calls'[t][i].op = "evt" =>
                  i = 1 /\ t = Looper /\ evtcb' = "busy" /\ calls'[t][i].at # "scan"
      BY <2>2
    <2>4. StackInv'
      BY <1>1, <1>3, <2>1, <2>2, <2>3, StackOnly
    <2>. QED  BY <1>3, <1>6, <2>4
  <1>. QED  BY <1>7, <1>8

\* A step that only moves the calls of one thread, and leaves it with no entry in hand,
\* keeps what is known of the list and of the entries in flight.
LEMMA CallsOnly ==
  ASSUME IInv, NEW t \in Threads, \A u \in Threads \ {t} : calls'[u] = calls[u],
         ~InCall(t, "popped")', UNCHANGED <<entries, cookie, added, ran, dropped>>
  PROVE  ListInv' /\ FlightInv' /\ OrderInv'
  <1>1. \A u \in Threads : InCall(u, "popped")' =>
           u # t /\ InCall(u, "popped") /\ Top(u)' = Top(u)
    BY DEF InCall, Top
  <1>2. ListInv'
    BY DEF IInv, ListInv
  <1>3. FlightInv'
    BY <1>1 DEF IInv, FlightInv, NotCalled
  <1>4. OrderInv'
    BY SMT, <1>1 DEF IInv, OrderInv
  <1>. QED  BY <1>2, <1>3, <1>4

\* So does a step that leaves the calls, the list and the history alone.
LEMMA NothingMoved ==
  ASSUME IInv, UNCHANGED <<entries, cookie, added, ran, dropped, calls>>
  PROVE  ListInv' /\ FlightInv' /\ OrderInv'
  BY DEF IInv, ListInv, FlightInv, OrderInv, InCall, Top, NotCalled

-----------------------------------------------------------------------------
(***************************************************************************)
(* Every step keeps the invariant                                           *)
(***************************************************************************)

\* The steps that only touch the event, the dispatch or the destruction.
LEMMA EventStep ==
  ASSUME IInv,
         \/ \E t \in Threads : AddSignal(t)
         \/ EvtReady \/ EvtClear \/ EvtEmpty \/ EvtRecheck \/ Destroy
  PROVE  IInv'
  <1>. USE DEF IInv, AddSignal, EvtReady, EvtClear, EvtEmpty, EvtRecheck, Destroy
  <1>1. TypeOK'
    BY DEF TypeOK
  <1>2. StackInv'
    BY SMT, ThreadsAssumption DEF StackInv, AtHome
  <1>3. ListInv' /\ FlightInv' /\ OrderInv'
    BY NothingMoved
  <1>4. NoLostIdle'
    BY DEF NoLostIdle, TypeOK
  <1>. QED  BY <1>1, <1>2, <1>3, <1>4

\* idle_add: the new entry comes after all the others.
LEMMA AddStep ==
  ASSUME IInv, NEW t \in Threads, NEW k \in Keys, NEW c \in Cookies \cup {NoCookie},
         Add(t, k, c)
  PROVE  IInv'
  <1>. USE DEF IInv, Add
  <1>1. /\ added' = added + 1 /\ added' \in Entries /\ added \in Nat
        /\ entries' = entries \cup {added + 1}
        /\ \A e \in 1 .. added : cookie'[e] = cookie[e]
        /\ UNCHANGED <<calls, ran, dropped>>
    BY SMT, EntriesAssumption DEF TypeOK, Entries
  <1>2. TypeOK'
    <2>1. key' \in [Entries -> Keys]
      BY <1>1 DEF TypeOK
    <2>2. cookie' \in [Entries -> Cookies \cup {NoCookie}]
      BY <1>1 DEF TypeOK
    <2>3. adding' \in [Threads -> BOOLEAN]
      BY DEF TypeOK
    <2>. QED  BY SMT, <1>1, <2>1, <2>2, <2>3 DEF TypeOK, Entries
  <1>3. StackInv'
    BY DEF StackInv
  <1>4. ListInv'
    BY SMT, <1>1 DEF ListInv, TypeOK
  <1>5. \A u \in Threads : InCall(u, "popped")' = InCall(u, "popped") /\ Top(u)' = Top(u)
    BY DEF InCall, Top
  <1>6. FlightInv'
    BY SMT, <1>1, <1>5 DEF FlightInv, NotCalled
  <1>7. OrderInv'
    BY SMT, <1>1, <1>5 DEF OrderInv, FlightInv, ListInv, TypeOK
  <1>8. NoLostIdle'
    BY DEF NoLostIdle, TypeOK
  <1>. QED  BY <1>2, <1>3, <1>4, <1>6, <1>7, <1>8

\* idle_remove and idle_remove_by_cookie: the caller has no entry in hand.
LEMMA DropStep ==
  ASSUME IInv, NEW t \in Threads, NEW match, match \subseteq 1 .. added, Drop(t, match)
  PROVE  IInv'
  <1>. USE DEF IInv, Drop
  <1>1. ~InCall(t, "popped")
    BY DEF AtHome, InCall
  <1>2. TypeOK'
    <2>1. match \subseteq Entries
      BY SMT, EntriesAssumption DEF TypeOK, Entries
    <2>2. dropped[t] \cup {e \in match : NotCalled(e)} \in SUBSET Entries
      BY <2>1 DEF TypeOK
    <2>3. dropped' \in [Threads -> SUBSET Entries]
      BY <2>2 DEF TypeOK
    <2>. QED  BY <2>3 DEF TypeOK
  <1>3. StackInv'
    BY DEF StackInv
  <1>4. ListInv'
    BY DEF ListInv, TypeOK
  <1>5. \A u \in Threads : InCall(u, "popped")' = InCall(u, "popped") /\ Top(u)' = Top(u)
    BY DEF InCall, Top
  <1>6. FlightInv'
    BY <1>1, <1>5 DEF FlightInv, NotCalled, TypeOK
  <1>7. OrderInv'
    BY <1>5 DEF OrderInv
  <1>8. NoLostIdle'
    BY DEF NoLostIdle, TypeOK
  <1>. QED  BY <1>2, <1>3, <1>4, <1>6, <1>7, <1>8

\* A flush begins, from the thread's own code.
LEMMA FlushStep ==
  ASSUME IInv, NEW t \in Threads, NEW c \in Cookies \cup {AllCookies}, Flush(t, c)
  PROVE  IInv'
  <1>. DEFINE new == [op |-> "flush", for |-> c, at |-> "scan", entry |-> NoEntry]
  <1>1. new \in Call /\ Push(t, new) /\ new.at = "scan" /\ new.op = "flush"
    BY DEF Flush, Call
  <1>. HIDE DEF new
  <1>2. calls \in [Threads -> Seq(Call)] /\ Len(calls[t]) \in Nat
    BY SMT DEF IInv, TypeOK
  <1>3. /\ calls' \in [Threads -> Seq(Call)]
        /\ \A u \in Threads \ {t} : calls'[u] = calls[u]
        /\ Len(calls'[t]) = Len(calls[t]) + 1
        /\ \A i \in 1 .. Len(calls[t]) : calls'[t][i] = calls[t][i]
        /\ calls'[t][Len(calls[t]) + 1] = new
    BY <1>1, <1>2, PushCall
  <1>4. TypeOK'
    BY <1>3 DEF IInv, TypeOK, Flush
  <1>5. \A i \in 1 .. Len(calls[t]) : calls[t][i].at = "running"
    BY SMT, <1>2 DEF IInv, StackInv, Flush, AtHome, InCall, Top
  <1>6. StackInv'
    <2>1. StackInv /\ UNCHANGED evtcb /\ (t = Looper => evtcb \in {"none", "busy"})
      BY DEF IInv, Flush, AtHome
    <2>2. \A i \in 1 .. Len(calls'[t]) :
             /\ i < Len(calls'[t]) => calls'[t][i].at = "running"
             /\ calls'[t][i].op = "evt" =>
                  i = 1 /\ t = Looper /\ evtcb' = "busy" /\ calls'[t][i].at # "scan"
      BY SMT, <1>1, <1>2, <1>3, <1>5, <2>1 DEF StackInv
    <2>. QED  BY <1>3, <2>1, <2>2, StackOnly
  <1>7. ~InCall(t, "popped")'
    BY <1>1, <1>2, <1>3 DEF InCall, Top
  <1>8. ListInv' /\ FlightInv' /\ OrderInv'
    BY <1>3, <1>7, CallsOnly DEF Flush
  <1>9. NoLostIdle'
    BY DEF IInv, NoLostIdle, Flush
  <1>. QED  BY <1>4, <1>6, <1>8, <1>9 DEF IInv

\* A call takes the first entry that matches: it is in flight, before the others with
\* the same cookie.
LEMMA Taken ==
  ASSUME IInv, NEW t \in Threads, NEW e \in entries,
         \A f \in entries : cookie[f] = cookie[e] => e <= f,
         entries' = entries \ {e}, UNCHANGED <<cookie, added, ran, dropped>>,
         \A u \in Threads \ {t} : calls'[u] = calls[u],
         InCall(t, "popped")', Top(t)'.entry = e
  PROVE  ListInv' /\ FlightInv' /\ OrderInv'
  <1>. USE DEF IInv
  <1>1. \A u \in Threads \ {t} : /\ InCall(u, "popped")' = InCall(u, "popped")
                                 /\ Top(u)' = Top(u)
    BY DEF InCall, Top
  <1>2. ListInv'
    BY DEF ListInv
  <1>3. e \in 1 .. added /\ e \in Int /\ entries \subseteq Int
    BY SMT DEF TypeOK
  <1>4. \A u \in Threads : e \notin ran[u] /\ e \notin dropped[u]
    BY DEF ListInv
  <1>5. FlightInv'
    <2>. SUFFICES ASSUME NEW u \in Threads, InCall(u, "popped")'
                  PROVE  /\ Top(u)'.entry \in (1 .. added') \ entries'
                         /\ NotCalled(Top(u).entry)'
                         /\ Top(u)'.entry \notin dropped'[u]
                         /\ \A v \in Threads : InCall(v, "popped")'
                              /\ Top(v)'.entry = Top(u)'.entry => v = u
      BY DEF FlightInv
    <2>1. CASE u = t
      BY <2>1, <1>1, <1>3, <1>4 DEF FlightInv, NotCalled
    <2>2. CASE u # t
      BY <2>2, <1>1, <1>3, <1>4 DEF FlightInv, NotCalled
    <2>. QED  BY <2>1, <2>2
  <1>6. OrderInv'
    <2>. SUFFICES ASSUME NEW u \in Threads
                  PROVE  /\ \A f \in ran'[u], g \in entries' : cookie'[g] = cookie'[f] => f < g
                         /\ InCall(u, "popped")' =>
                              /\ \A f \in ran'[u] : cookie'[f] = cookie'[Top(u)'.entry]
                                   => f < Top(u)'.entry
                              /\ \A g \in entries' : cookie'[g] = cookie'[Top(u)'.entry]
                                   => Top(u)'.entry < g
      BY DEF OrderInv
    <2>1. CASE u = t
      <3>1. /\ \A f \in ran'[u], g \in entries' : cookie'[g] = cookie'[f] => f < g
            /\ \A f \in ran'[u] : cookie'[f] = cookie'[e] => f < e
        BY <2>1 DEF OrderInv
      <3>2. \A g \in entries' : g \in Int /\ g # e /\ (cookie[g] = cookie[e] => e <= g)
        BY <1>3
      <3>3. \A g \in Int : e <= g /\ g # e => e < g
        BY SMT, <1>3
      <3>4. \A g \in entries' : cookie'[g] = cookie'[e] => e < g
        BY <3>2, <3>3
      <3>. QED  BY <2>1, <3>1, <3>4
    <2>2. CASE u # t
      BY SMT, <2>2, <1>1 DEF OrderInv
    <2>. QED  BY <2>1, <2>2
  <1>. QED  BY <1>2, <1>5, <1>6

\* A flush takes an entry.
LEMMA FlushPopStep ==
  ASSUME IInv, NEW t \in Threads, FlushPop(t)
  PROVE  IInv'
  <1>1. PICK e \in entries :
           /\ IsFirst(e, Matching(Top(t).for))
           /\ entries' = entries \ {e}
           /\ Become(t, [Top(t) EXCEPT !.at = "popped", !.entry = e])
    BY DEF FlushPop
  <1>2. calls \in [Threads -> Seq(Call)] /\ calls[t] # <<>> /\ e \in Entries
    BY SMT, EntriesAssumption DEF IInv, TypeOK, FlushPop, InCall, Entries
  <1>3. Top(t) \in Call /\ Len(calls[t]) \in Nat \ {0}
    BY <1>2, TopCall
  <1>. DEFINE new == [Top(t) EXCEPT !.at = "popped", !.entry = e]
  <1>4. new \in Call /\ new.at = "popped" /\ new.entry = e /\ new.op = Top(t).op
    BY <1>2, <1>3 DEF Call
  <1>5. Become(t, new)
    BY <1>1
  <1>. HIDE DEF new
  <1>6. /\ calls' \in [Threads -> Seq(Call)]
        /\ \A u \in Threads \ {t} : calls'[u] = calls[u]
        /\ calls'[t] # <<>> /\ Top(t)' = new
        /\ StackInv'
    BY <1>2, <1>4, <1>5, MovesOn DEF FlushPop
  <1>7. TypeOK'
    BY <1>1, <1>6 DEF IInv, TypeOK, FlushPop
  <1>8. InCall(t, "popped")' /\ Top(t)'.entry = e
    BY <1>4, <1>6 DEF InCall
  <1>9. \A f \in entries : cookie[f] = cookie[e] => e <= f
    BY <1>1 DEF IsFirst, Matching
  <1>10. ListInv' /\ FlightInv' /\ OrderInv'
    BY <1>1, <1>6, <1>8, <1>9, Taken DEF FlushPop
  <1>11. NoLostIdle'
    BY <1>1 DEF IInv, NoLostIdle, FlushPop
  <1>. QED  BY <1>6, <1>7, <1>10, <1>11 DEF IInv

\* A flush finds no entry and ends.
LEMMA FlushEndStep ==
  ASSUME IInv, NEW t \in Threads, FlushEnd(t)
  PROVE  IInv'
  <1>1. calls[t] # <<>> /\ Top(t).at = "scan" /\ Top(t) \in Call
    BY TopCall DEF FlushEnd, InCall, IInv, TypeOK
  <1>2. Top(t).op = "flush"
    BY <1>1, TopIsEvt DEF Call
  <1>3. /\ calls' \in [Threads -> Seq(Call)]
        /\ \A u \in Threads \ {t} : calls'[u] = calls[u]
        /\ ~InCall(t, "popped")'
        /\ StackInv'
    BY <1>1, <1>2, Ends DEF FlushEnd
  <1>4. TypeOK'
    BY <1>3 DEF IInv, TypeOK, FlushEnd
  <1>5. ListInv' /\ FlightInv' /\ OrderInv'
    BY <1>3, CallsOnly DEF FlushEnd
  <1>6. NoLostIdle'
    BY DEF IInv, NoLostIdle, FlushEnd, TypeOK
  <1>. QED  BY <1>3, <1>4, <1>5, <1>6 DEF IInv

\* pomp_idle_evt_cb takes the head of the list: the loop thread has no call in progress.
LEMMA EvtPopStep ==
  ASSUME IInv, EvtPop
  PROVE  IInv'
  <1>1. PICK e \in entries :
           /\ IsFirst(e, entries)
           /\ entries' = entries \ {e}
           /\ Push(Looper, [op |-> "evt", for |-> AllCookies, at |-> "popped",
                            entry |-> e])
    BY DEF EvtPop
  <1>. DEFINE new == [op |-> "evt", for |-> AllCookies, at |-> "popped", entry |-> e]
  <1>2. e \in Entries
    BY SMT, EntriesAssumption DEF IInv, TypeOK, Entries
  <1>3. new \in Call /\ new.at = "popped" /\ new.entry = e /\ Push(Looper, new)
    BY <1>1, <1>2 DEF Call
  <1>. HIDE DEF new
  <1>4. calls \in [Threads -> Seq(Call)] /\ calls[Looper] = <<>> /\ StackInv
    BY DEF IInv, TypeOK, StackInv, EvtPop
  <1>5. Looper \in Threads /\ Len(calls[Looper]) = 0
    BY <1>4, ThreadsAssumption
  <1>6. /\ calls' \in [Threads -> Seq(Call)]
        /\ \A u \in Threads \ {Looper} : calls'[u] = calls[u]
        /\ Len(calls'[Looper]) = 1
        /\ calls'[Looper][1] = new
    <2>1. /\ calls' \in [Threads -> Seq(Call)]
          /\ \A u \in Threads \ {Looper} : calls'[u] = calls[u]
          /\ Len(calls'[Looper]) = Len(calls[Looper]) + 1
          /\ calls'[Looper][Len(calls[Looper]) + 1] = new
      BY <1>3, <1>4, <1>5, PushCall
    <2>. QED  BY SMT, <1>5, <2>1
  <1>7. TypeOK'
    BY <1>1, <1>6 DEF IInv, TypeOK, EvtPop
  <1>8. evtcb' = "busy"
    BY DEF EvtPop
  <1>9. \A i \in 1 .. Len(calls'[Looper]) : i = 1 /\ calls'[Looper][i].at = "popped"
    BY SMT, <1>3, <1>6
  <1>10. StackInv'
    <2>1. \A i \in 1 .. Len(calls'[Looper]) :
             /\ i < Len(calls'[Looper]) => calls'[Looper][i].at = "running"
             /\ calls'[Looper][i].op = "evt" =>
                  /\ i = 1 /\ Looper = Looper /\ evtcb' = "busy"
                  /\ calls'[Looper][i].at # "scan"
      BY SMT, <1>6, <1>8, <1>9
    <2>. QED  BY <1>4, <1>5, <1>6, <1>8, <2>1, StackOnly
  <1>11. InCall(Looper, "popped")' /\ Top(Looper)'.entry = e
    BY SMT, <1>3, <1>6 DEF InCall, Top
  <1>12. \A f \in entries : cookie[f] = cookie[e] => e <= f
    BY <1>1 DEF IsFirst
  <1>13. ListInv' /\ FlightInv' /\ OrderInv'
    BY <1>1, <1>5, <1>6, <1>11, <1>12, Taken DEF EvtPop
  <1>14. NoLostIdle'
    BY DEF NoLostIdle, EvtPop
  <1>. QED  BY <1>7, <1>10, <1>13, <1>14 DEF IInv

\* The callback of an entry starts.
LEMMA CallbackStartStep ==
  ASSUME IInv, NEW t \in Threads, CallbackStart(t)
  PROVE  IInv'
  <1>. DEFINE new == [Top(t) EXCEPT !.at = "running"]
              e == Top(t).entry
  <1>1. calls[t] # <<>> /\ Top(t) \in Call /\ InCall(t, "popped")
    BY TopCall DEF CallbackStart, InCall, IInv, TypeOK
  <1>2. new \in Call /\ new.at = "running" /\ new.op = Top(t).op /\ Become(t, new)
    BY <1>1 DEF Call, CallbackStart
  <1>3. e \in (1 .. added) \ entries /\ e \in Entries
    BY SMT, <1>1, EntriesAssumption DEF IInv, FlightInv, TypeOK, Entries
  <1>4. ran' = [ran EXCEPT ![t] = @ \cup {e}] /\ UNCHANGED <<entries, cookie, added, dropped>>
    BY DEF CallbackStart
  <1>. HIDE DEF new
  <1>5. /\ calls' \in [Threads -> Seq(Call)]
        /\ \A u \in Threads \ {t} : calls'[u] = calls[u]
        /\ calls'[t] # <<>> /\ Top(t)' = new
        /\ StackInv'
    BY <1>1, <1>2, MovesOn DEF CallbackStart
  <1>6. \A u \in Threads : InCall(u, "popped")' =>
           u # t /\ InCall(u, "popped") /\ Top(u)' = Top(u)
    BY <1>2, <1>5 DEF InCall, Top
  <1>. HIDE DEF e
  <1>7. ran[t] \cup {e} \in SUBSET Entries
    BY <1>3 DEF IInv, TypeOK
  <1>8. ran' \in [Threads -> SUBSET Entries]
    BY <1>4, <1>7 DEF IInv, TypeOK
  <1>9. TypeOK'
    BY <1>5, <1>8 DEF IInv, TypeOK, CallbackStart
  <1>10. /\ \A u \in Threads \ {t} : ran'[u] = ran[u]
         /\ ran'[t] = ran[t] \cup {e}
    BY <1>4 DEF IInv, TypeOK
  <1>11. ListInv'
    BY <1>3, <1>4, <1>10 DEF IInv, ListInv
  <1>12. FlightInv'
    BY SMT, <1>1, <1>4, <1>6, <1>10 DEF IInv, FlightInv, NotCalled, e
  <1>13. /\ \A f \in ran[t] : cookie[f] = cookie[e] => f < e
         /\ \A g \in entries : cookie[g] = cookie[e] => e < g
    BY <1>1 DEF IInv, OrderInv, e
  <1>14. OrderInv'
    BY SMT, <1>4, <1>6, <1>10, <1>13 DEF IInv, OrderInv
  <1>15. NoLostIdle'
    BY DEF IInv, NoLostIdle, CallbackStart
  <1>. QED  BY <1>5, <1>9, <1>11, <1>12, <1>14, <1>15 DEF IInv

\* The callback of an entry returns to the flush or to pomp_idle_evt_cb.
LEMMA CallbackReturnStep ==
  ASSUME IInv, NEW t \in Threads, CallbackReturn(t)
  PROVE  IInv'
  <1>1. calls[t] # <<>> /\ Top(t) \in Call
    BY TopCall DEF CallbackReturn, IInv, TypeOK
  <1>2. /\ calls' \in [Threads -> Seq(Call)]
        /\ \A u \in Threads \ {t} : calls'[u] = calls[u]
        /\ ~InCall(t, "popped")'
        /\ StackInv'
        /\ evtcb' \in {evtcb, "recheck"}
    <2>1. CASE /\ Top(t).op = "flush" /\ UNCHANGED evtcb
               /\ Become(t, [Top(t) EXCEPT !.at = "scan", !.entry = NoEntry])
      <3>. DEFINE new == [Top(t) EXCEPT !.at = "scan", !.entry = NoEntry]
      <3>1. new \in Call /\ new.at = "scan" /\ new.op = "flush" /\ Become(t, new)
        BY <1>1, <2>1 DEF Call
      <3>. HIDE DEF new
      <3>2. /\ calls' \in [Threads -> Seq(Call)]
            /\ \A u \in Threads \ {t} : calls'[u] = calls[u]
            /\ calls'[t] # <<>> /\ Top(t)' = new
            /\ StackInv'
        BY <1>1, <2>1, <3>1, MovesOn
      <3>. QED  BY <2>1, <3>1, <3>2 DEF InCall
    <2>2. CASE Top(t).op = "evt" /\ Pop(t) /\ evtcb' = "recheck"
      BY <1>1, <2>2, Ends
    <2>. QED  BY <2>1, <2>2 DEF CallbackReturn
  <1>3. TypeOK'
    BY <1>2 DEF IInv, TypeOK, CallbackReturn
  <1>4. ListInv' /\ FlightInv' /\ OrderInv'
    BY <1>2, CallsOnly DEF CallbackReturn
  <1>5. NoLostIdle'
    BY <1>2 DEF IInv, NoLostIdle, CallbackReturn
  <1>. QED  BY <1>2, <1>3, <1>4, <1>5 DEF IInv

\* The invariant holds of a new loop.
LEMMA Initial == Init => IInv
  <1>. SUFFICES ASSUME Init PROVE IInv
    OBVIOUS
  <1>1. (CHOOSE k \in Keys : TRUE) \in Keys
    BY EntriesAssumption
  <1>2. adding \in [Threads -> BOOLEAN]
    BY DEF Init
  <1>3. calls \in [Threads -> Seq(Call)] /\ \A t \in Threads : Len(calls[t]) = 0
    BY SMT DEF Init
  <1>4. TypeOK
    <2>1. key \in [Entries -> Keys]
      BY <1>1 DEF Init
    <2>2. cookie \in [Entries -> Cookies \cup {NoCookie}]
      BY DEF Init
    <2>3. ran \in [Threads -> SUBSET Entries] /\ dropped \in [Threads -> SUBSET Entries]
      BY DEF Init
    <2>4. added \in 0 .. MaxAdds /\ entries \subseteq 1 .. added
      BY SMT, EntriesAssumption DEF Init
    <2>. QED  BY <1>2, <1>3, <2>1, <2>2, <2>3, <2>4 DEF Init, TypeOK
  <1>5. StackInv
    BY SMT, <1>3, ThreadsAssumption DEF Init, StackInv
  <1>. QED  BY <1>4, <1>5 DEF Init, IInv, ListInv, FlightInv, OrderInv, NoLostIdle, InCall

\* Every step of every function keeps the invariant.
LEMMA Inductive == IInv /\ [Next]_vars => IInv'
  <1>. SUFFICES ASSUME IInv, [Next]_vars PROVE IInv'
    OBVIOUS
  <1>1. ASSUME NEW t \in Threads, ApiCall(t)
        PROVE  IInv'
    <2>1. ASSUME NEW k \in Keys, Remove(t, k) PROVE IInv'
      <3>. DEFINE match == {e \in 1 .. added : key[e] = k}
      <3>1. match \subseteq 1 .. added /\ Drop(t, match)
        BY <2>1 DEF Remove
      <3>. QED  BY <3>1, DropStep
    <2>2. ASSUME NEW c \in Cookies, RemoveByCookie(t, c) PROVE IInv'
      <3>. DEFINE match == {e \in 1 .. added : cookie[e] = c}
      <3>1. match \subseteq 1 .. added /\ Drop(t, match)
        BY <2>2 DEF RemoveByCookie
      <3>. QED  BY <3>1, DropStep
    <2>. QED  BY <1>1, <2>1, <2>2, AddStep, FlushStep DEF ApiCall
  <1>2. ASSUME NEW t \in Threads,
               AddSignal(t) \/ FlushPop(t) \/ FlushEnd(t) \/ CallbackStart(t) \/ CallbackReturn(t)
        PROVE  IInv'
    BY <1>2, EventStep, FlushPopStep, FlushEndStep, CallbackStartStep, CallbackReturnStep
  <1>3. CASE EvtReady \/ Dispatch \/ Destroy
    BY <1>3, EventStep, EvtPopStep DEF Dispatch
  <1>4. CASE UNCHANGED vars
    <2>1. UNCHANGED <<entries, key, cookie, added, evt, adding, evtcb, calls, destroying,
                      freed, ran, dropped>>
      BY <1>4 DEF vars
    <2>2. TypeOK'
      BY <2>1 DEF IInv, TypeOK
    <2>3. StackInv'
      BY <2>1 DEF IInv, StackInv
    <2>4. ListInv'
      BY <2>1 DEF IInv, ListInv
    <2>5. FlightInv'
      BY <2>1 DEF IInv, FlightInv, InCall, Top, NotCalled
    <2>6. OrderInv'
      BY <2>1 DEF IInv, OrderInv, InCall, Top
    <2>7. NoLostIdle'
      BY <2>1 DEF IInv, NoLostIdle
    <2>. QED  BY <2>2, <2>3, <2>4, <2>5, <2>6, <2>7 DEF IInv
  <1>. QED  BY <1>1, <1>2, <1>3, <1>4 DEF Next

-----------------------------------------------------------------------------
(***************************************************************************)
(* The theorems                                                             *)
(***************************************************************************)

\* The inductive invariant holds in every execution.
THEOREM Invariance == Spec => []IInv
  BY Initial, Inductive, PTL DEF Spec

\* The variables keep their types.
THEOREM TypeCorrect == Spec => []TypeOK
  <1>1. IInv => TypeOK
    BY DEF IInv
  <1>. QED  BY <1>1, Invariance, PTL

\* Whatever the threads, the loop is not left asleep with idle entries in its list.
THEOREM IdleNotLost == Spec => []NoLostIdle
  <1>1. IInv => NoLostIdle
    BY DEF IInv
  <1>. QED  BY <1>1, Invariance, PTL

\* No callback is called twice, however many threads flush and however calls are nested.
THEOREM CalledOnce == Spec => []OnlyOnce
  <1>1. IInv => OnlyOnce
    BY DEF IInv, FlightInv, OnlyOnce
  <1>. QED  BY <1>1, Invariance, PTL

\* A thread never calls what it has removed.
THEOREM RemovedNotCalled == Spec => []RemoveIsFinal
  <1>1. IInv => RemoveIsFinal
    BY DEF IInv, FlightInv, RemoveIsFinal
  <1>. QED  BY <1>1, Invariance, PTL

\* A thread calls the entries of a cookie in the order of their registration.
THEOREM OrderedByCookie == Spec => CookieOrder
  <1>. DEFINE A == \A t \in Threads : \A e \in ran'[t] \ ran[t], f \in ran[t] :
                      cookie[e] = cookie[f] => f < e
  <1>1. ASSUME IInv, NEW u \in Threads, CallbackStart(u)
        PROVE  A
    <2>1. \A t \in Threads : ran'[t] \ ran[t] \subseteq IF t = u THEN {Top(u).entry} ELSE {}
      BY <1>1 DEF CallbackStart, IInv, TypeOK
    <2>2. \A f \in ran[u] : cookie[f] = cookie[Top(u).entry] => f < Top(u).entry
      BY <1>1 DEF CallbackStart, IInv, OrderInv
    <2>. QED  BY <2>1, <2>2
  <1>2. ASSUME IInv, [Next]_vars
        PROVE  [A]_vars
    <2>1. CASE UNCHANGED ran
      BY <2>1
    <2>2. CASE \E u \in Threads : CallbackStart(u)
      BY <1>1, <1>2, <2>2
    <2>. QED  BY <1>2, <2>1, <2>2 DEF Next, vars, ApiCall, Dispatch, Add, AddSignal, Remove,
                RemoveByCookie, Drop, Flush, FlushPop, FlushEnd, CallbackReturn, EvtReady,
                EvtClear, EvtPop, EvtEmpty, EvtRecheck, Destroy
  <1>. QED  BY <1>2, Invariance, PTL DEF Spec, CookieOrder
=============================================================================
