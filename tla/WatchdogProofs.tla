--------------------------- MODULE WatchdogProofs ---------------------------
(***************************************************************************)
(* Proofs about Watchdog for all delays, clocks and numbers of batches.     *)
(***************************************************************************)
EXTENDS Watchdog, TLAPS

\* The thread exists from its creation to its join, and the settings are those of a
\* watchdog that is started.
LifeInv ==
    /\ started => cb /\ delay > 0 /\ call # "start"
    /\ ~started => delay = 0
    /\ thread # "none" => started \/ call = "start"
    /\ call \in {"disable", "clear"} => started /\ should_stop
    /\ should_stop => call \in {"disable", "clear"}
    /\ call = "clear" => place = "home"

\* A batch that was reported is no longer monitored.
FiredInv ==
    /\ block.fired <= 1
    /\ monitoring => block.fired = 0 \/ thread = "notify"
    /\ thread = "notify" => monitoring

\* A thread that waited with a deadline knows the one of the batch whose number it has.
SeenInv ==
    thread \in {"timedwait", "timedout"} =>
        /\ seen.counter <= counter
        /\ monitoring /\ seen.counter = counter => seen.timeout = next_timeout

\* What is monitored is the batch in progress, with the delay it was given.
BlockInv ==
    ~DisableInside =>
        /\ monitoring => /\ started /\ place = "block"
                         /\ block.delay > 0 /\ next_timeout = block.at + block.delay
        /\ thread = "notify" => now >= next_timeout
        /\ call = "disable" => place = "home"

IInv == TypeOK /\ LifeInv /\ FiredInv /\ SeenInv /\ BlockInv /\ WaitIsCurrent

\* The invariant holds of a loop whose watchdog was never enabled.
LEMMA Initial == Init => IInv
  <1>. SUFFICES ASSUME Init PROVE IInv
    OBVIOUS
  <1>1. TypeOK
    <2>1. /\ seen \in [counter : 0 .. MaxBlocks, timeout : Nat]
          /\ block \in [at : 0 .. MaxTime, delay : Delays \cup {0}, fired : Nat]
      BY SetupAssumption DEF Init
    <2>2. /\ now \in 0 .. MaxTime /\ counter \in 0 .. MaxBlocks /\ starts \in 0 .. MaxStarts
          /\ next_timeout \in Nat /\ delay \in Delays \cup {0}
      BY SetupAssumption DEF Init
    <2>. QED  BY Zenon, <2>1, <2>2 DEF Init, TypeOK
  <1>2. LifeInv /\ FiredInv /\ SeenInv /\ BlockInv /\ WaitIsCurrent
    BY DEF Init, LifeInv, FiredInv, SeenInv, BlockInv, WaitIsCurrent
  <1>. QED  BY <1>1, <1>2 DEF IInv

\* pomp_watchdog_start and pomp_watchdog_stop keep the invariant.
LEMMA SettingsStep ==
  ASSUME IInv,
         \/ Start \/ \E d \in Delays : Update(d) \/ StartEnd(d)
         \/ Disable \/ Clear \/ Joined
  PROVE  IInv'
  <1>. USE DelaysAssumption, SetupAssumption DEF IInv
  <1>1. CASE Start
    BY <1>1 DEF Start, AtHome, fields, TypeOK, LifeInv, FiredInv, SeenInv, BlockInv,
                WaitIsCurrent
  <1>2. ASSUME NEW d \in Delays, Update(d) PROVE IInv'
    BY <1>2 DEF Update, AtHome, Free, TypeOK, LifeInv, FiredInv, SeenInv, BlockInv,
                WaitIsCurrent
  <1>3. ASSUME NEW d \in Delays, StartEnd(d) PROVE IInv'
    BY <1>3 DEF StartEnd, TypeOK, LifeInv, FiredInv, SeenInv, BlockInv, WaitIsCurrent
  <1>4. CASE Disable
    BY <1>4 DEF Disable, Stop, Signal, AtHome, Free, TypeOK, LifeInv, FiredInv, SeenInv,
                BlockInv, WaitIsCurrent
  <1>5. CASE Clear
    BY <1>5 DEF Clear, Stop, Signal, AtHome, Free, TypeOK, LifeInv, FiredInv, SeenInv,
                BlockInv, WaitIsCurrent
  <1>6. CASE Joined
    <2>1. CASE call = "clear"
      <3>1. TypeOK'
        <4>1. /\ counter' = 0 /\ monitoring' = FALSE /\ next_timeout' = 0
              /\ place' = "gone" /\ call' = "none" /\ delay' = 0
              /\ started' = FALSE /\ should_stop' = FALSE /\ cb' = FALSE
              /\ UNCHANGED <<now, thread, seen, block, starts>>
          BY <1>6, <2>1 DEF Joined
        <4>2. counter' \in 0 .. MaxBlocks /\ next_timeout' \in Nat
          BY <4>1
        <4>. QED  BY Zenon, <4>1, <4>2 DEF TypeOK
      <3>2. LifeInv' /\ FiredInv' /\ SeenInv' /\ BlockInv' /\ WaitIsCurrent'
        BY <1>6, <2>1 DEF Joined, LifeInv, FiredInv, SeenInv, BlockInv, WaitIsCurrent
      <3>. QED  BY <3>1, <3>2
    <2>2. CASE call = "disable"
      <3>1. TypeOK' /\ LifeInv' /\ FiredInv'
        BY Zenon, <1>6, <2>2 DEF Joined, TypeOK, LifeInv, FiredInv
      <3>2. SeenInv' /\ WaitIsCurrent'
        BY <1>6, <2>2 DEF Joined, SeenInv, WaitIsCurrent
      <3>3. BlockInv'
        BY <1>6, <2>2 DEF Joined, BlockInv, LifeInv
      <3>. QED  BY <3>1, <3>2, <3>3
    <2>. QED  BY <1>6, <2>1, <2>2 DEF Joined
  <1>. QED  BY <1>1, <1>2, <1>3, <1>4, <1>5, <1>6

\* pomp_watchdog_enter and pomp_watchdog_leave keep the invariant.
LEMMA BlockStep ==
  ASSUME IInv, Enter \/ Leave
  PROVE  IInv'
  <1>. USE DelaysAssumption, SetupAssumption DEF IInv, AtHome, Free, Signal, get_absolute_timeout
  <1>1. CASE Enter
    <2>1. TypeOK'
      <3>1. counter' \in 0 .. MaxBlocks /\ next_timeout' \in Nat
        BY <1>1 DEF Enter, TypeOK
      <3>2. block' \in [at : 0 .. MaxTime, delay : Delays \cup {0}, fired : Nat]
        BY <1>1 DEF Enter, TypeOK
      <3>3. monitoring' \in BOOLEAN /\ place' = "block"
        BY Zenon, <1>1 DEF Enter, TypeOK
      <3>4. thread' \in {"none", "head", "wait", "timedwait", "timedout", "notify"}
        BY <1>1 DEF Enter, TypeOK
      <3>. QED  BY <1>1, <3>1, <3>2, <3>3, <3>4 DEF Enter, TypeOK
    <2>2. LifeInv' /\ FiredInv' /\ WaitIsCurrent'
      BY <1>1 DEF Enter, TypeOK, LifeInv, FiredInv, WaitIsCurrent
    <2>3. SeenInv'
      BY <1>1 DEF Enter, TypeOK, LifeInv, SeenInv
    <2>4. BlockInv'
      BY <1>1 DEF Enter, TypeOK, LifeInv, FiredInv, BlockInv
    <2>. QED  BY <2>1, <2>2, <2>3, <2>4
  <1>2. CASE Leave
    <2>1. TypeOK'
      <3>1. CASE started
        <4>1. thread' \in {"none", "head", "wait", "timedwait", "timedout", "notify"}
          BY <1>2, <3>1 DEF Leave, TypeOK
        <4>2. monitoring' = FALSE /\ next_timeout' = 0 /\ place' = "home"
          BY <1>2, <3>1 DEF Leave
        <4>. QED  BY Zenon, <1>2, <4>1, <4>2 DEF Leave, TypeOK
      <3>2. CASE ~started
        BY <1>2, <3>2 DEF Leave, TypeOK
      <3>. QED  BY <3>1, <3>2
    <2>2. LifeInv' /\ FiredInv' /\ WaitIsCurrent'
      BY <1>2 DEF Leave, TypeOK, LifeInv, FiredInv, WaitIsCurrent
    <2>3. SeenInv' /\ BlockInv'
      BY <1>2 DEF Leave, TypeOK, LifeInv, SeenInv, BlockInv
    <2>. QED  BY <2>1, <2>2, <2>3
  <1>. QED  BY <1>1, <1>2

\* The watchdog's thread, and time, keep the invariant.
LEMMA ThreadKeeps ==
  ASSUME IInv, ThreadStep \/ SpuriousWakeup \/ Tick
  PROVE  IInv'
  <1>. USE DelaysAssumption, SetupAssumption DEF IInv, fields, check_timeout
  <1>1. CASE ThreadHead
    BY <1>1 DEF ThreadHead, TypeOK, LifeInv, FiredInv, SeenInv, BlockInv, WaitIsCurrent
  <1>2. CASE ThreadTimeout
    BY <1>2 DEF ThreadTimeout, TypeOK, LifeInv, FiredInv, SeenInv, BlockInv, WaitIsCurrent
  <1>3. CASE ThreadCheck
    BY <1>3 DEF ThreadCheck, TypeOK, LifeInv, FiredInv, SeenInv, BlockInv, WaitIsCurrent
  <1>4. CASE ThreadNotified
    BY Zenon, <1>4 DEF ThreadNotified, TypeOK, LifeInv, FiredInv, SeenInv, BlockInv, WaitIsCurrent
  <1>5. CASE SpuriousWakeup
    BY <1>5 DEF SpuriousWakeup, TypeOK, LifeInv, FiredInv, SeenInv, BlockInv, WaitIsCurrent
  <1>6. CASE Tick
    BY <1>6 DEF Tick, TypeOK, LifeInv, FiredInv, SeenInv, BlockInv, WaitIsCurrent
  <1>. QED  BY <1>1, <1>2, <1>3, <1>4, <1>5, <1>6 DEF ThreadStep

\* Every step keeps the invariant.
LEMMA Inductive == IInv /\ [Next]_vars => IInv'
  <1>. SUFFICES ASSUME IInv, [Next]_vars PROVE IInv'
    OBVIOUS
  <1>1. CASE UNCHANGED vars
    BY <1>1 DEF vars, fields, IInv, TypeOK, LifeInv, FiredInv, SeenInv, BlockInv,
                WaitIsCurrent
  <1>. QED  BY <1>1, SettingsStep, BlockStep, ThreadKeeps DEF Next

-----------------------------------------------------------------------------
\* The inductive invariant holds in every execution.
THEOREM Invariance == Spec => []IInv
  BY Initial, Inductive, PTL DEF Spec

\* The variables keep their types.
THEOREM TypeCorrect == Spec => []TypeOK
  <1>1. IInv => TypeOK
    BY DEF IInv
  <1>. QED  BY <1>1, Invariance, PTL

\* A batch is reported at most once, wherever the watchdog is disabled and enabled.
THEOREM ReportedOnce == Spec => []OncePerBlock
  <1>1. IInv => OncePerBlock
    BY DEF IInv, FiredInv, OncePerBlock
  <1>. QED  BY <1>1, Invariance, PTL

\* The thread always waits on the current state of the watchdog.
THEOREM NoStaleWait == Spec => []WaitIsCurrent
  <1>1. IInv => WaitIsCurrent
    BY DEF IInv
  <1>. QED  BY <1>1, Invariance, PTL

\* When no callback disables the watchdog, it reports nothing but a batch in progress
\* that took longer than its delay.
THEOREM NoFalseExpiry == ~DisableInside => (Spec => []ExpiryIsReal)
  <1>. SUFFICES ASSUME ~DisableInside PROVE Spec => []ExpiryIsReal
    OBVIOUS
  <1>1. IInv => ExpiryIsReal
    BY DEF IInv, FiredInv, BlockInv, ExpiryIsReal
  <1>. QED  BY <1>1, Invariance, PTL

\* When no callback disables the watchdog, its function is set when it is called.
THEOREM FunctionIsSet == ~DisableInside => (Spec => []FunctionSet)
  <1>. SUFFICES ASSUME ~DisableInside PROVE Spec => []FunctionSet
    OBVIOUS
  <1>1. IInv => FunctionSet
    BY DEF IInv, FiredInv, BlockInv, LifeInv, FunctionSet
  <1>. QED  BY <1>1, Invariance, PTL
=============================================================================
