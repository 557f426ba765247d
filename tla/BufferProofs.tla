---------------------------- MODULE BufferProofs ----------------------------
(***************************************************************************)
(* Proofs about Buffer for all sets of buffers, messages, slots and         *)
(* descriptors: the reference counts are exact, every descriptor has one    *)
(* owner, and no holder sees its buffer change.                             *)
(***************************************************************************)
EXTENDS Buffer, FiniteSetTheorems, TLAPS

\* A leaf that names no prover is for Zenon.
USE Zenon

\* Where pomp_msg_init and pomp_msg_clear_partial are tells what the message holds. A message that
\* was found alone on its buffer stays alone: nobody else can share the buffer.
StepInv ==
    \A m \in Msgs :
        /\ step[m] \in {"unref", "clear"} => holds[m] # NULL
        /\ step[m] = "new" => holds[m] = NULL
        /\ step[m] = "clear" => refcount[holds[m]] = 1

\* The holders of a buffer are finitely many.
LEMMA HoldersOfFinite == ASSUME NEW b PROVE IsFiniteSet(HoldersOf(b))
  BY HoldersFinite, FS_Subset DEF HoldersOf

\* A buffer with no reference has no holder.
LEMMA FreeHasNoHolder ==
  ASSUME TypeOK, RefsMatch, NEW b \in Bufs, refcount[b] = 0
  PROVE  \A h \in Holders : holds[h] # b
  <1>1. HoldersOf(b) = {}
    BY HoldersOfFinite, FS_EmptySet DEF RefsMatch
  <1>. QED  BY <1>1 DEF HoldersOf

\* The holder of a buffer that is not shared is the only one.
LEMMA OnlyHolder ==
  ASSUME TypeOK, RefsMatch, NEW h \in Holders, holds[h] \in Bufs, refcount[holds[h]] <= 1
  PROVE  /\ refcount[holds[h]] = 1
         /\ \A g \in Holders : holds[g] = holds[h] => g = h
  <1>. DEFINE b == holds[h]
  <1>1. h \in HoldersOf(b) /\ IsFiniteSet(HoldersOf(b))
    BY HoldersOfFinite DEF HoldersOf
  <1>2. refcount[b] # 0
    BY <1>1, FS_EmptySet DEF RefsMatch
  <1>3. refcount[b] = 1
    BY SMT, <1>2 DEF TypeOK
  <1>4. PICK x : HoldersOf(b) = {x}
    BY <1>1, <1>3, FS_Singleton DEF RefsMatch
  <1>. QED  BY <1>1, <1>3, <1>4 DEF HoldersOf

\* A new reference: the count and the number of holders grow together.
LEMMA AddReference ==
  ASSUME TypeOK, RefsMatch, NEW h \in Holders, NEW b \in Bufs, holds[h] = NULL,
         holds' = [holds EXCEPT ![h] = b],
         refcount' = [refcount EXCEPT ![b] = @ + 1]
  PROVE  RefsMatch'
  <1>. SUFFICES ASSUME NEW c \in Bufs PROVE refcount'[c] = Cardinality(HoldersOf(c)')
    BY DEF RefsMatch
  <1>0. holds \in [Holders -> Bufs \union {NULL}] /\ refcount \in [Bufs -> Nat]
    BY DEF TypeOK
  <1>1. CASE c = b
    <2>1. HoldersOf(b)' = HoldersOf(b) \union {h} /\ h \notin HoldersOf(b)
      BY <1>0, NullIsNoBuf DEF HoldersOf
    <2>2. Cardinality(HoldersOf(b)') = Cardinality(HoldersOf(b)) + 1
      BY <2>1, HoldersOfFinite, FS_AddElement
    <2>. QED  BY <1>0, <1>1, <2>2 DEF RefsMatch
  <1>2. CASE c # b
    <2>1. HoldersOf(c)' = HoldersOf(c)
      BY <1>0, <1>2, NullIsNoBuf DEF HoldersOf
    <2>. QED  BY <1>0, <1>2, <2>1 DEF RefsMatch
  <1>. QED  BY <1>1, <1>2

\* A reference given back: the count and the number of holders shrink together.
LEMMA DropReference ==
  ASSUME TypeOK, RefsMatch, NEW h \in Holders, NEW b \in Bufs, holds[h] = b,
         holds' = [holds EXCEPT ![h] = NULL],
         refcount' = [refcount EXCEPT ![b] = @ - 1]
  PROVE  RefsMatch'
  <1>. SUFFICES ASSUME NEW c \in Bufs PROVE refcount'[c] = Cardinality(HoldersOf(c)')
    BY DEF RefsMatch
  <1>0. holds \in [Holders -> Bufs \union {NULL}] /\ refcount \in [Bufs -> Nat]
    BY DEF TypeOK
  <1>1. CASE c = b
    <2>1. HoldersOf(b)' = HoldersOf(b) \ {h} /\ h \in HoldersOf(b)
      BY <1>0, NullIsNoBuf DEF HoldersOf
    <2>2. Cardinality(HoldersOf(b)') = Cardinality(HoldersOf(b)) - 1
      BY <2>1, HoldersOfFinite, FS_RemoveElement
    <2>. QED  BY <1>0, <1>1, <2>2 DEF RefsMatch
  <1>2. CASE c # b
    <2>1. HoldersOf(c)' = HoldersOf(c)
      BY <1>0, <1>2, NullIsNoBuf DEF HoldersOf
    <2>. QED  BY <1>0, <1>2, <2>1 DEF RefsMatch
  <1>. QED  BY <1>1, <1>2

(***************************************************************************)
(* What the four ways to act on a buffer keep                               *)
(***************************************************************************)
\* FdsOwned with its first conjunct element by element
Owned ==
    /\ \A f : f \in open <=> \E b \in Bufs : \E r \in fds[b] : r.fd = f
    /\ \A b \in Bufs : refcount[b] = 0 => fds[b] = {}
    /\ \A b, c \in Bufs : \A r \in fds[b], q \in fds[c] : r.fd = q.fd => b = c /\ r = q

\* The two say the same.
LEMMA OwnedIff == FdsOwned <=> Owned
  <1>1. \A f : f \in UNION {FdsIn(fds[b]) : b \in Bufs} <=> \E b \in Bufs : \E r \in fds[b] : r.fd = f
    BY SMT DEF FdsIn
  <1>2. open = UNION {FdsIn(fds[b]) : b \in Bufs}
            <=> \A f : f \in open <=> \E b \in Bufs : \E r \in fds[b] : r.fd = f
    BY <1>1
  <1>. QED  BY <1>2 DEF FdsOwned, Owned

\* A new buffer with descriptors that nobody had keeps the three invariants.
LEMMA AllocKeeps ==
  ASSUME TypeOK, RefsMatch, Owned, HolderUndisturbed,
         NEW h \in Holders, NEW b \in Bufs, NEW cap, NEW content \in Contents,
         holds[h] = NULL, NewBuffer(h, b, cap, content),
         \A f : f \in open' <=> f \in open \/ \E r \in content.fds : r.fd = f,
         \A r \in content.fds : r.fd \notin open,
         \A r, q \in content.fds : r.fd = q.fd => r = q
  PROVE  RefsMatch' /\ Owned' /\ HolderUndisturbed'
  <1>0. /\ holds \in [Holders -> Bufs \union {NULL}] /\ refcount \in [Bufs -> Nat]
        /\ hdr \in [Bufs -> Headers] /\ args \in [Bufs -> Seq(Vals)]
        /\ fds \in [Bufs -> SUBSET FdRecords] /\ seen \in [Holders -> Contents]
        /\ refcount[b] = 0
    BY DEF TypeOK, NewBuffer, Free
  <1>1. \A g \in Holders : holds[g] # b
    BY <1>0, FreeHasNoHolder
  <1>2. RefsMatch'
    <2>1. refcount' = [refcount EXCEPT ![b] = @ + 1]
      BY SMT, <1>0 DEF NewBuffer
    <2>. QED  BY <2>1, AddReference DEF NewBuffer
  <1>3. Owned'
    <2>1. fds' = [fds EXCEPT ![b] = content.fds] /\ fds[b] = {} /\ refcount' = [refcount EXCEPT ![b] = 1]
      BY <1>0 DEF NewBuffer, Owned
    <2>2. /\ fds'[b] = content.fds /\ refcount'[b] = 1
          /\ \A c \in Bufs \ {b} : fds'[c] = fds[c] /\ refcount'[c] = refcount[c]
      BY <1>0, <2>1
    <2>3. \A f : f \in open' <=> \E c \in Bufs : \E r \in fds'[c] : r.fd = f
      BY SMT, <2>1, <2>2 DEF Owned
    <2>4. \A c \in Bufs : refcount'[c] = 0 => fds'[c] = {}
      BY SMT, <2>2 DEF Owned
    <2>5. ASSUME NEW c \in Bufs, NEW d \in Bufs, NEW r \in fds'[c], NEW q \in fds'[d], r.fd = q.fd
          PROVE  c = d /\ r = q
      <3>1. CASE c = b /\ d = b
        BY <2>2, <2>5, <3>1
      <3>2. CASE c = b /\ d # b
        BY SMT, <2>2, <2>5, <3>2 DEF Owned
      <3>3. CASE c # b /\ d = b
        BY SMT, <2>2, <2>5, <3>3 DEF Owned
      <3>4. CASE c # b /\ d # b
        BY SMT, <2>2, <2>5, <3>4 DEF Owned
      <3>. QED  BY <3>1, <3>2, <3>3, <3>4
    <2>. QED  BY <2>3, <2>4, <2>5 DEF Owned
  <1>4. HolderUndisturbed'
    <2>. SUFFICES ASSUME NEW g \in Holders, holds'[g] # NULL PROVE seen'[g] = Content(holds[g])'
      BY DEF HolderUndisturbed
    <2>1. CASE g = h
      <3>1. /\ holds'[h] = b /\ seen'[h] = content
            /\ hdr'[b] = content.hdr /\ args'[b] = content.args /\ fds'[b] = content.fds
        BY <1>0 DEF NewBuffer
      <3>2. content = [hdr |-> content.hdr, args |-> content.args, fds |-> content.fds]
        BY DEF Contents
      <3>. QED  BY <2>1, <3>1, <3>2 DEF Content
    <2>2. CASE g # h
      <3>1. /\ holds'[g] = holds[g] /\ seen'[g] = seen[g] /\ holds[g] \in Bufs \ {b}
        BY <1>0, <1>1, <2>2 DEF NewBuffer
      <3>2. /\ hdr'[holds[g]] = hdr[holds[g]] /\ args'[holds[g]] = args[holds[g]]
            /\ fds'[holds[g]] = fds[holds[g]]
        BY <1>0, <3>1 DEF NewBuffer
      <3>. QED  BY SMT, <3>1, <3>2, NullIsNoBuf DEF HolderUndisturbed, Content
    <2>. QED  BY <2>1, <2>2
  <1>. QED  BY <1>2, <1>3, <1>4

\* One more reference on a buffer in use keeps the three invariants.
LEMMA ShareKeeps ==
  ASSUME TypeOK, RefsMatch, Owned, HolderUndisturbed,
         NEW h \in Holders, NEW b \in Bufs, NEW g \in Holders, holds[g] = b, holds[h] = NULL,
         refcount' = [refcount EXCEPT ![b] = @ + 1],
         holds' = [holds EXCEPT ![h] = b],
         seen' = [seen EXCEPT ![h] = Content(b)],
         UNCHANGED <<hdr, args, fds, open>>
  PROVE  RefsMatch' /\ Owned' /\ HolderUndisturbed'
  <1>0. /\ holds \in [Holders -> Bufs \union {NULL}] /\ refcount \in [Bufs -> Nat]
        /\ seen \in [Holders -> Contents]
    BY DEF TypeOK
  <1>1. RefsMatch'
    BY AddReference
  <1>2. Owned'
    <2>1. \A c \in Bufs : refcount'[c] = 0 => refcount[c] = 0
      BY SMT, <1>0
    <2>. QED  BY SMT, <2>1 DEF Owned
  <1>3. HolderUndisturbed'
    <2>. SUFFICES ASSUME NEW k \in Holders, holds'[k] # NULL PROVE seen'[k] = Content(holds[k])'
      BY DEF HolderUndisturbed
    <2>1. CASE k = h
      BY <1>0, <2>1 DEF Content
    <2>2. CASE k # h
      BY <1>0, <2>2 DEF Content, HolderUndisturbed
    <2>. QED  BY <2>1, <2>2
  <1>. QED  BY <1>1, <1>2, <1>3

\* A holder that empties a buffer of its own, or changes what is in it without adding a
\* descriptor that somebody has, keeps what the others see.
LEMMA OthersUndisturbed ==
  ASSUME TypeOK, RefsMatch, HolderUndisturbed, NEW h \in Holders, holds[h] \in Bufs,
         refcount[holds[h]] <= 1, UNCHANGED holds,
         \A c \in Bufs \ {holds[h]} : /\ hdr'[c] = hdr[c] /\ args'[c] = args[c]
                                      /\ fds'[c] = fds[c],
         \A k \in Holders \ {h} : seen'[k] = seen[k],
         seen'[h] = Content(holds[h])'
  PROVE  HolderUndisturbed'
  <1>. SUFFICES ASSUME NEW k \in Holders, holds'[k] # NULL PROVE seen'[k] = Content(holds[k])'
    BY DEF HolderUndisturbed
  <1>1. CASE k = h
    BY <1>1
  <1>2. CASE k # h
    <2>1. holds[k] \in Bufs \ {holds[h]}
      BY SMT, <1>2, OnlyHolder DEF TypeOK
    <2>. QED  BY SMT, <1>2, <2>1 DEF Content, HolderUndisturbed
  <1>. QED  BY <1>1, <1>2

\* A buffer that is emptied closes its own descriptors and no other.
LEMMA EmptyKeepsOwned ==
  ASSUME TypeOK, Owned, NEW b \in Bufs,
         fds' = [fds EXCEPT ![b] = {}], open' = open \ FdsIn(fds[b]),
         \A c \in Bufs \ {b} : refcount'[c] = refcount[c]
  PROVE  Owned'
  <1>0. fds \in [Bufs -> SUBSET FdRecords]
    BY DEF TypeOK
  <1>1. fds'[b] = {} /\ \A c \in Bufs \ {b} : fds'[c] = fds[c]
    BY <1>0
  <1>2. \A f : f \in FdsIn(fds[b]) <=> \E r \in fds[b] : r.fd = f
    BY DEF FdsIn
  <1>3. \A f : f \in open' <=> \E c \in Bufs : \E r \in fds'[c] : r.fd = f
    BY SMT, <1>1, <1>2 DEF Owned
  <1>4. \A c \in Bufs : refcount'[c] = 0 => fds'[c] = {}
    BY <1>1 DEF Owned
  <1>5. \A c, d \in Bufs : \A r \in fds'[c], q \in fds'[d] : r.fd = q.fd => c = d /\ r = q
    BY SMT, <1>1 DEF Owned
  <1>. QED  BY <1>3, <1>4, <1>5 DEF Owned

\* pomp_buffer_unref keeps the three invariants.
LEMMA UnrefKeeps ==
  ASSUME TypeOK, RefsMatch, Owned, HolderUndisturbed,
         NEW h \in Holders, holds[h] # NULL, Unref(h)
  PROVE  RefsMatch' /\ Owned' /\ HolderUndisturbed'
  <1>. DEFINE b == holds[h]
  <1>0. /\ holds \in [Holders -> Bufs \union {NULL}] /\ refcount \in [Bufs -> Nat]
        /\ hdr \in [Bufs -> Headers] /\ args \in [Bufs -> Seq(Vals)]
        /\ fds \in [Bufs -> SUBSET FdRecords] /\ seen \in [Holders -> Contents]
        /\ b \in Bufs
    BY DEF TypeOK
  <1>1. RefsMatch'
    BY <1>0, DropReference DEF Unref
  <1>2. Owned'
    <2>0. \A c \in Bufs \ {b} : refcount'[c] = refcount[c]
      BY <1>0 DEF Unref
    <2>1. CASE refcount[b] = 1
      BY <1>0, <2>0, <2>1, EmptyKeepsOwned DEF Unref
    <2>2. CASE refcount[b] # 1
      <3>1. refcount[b] # 0
        BY <1>0, FreeHasNoHolder
      <3>2. refcount'[b] # 0 /\ UNCHANGED <<fds, open>>
        BY SMT, <1>0, <2>2, <3>1 DEF Unref
      <3>. QED  BY SMT, <2>0, <3>2 DEF Owned
    <2>. QED  BY <2>1, <2>2
  <1>3. HolderUndisturbed'
    <2>. SUFFICES ASSUME NEW k \in Holders, holds'[k] # NULL PROVE seen'[k] = Content(holds[k])'
      BY DEF HolderUndisturbed
    <2>1. k # h /\ holds'[k] = holds[k] /\ seen'[k] = seen[k] /\ holds[k] \in Bufs
      BY <1>0 DEF Unref
    <2>2. CASE refcount[b] = 1
      <3>1. holds[k] # b
        BY SMT, <1>0, <2>1, <2>2, OnlyHolder
      <3>2. /\ hdr'[holds[k]] = hdr[holds[k]] /\ args'[holds[k]] = args[holds[k]]
            /\ fds'[holds[k]] = fds[holds[k]]
        BY <1>0, <2>1, <2>2, <3>1 DEF Unref
      <3>. QED  BY <2>1, <3>2, NullIsNoBuf DEF Content, HolderUndisturbed
    <2>3. CASE refcount[b] # 1
      BY <2>1, <2>3, NullIsNoBuf DEF Unref, Content, HolderUndisturbed
    <2>. QED  BY <2>2, <2>3
  <1>. QED  BY <1>1, <1>2, <1>3

(***************************************************************************)
(* The types                                                                *)
(***************************************************************************)
\* The size of a buffer that grows is a natural number.
LEMMA EnsureType == ASSUME NEW n \in Nat, NEW cap \in Nat PROVE Ensure(n, cap) \in Nat
  <1>1. (n + AllocStep - 1) \div AllocStep \in Nat
    BY SMT, Sizes
  <1>2. ((n + AllocStep - 1) \div AllocStep) * AllocStep \in Nat
    BY SMT, <1>1, Sizes
  <1>. QED  BY <1>2 DEF Ensure, Align

\* The used length is a natural number.
LEMMA LenType == ASSUME NEW hd, NEW a \in Seq(Vals) PROVE LenOf(hd, a) \in Nat
  BY SMT DEF LenOf, HeaderSize

\* An empty buffer, and what is in an allocated one, have the type of a content.
LEMMA ContentType ==
  ASSUME TypeOK
  PROVE  /\ NoHdr \in Headers /\ Empty \in Contents
         /\ \A b \in Bufs : Content(b) \in Contents
  BY SMT DEF TypeOK, NoHdr, Headers, Empty, Contents, Content, FdRecords

\* Types of what belongs to the buffers and to their holders
BufTypeOK ==
    /\ refcount \in [Bufs -> Nat]
    /\ hdr \in [Bufs -> Headers]
    /\ args \in [Bufs -> Seq(Vals)]
    /\ capacity \in [Bufs -> Nat]
    /\ fds \in [Bufs -> SUBSET FdRecords]
    /\ seen \in [Holders -> Contents]
    /\ open \in SUBSET Fds
    /\ holds \in [Holders -> Bufs \union {NULL}]

\* Types of what belongs to the messages
MsgTypeOK ==
    /\ msgid \in [Msgs -> Ids \union {NULL}]
    /\ finished \in [Msgs -> BOOLEAN] /\ init \in [Msgs -> BOOLEAN]
    /\ step \in [Msgs -> {"idle", "test", "unref", "clear", "new"}]

\* The type invariant is made of the two.
LEMMA TypeParts == /\ TypeOK <=> BufTypeOK /\ MsgTypeOK
                   /\ TypeOK' <=> BufTypeOK' /\ MsgTypeOK'
  BY DEF TypeOK, BufTypeOK, MsgTypeOK

\* A new buffer has the types, when what is put in it does.
LEMMA NewBufferType ==
  ASSUME BufTypeOK, NEW h \in Holders, NEW b \in Bufs, NEW cap \in Nat, NEW content \in Contents,
         NewBuffer(h, b, cap, content), open' \in SUBSET Fds
  PROVE  BufTypeOK'
  <1>1. content.hdr \in Headers /\ content.args \in Seq(Vals) /\ content.fds \in SUBSET FdRecords
    BY DEF Contents
  <1>. QED  BY <1>1 DEF BufTypeOK, NewBuffer

\* Dropping a reference keeps the types.
LEMMA UnrefType ==
  ASSUME TypeOK, RefsMatch, NEW h \in Holders, holds[h] # NULL, Unref(h)
  PROVE  BufTypeOK'
  <1>1. holds[h] \in Bufs /\ refcount[holds[h]] # 0
    BY FreeHasNoHolder DEF TypeOK
  <1>2. refcount[holds[h]] - 1 \in Nat
    BY SMT, <1>1 DEF TypeOK
  <1>3. refcount' \in [Bufs -> Nat] /\ holds' \in [Holders -> Bufs \union {NULL}]
    BY <1>1, <1>2 DEF TypeOK, Unref
  <1>4. seen' \in [Holders -> Contents] /\ hdr' \in [Bufs -> Headers]
    BY <1>1, ContentType DEF TypeOK, Unref
  <1>5. /\ args' \in [Bufs -> Seq(Vals)] /\ capacity' \in [Bufs -> Nat]
        /\ fds' \in [Bufs -> SUBSET FdRecords] /\ open' \in SUBSET Fds
    <2>1. CASE refcount[holds[h]] = 1
      <3>0. /\ args' = [args EXCEPT ![holds[h]] = <<>>]
            /\ capacity' = [capacity EXCEPT ![holds[h]] = 0]
        BY <2>1 DEF Unref
      <3>1. args' \in [Bufs -> Seq(Vals)]
        BY SMT, <3>0 DEF TypeOK
      <3>2. capacity' \in [Bufs -> Nat]
        BY <3>0 DEF TypeOK
      <3>3. fds' \in [Bufs -> SUBSET FdRecords]
        BY <1>1, <2>1 DEF TypeOK, Unref
      <3>4. open' \in SUBSET Fds
        BY <1>1, <2>1 DEF TypeOK, Unref
      <3>. QED  BY <3>1, <3>2, <3>3, <3>4
    <2>2. CASE refcount[holds[h]] # 1
      BY <2>2 DEF TypeOK, Unref
    <2>. QED  BY <2>1, <2>2
  <1>. QED  BY <1>3, <1>4, <1>5 DEF BufTypeOK

\* Writing in a buffer keeps the types.
LEMMA WriteType ==
  ASSUME BufTypeOK, NEW h \in Holders, NEW b \in Bufs, NEW a \in Seq(Vals), NEW hd \in Headers,
         Write(h, b, a, hd), UNCHANGED <<refcount, fds, open, holds>>
  PROVE  BufTypeOK'
  <1>1. Ensure(LenOf(hd, a), capacity[b]) \in Nat
    BY EnsureType, LenType DEF BufTypeOK
  <1>2. [seen[h] EXCEPT !.args = a, !.hdr = hd] \in Contents
    BY DEF BufTypeOK, Contents
  <1>. QED  BY <1>1, <1>2 DEF BufTypeOK, Write

(***************************************************************************)
(* The steps                                                                *)
(***************************************************************************)
\* The invariant with the owners of descriptors stated one by one
Inv == TypeOK /\ RefsMatch /\ Owned /\ HolderUndisturbed /\ StepInv

\* A message at rest, or one that has no reason to look at its buffer, keeps its step.
LEMMA StepInvKept ==
  ASSUME Inv, UNCHANGED step,
         \A m \in Msgs : step[m] # "idle" => holds'[m] = holds[m],
         \A m \in Msgs : step[m] = "clear" => refcount'[holds[m]] = refcount[holds[m]]
  PROVE  StepInv'
  <1>. SUFFICES ASSUME NEW m \in Msgs
                PROVE  /\ step[m] \in {"unref", "clear"} => holds'[m] # NULL
                       /\ step[m] = "new" => holds'[m] = NULL
                       /\ step[m] = "clear" => refcount'[holds'[m]] = 1
    BY DEF StepInv
  <1>. QED  BY DEF Inv, StepInv

\* What a message that is being cleared holds is not held by anybody else.
LEMMA ClearedAlone ==
  ASSUME Inv, NEW m \in Msgs, step[m] = "clear", NEW h \in Holders, holds[h] = holds[m]
  PROVE  h = m
  <1>1. m \in Holders /\ holds[m] \in Bufs /\ refcount[holds[m]] = 1
    BY DEF Inv, StepInv, TypeOK, Holders
  <1>. QED  BY SMT, <1>1, OnlyHolder DEF Inv

\* pomp_buffer_ref keeps the invariant.
LEMMA RefStep ==
  ASSUME Inv, NEW s \in Slots, NEW h \in Holders, pomp_buffer_ref(s, h)
  PROVE  Inv'
  <1>0. s \in Holders /\ holds[h] \in Bufs /\ TypeOK /\ BufTypeOK /\ MsgTypeOK
    BY TypeParts DEF Holders, pomp_buffer_ref, Inv, TypeOK
  <1>1. RefsMatch' /\ Owned' /\ HolderUndisturbed'
    BY <1>0, ShareKeeps DEF Inv, pomp_buffer_ref
  <1>2. BufTypeOK'
    BY SMT, <1>0, ContentType DEF BufTypeOK, pomp_buffer_ref
  <1>3. MsgTypeOK'
    BY <1>0 DEF MsgTypeOK, pomp_buffer_ref, msgs
  <1>4. StepInv'
    <2>1. \A m \in Msgs : step[m] # "idle" => holds'[m] = holds[m]
      BY <1>0, MsgsAreNotSlots DEF BufTypeOK, pomp_buffer_ref, Holders
    <2>2. \A m \in Msgs : step[m] = "clear" => holds[m] # holds[h]
      BY <1>0, ClearedAlone DEF pomp_buffer_ref, Idle
    <2>3. \A m \in Msgs : step[m] = "clear" => refcount'[holds[m]] = refcount[holds[m]]
      BY SMT, <1>0, <2>2 DEF BufTypeOK, pomp_buffer_ref, Inv, StepInv
    <2>4. UNCHANGED step
      BY DEF pomp_buffer_ref, msgs
    <2>. QED  BY <2>1, <2>3, <2>4, StepInvKept
  <1>. QED  BY <1>1, <1>2, <1>3, <1>4, TypeParts DEF Inv

\* pomp_buffer_unref keeps the invariant.
LEMMA UnrefStep ==
  ASSUME Inv, NEW s \in Slots, pomp_buffer_unref(s)
  PROVE  Inv'
  <1>0. s \in Holders /\ holds[s] \in Bufs /\ TypeOK /\ BufTypeOK /\ MsgTypeOK
    BY TypeParts DEF Holders, pomp_buffer_unref, Inv, TypeOK
  <1>1. RefsMatch' /\ Owned' /\ HolderUndisturbed'
    BY <1>0, UnrefKeeps DEF Inv, pomp_buffer_unref
  <1>2. BufTypeOK'
    BY <1>0, UnrefType DEF Inv, pomp_buffer_unref
  <1>3. MsgTypeOK'
    BY <1>0 DEF MsgTypeOK, pomp_buffer_unref, msgs
  <1>4. StepInv'
    <2>1. \A m \in Msgs : step[m] # "idle" => holds'[m] = holds[m]
      BY <1>0, MsgsAreNotSlots DEF BufTypeOK, pomp_buffer_unref, Unref, Holders
    <2>2. \A m \in Msgs : step[m] = "clear" => holds[m] # holds[s]
      BY <1>0, ClearedAlone, MsgsAreNotSlots
    <2>3. \A m \in Msgs : step[m] = "clear" => refcount'[holds[m]] = refcount[holds[m]]
      BY SMT, <1>0, <2>2 DEF BufTypeOK, pomp_buffer_unref, Unref
    <2>4. UNCHANGED step
      BY DEF pomp_buffer_unref, msgs
    <2>. QED  BY <2>1, <2>3, <2>4, StepInvKept
  <1>. QED  BY <1>1, <1>2, <1>3, <1>4, TypeParts DEF Inv

\* A slot that gets a new buffer
LEMMA SlotNewStep ==
  ASSUME Inv, NEW s \in Slots, NEW b \in Bufs, NEW cap \in Nat, NEW content \in Contents,
         NewBuffer(s, b, cap, content), holds[s] = NULL, open' \in SUBSET Fds, UNCHANGED msgs,
         \A f : f \in open' <=> f \in open \/ \E r \in content.fds : r.fd = f,
         \A r \in content.fds : r.fd \notin open,
         \A r, q \in content.fds : r.fd = q.fd => r = q
  PROVE  Inv'
  <1>0. s \in Holders /\ TypeOK /\ BufTypeOK /\ MsgTypeOK
    BY TypeParts DEF Holders, Inv
  <1>1. RefsMatch' /\ Owned' /\ HolderUndisturbed'
    BY <1>0, AllocKeeps DEF Inv
  <1>2. BufTypeOK'
    BY <1>0, NewBufferType
  <1>3. MsgTypeOK'
    BY <1>0 DEF MsgTypeOK, msgs
  <1>4. StepInv'
    <2>1. \A m \in Msgs : step[m] # "idle" => holds'[m] = holds[m]
      BY SMT, <1>0, MsgsAreNotSlots DEF BufTypeOK, NewBuffer, Holders
    <2>2. \A m \in Msgs : step[m] = "clear" => refcount'[holds[m]] = refcount[holds[m]]
      BY SMT, <1>0 DEF BufTypeOK, NewBuffer, Inv, StepInv, Free
    <2>3. UNCHANGED step
      BY DEF msgs
    <2>. QED  BY <2>1, <2>2, <2>3, StepInvKept
  <1>. QED  BY <1>1, <1>2, <1>3, <1>4, TypeParts DEF Inv

\* The only holder of a buffer writes in it.
LEMMA WriteKeeps ==
  ASSUME Inv, NEW h \in Holders, MayWrite(h), NEW a \in Seq(Vals), NEW hd \in Headers,
         Write(h, holds[h], a, hd), UNCHANGED <<refcount, fds, open, holds>>
  PROVE  BufTypeOK' /\ RefsMatch' /\ Owned' /\ HolderUndisturbed'
  <1>. DEFINE b == holds[h]
  <1>0. /\ b \in Bufs /\ refcount[b] <= 1 /\ TypeOK /\ BufTypeOK /\ RefsMatch
        /\ HolderUndisturbed /\ Owned
    BY TypeParts DEF Inv, TypeOK, MayWrite
  <1>1. BufTypeOK'
    BY <1>0, WriteType
  <1>2. RefsMatch'
    BY <1>0 DEF RefsMatch, HoldersOf
  <1>3. Owned'
    BY SMT, <1>0 DEF Owned
  <1>4. HolderUndisturbed'
    <2>1. seen[h] = Content(b)
      BY <1>0, NullIsNoBuf DEF HolderUndisturbed
    <2>2. /\ seen'[h] = [seen[h] EXCEPT !.args = a, !.hdr = hd]
          /\ hdr'[b] = hd /\ args'[b] = a /\ fds'[b] = fds[b] /\ holds'[h] = b
      BY <1>0 DEF Write, BufTypeOK
    <2>3. seen'[h] = [hdr |-> hd, args |-> a, fds |-> fds[b]]
      <3>1. seen'[h] \in Contents
        BY <1>1 DEF BufTypeOK
      <3>2. seen'[h] = [hdr |-> seen'[h].hdr, args |-> seen'[h].args, fds |-> seen'[h].fds]
        BY <3>1 DEF Contents
      <3>3. seen[h] \in Contents /\ seen[h].fds = fds[b]
        BY SMT, <1>0, <2>1 DEF Content, BufTypeOK
      <3>4. seen'[h].hdr = hd /\ seen'[h].args = a /\ seen'[h].fds = fds[b]
        BY <2>2, <3>3 DEF Contents
      <3>. QED  BY <3>2, <3>4
    <2>4. seen'[h] = Content(holds[h])'
      BY <2>2, <2>3 DEF Content
    <2>5. \A c \in Bufs \ {b} : hdr'[c] = hdr[c] /\ args'[c] = args[c] /\ fds'[c] = fds[c]
      BY <1>0 DEF Write, BufTypeOK
    <2>6. \A k \in Holders \ {h} : seen'[k] = seen[k]
      BY <1>0 DEF Write, BufTypeOK
    <2>. QED  BY <1>0, <2>4, <2>5, <2>6, OthersUndisturbed
  <1>. QED  BY <1>1, <1>2, <1>3, <1>4

\* A step that writes in a buffer, of a holder that is not in the middle of another operation
LEMMA WriteStep ==
  ASSUME Inv, NEW h \in Holders, MayWrite(h), NEW a \in Seq(Vals), NEW hd \in Headers,
         Write(h, holds[h], a, hd), UNCHANGED <<refcount, fds, open, holds, msgid, step, init>>,
         MsgTypeOK'
  PROVE  Inv'
  <1>1. BufTypeOK' /\ RefsMatch' /\ Owned' /\ HolderUndisturbed'
    BY WriteKeeps
  <1>2. StepInv'
    BY DEF Inv, StepInv
  <1>. QED  BY <1>1, <1>2, TypeParts DEF Inv

\* The ways a program writes in a buffer of its own keep the invariant.
LEMMA SlotWriteStep ==
  ASSUME Inv, NEW s \in Slots,
         \/ \E i \in 1 .. MaxArgs, v \in Vals : pomp_buffer_write(s, i, v)
         \/ \E h \in Holders : pomp_buffer_append_buffer(s, h)
         \/ \E n \in 0 .. MaxArgs : pomp_buffer_set_len(s, n)
  PROVE  Inv'
  <1>0. s \in Holders /\ TypeOK /\ MsgTypeOK
    BY TypeParts DEF Inv, Holders
  <1>1. CASE \E i \in 1 .. MaxArgs, v \in Vals : pomp_buffer_write(s, i, v)
    <2>1. PICK i \in 1 .. MaxArgs, v \in Vals : pomp_buffer_write(s, i, v)
      BY <1>1
    <2>. DEFINE a == args[holds[s]]
                w == IF i > Len(a) THEN Append(a, v) ELSE [a EXCEPT ![i] = v]
    <2>2. MayWrite(s) /\ a \in Seq(Vals) /\ hdr[holds[s]] \in Headers /\ i \in Nat
      <3>1. MayWrite(s)
        BY <2>1 DEF pomp_buffer_write
      <3>2. i \in Nat
        BY SMT, Sizes
      <3>. QED  BY <1>0, <3>1, <3>2 DEF MayWrite, TypeOK
    <2>3. w \in Seq(Vals)
      BY SMT, <2>2
    <2>. HIDE DEF w
    <2>4. Write(s, holds[s], w, hdr[holds[s]]) /\ UNCHANGED <<refcount, fds, open, holds, msgs>>
      BY <2>1 DEF pomp_buffer_write, w
    <2>5. MsgTypeOK' /\ UNCHANGED <<msgid, step, init>>
      BY <1>0, <2>4 DEF MsgTypeOK, msgs
    <2>. QED  BY <1>0, <2>2, <2>3, <2>4, <2>5, WriteStep
  <1>2. CASE \E h \in Holders : pomp_buffer_append_buffer(s, h)
    <2>1. PICK h \in Holders : pomp_buffer_append_buffer(s, h)
      BY <1>2
    <2>. DEFINE w == args[holds[s]] \o args[holds[h]]
    <2>2. MayWrite(s) /\ hdr[holds[s]] \in Headers /\ w \in Seq(Vals)
      BY SMT, <1>0, <2>1 DEF pomp_buffer_append_buffer, MayWrite, TypeOK
    <2>. HIDE DEF w
    <2>4. Write(s, holds[s], w, hdr[holds[s]]) /\ UNCHANGED <<refcount, fds, open, holds, msgs>>
      BY <2>1 DEF pomp_buffer_append_buffer, w
    <2>5. MsgTypeOK' /\ UNCHANGED <<msgid, step, init>>
      BY <1>0, <2>4 DEF MsgTypeOK, msgs
    <2>. QED  BY <1>0, <2>2, <2>4, <2>5, WriteStep
  <1>3. CASE \E n \in 0 .. MaxArgs : pomp_buffer_set_len(s, n)
    <2>1. PICK n \in 0 .. MaxArgs : pomp_buffer_set_len(s, n)
      BY <1>3
    <2>. DEFINE w == SubSeq(args[holds[s]], 1, n)
    <2>2. MayWrite(s) /\ hdr[holds[s]] \in Headers /\ args[holds[s]] \in Seq(Vals)
      BY <1>0, <2>1 DEF pomp_buffer_set_len, MayWrite, TypeOK
    <2>3. w \in Seq(Vals)
      BY SMT, <2>1, <2>2 DEF pomp_buffer_set_len
    <2>. HIDE DEF w
    <2>4. Write(s, holds[s], w, hdr[holds[s]]) /\ UNCHANGED <<refcount, fds, open, holds, msgs>>
      BY <2>1 DEF pomp_buffer_set_len, w
    <2>5. MsgTypeOK' /\ UNCHANGED <<msgid, step, init>>
      BY <1>0, <2>4 DEF MsgTypeOK, msgs
    <2>. QED  BY <1>0, <2>2, <2>3, <2>4, <2>5, WriteStep
  <1>. QED  BY <1>1, <1>2, <1>3

\* pomp_buffer_set_capacity keeps the invariant.
LEMMA SetCapacityStep ==
  ASSUME Inv, NEW s \in Slots, NEW cap \in Nat, pomp_buffer_set_capacity(s, cap)
  PROVE  Inv'
  <1>0. TypeOK /\ MsgTypeOK /\ BufTypeOK
    BY TypeParts DEF Inv
  <1>1. BufTypeOK'
    BY <1>0 DEF BufTypeOK, pomp_buffer_set_capacity
  <1>2. MsgTypeOK'
    BY <1>0 DEF MsgTypeOK, pomp_buffer_set_capacity, msgs
  <1>3. RefsMatch' /\ Owned' /\ HolderUndisturbed'
    BY SMT DEF Inv, RefsMatch, HoldersOf, Owned, HolderUndisturbed, Content, pomp_buffer_set_capacity
  <1>4. StepInv'
    BY DEF Inv, StepInv, pomp_buffer_set_capacity, msgs
  <1>. QED  BY <1>1, <1>2, <1>3, <1>4, TypeParts DEF Inv

\* The descriptors of a copy are open, new and all different.
LEMMA CopyStep ==
  ASSUME Inv, NEW h \in Holders, NEW src \in Bufs, NEW b \in Bufs, holds[h] = NULL,
         NEW dup \in [FdsIn(fds[src]) -> Fds], CopyBuffer(h, src, b, dup)
  PROVE  BufTypeOK' /\ RefsMatch' /\ Owned' /\ HolderUndisturbed'
  <1>. DEFINE content == [Content(src) EXCEPT !.fds = Copied(@, dup)]
  <1>0. /\ TypeOK /\ BufTypeOK /\ RefsMatch /\ Owned /\ HolderUndisturbed
        /\ fds[src] \in SUBSET FdRecords /\ Content(src) \in Contents /\ Content(src).fds = fds[src]
    BY TypeParts, ContentType DEF Inv, TypeOK, Content
  <1>1. \A r \in fds[src] : r.fd \in FdsIn(fds[src]) /\ r.off \in Nat
    BY <1>0 DEF FdsIn, FdRecords
  <1>2. Copied(fds[src], dup) \in SUBSET FdRecords
    BY SMT, <1>1 DEF Copied, FdRecords
  <1>3. content \in Contents /\ content.fds = Copied(fds[src], dup)
    BY <1>0, <1>2 DEF Contents
  <1>4. \A q \in content.fds : \E r \in fds[src] : q = [off |-> r.off, fd |-> dup[r.fd]]
    BY <1>3 DEF Copied
  <1>5. \A r \in fds[src] : [off |-> r.off, fd |-> dup[r.fd]] \in content.fds
    BY <1>3 DEF Copied
  <1>6. \A q \in content.fds : q.fd \notin open
    BY SMT, <1>1, <1>4 DEF CopyBuffer
  <1>7. \A q, t \in content.fds : q.fd = t.fd => q = t
    <2>. SUFFICES ASSUME NEW q \in content.fds, NEW t \in content.fds, q.fd = t.fd PROVE q = t
      OBVIOUS
    <2>1. PICK x \in fds[src] : q = [off |-> x.off, fd |-> dup[x.fd]]
      BY <1>4
    <2>2. PICK y \in fds[src] : t = [off |-> y.off, fd |-> dup[y.fd]]
      BY <1>4
    <2>3. x.fd = y.fd
      BY <1>1, <2>1, <2>2 DEF CopyBuffer
    <2>4. x = y
      BY SMT, <1>0, <2>3 DEF Owned
    <2>. QED  BY <2>1, <2>2, <2>4
  <1>8. \A f : f \in open' <=> f \in open \/ \E q \in content.fds : q.fd = f
    <2>1. \A f : f \in open' <=> f \in open \/ \E g \in FdsIn(fds[src]) : f = dup[g]
      <3>1. open' = open \union {dup[g] : g \in DOMAIN dup} /\ DOMAIN dup = FdsIn(fds[src])
        BY DEF CopyBuffer
      <3>. QED  BY <3>1
    <2>2. \A f : (\E g \in FdsIn(fds[src]) : f = dup[g]) <=> \E r \in fds[src] : f = dup[r.fd]
      BY DEF FdsIn
    <2>3. ASSUME NEW f, NEW r \in fds[src], f = dup[r.fd] PROVE \E q \in content.fds : q.fd = f
      <3>. DEFINE q == [off |-> r.off, fd |-> dup[r.fd]]
      <3>1. q \in content.fds /\ q.fd = f
        BY <1>5, <2>3
      <3>. QED  BY <3>1
    <2>4. ASSUME NEW f, NEW q \in content.fds, q.fd = f PROVE \E r \in fds[src] : f = dup[r.fd]
      BY SMT, <1>4, <2>4
    <2>. QED  BY <2>1, <2>2, <2>3, <2>4
  <1>9. open' \in SUBSET Fds /\ BufLen(src) \in Nat
    BY SMT, <1>0, LenType DEF CopyBuffer, TypeOK, BufLen
  <1>10. NewBuffer(h, b, BufLen(src), content)
    BY DEF CopyBuffer
  <1>. HIDE DEF content
  <1>11. BufTypeOK'
    BY <1>0, <1>3, <1>9, <1>10, NewBufferType
  <1>12. RefsMatch' /\ Owned' /\ HolderUndisturbed'
    BY <1>0, <1>3, <1>6, <1>7, <1>8, <1>10, AllocKeeps
  <1>. QED  BY <1>11, <1>12

\* The step of a message in the middle of pomp_msg_init is not disturbed by a new buffer.
LEMMA NewIsFree ==
  ASSUME Inv, NEW h \in Holders, NEW b \in Bufs, NEW cap, NEW content, NewBuffer(h, b, cap, content),
         UNCHANGED step, h \in Msgs => step[h] = "idle"
  PROVE  StepInv'
  <1>1. \A m \in Msgs : step[m] # "idle" => holds'[m] = holds[m]
    BY DEF NewBuffer, Inv, TypeOK, Holders
  <1>2. \A m \in Msgs : step[m] = "clear" => refcount'[holds[m]] = refcount[holds[m]]
    BY DEF NewBuffer, Inv, TypeOK, StepInv, Free, Holders
  <1>. QED  BY <1>1, <1>2, StepInvKept

\* The ways a program gets a new buffer keep the invariant.
LEMMA SlotAllocStep ==
  ASSUME Inv, NEW s \in Slots,
         \/ \E b \in Bufs, cap \in {0, HeaderSize} : pomp_buffer_new(s, b, cap)
         \/ \E b \in Bufs, h \in Holders : pomp_buffer_new_with_data(s, b, h)
         \/ \E h \in Holders, b \in Bufs : pomp_buffer_new_copy(s, h, b)
  PROVE  Inv'
  <1>0. s \in Holders /\ s \notin Msgs /\ TypeOK /\ MsgTypeOK /\ Empty \in Contents /\ Empty.fds = {}
    BY TypeParts, ContentType, MsgsAreNotSlots DEF Inv, Holders, Empty
  <1>1. CASE \E b \in Bufs, cap \in {0, HeaderSize} : pomp_buffer_new(s, b, cap)
    <2>1. PICK b \in Bufs, cap \in {0, HeaderSize} : pomp_buffer_new(s, b, cap)
      BY <1>1
    <2>2. cap \in Nat /\ open' \in SUBSET Fds /\ UNCHANGED msgs /\ UNCHANGED open /\ holds[s] = NULL
      BY SMT, <1>0, <2>1 DEF pomp_buffer_new, TypeOK, HeaderSize
    <2>3. NewBuffer(s, b, cap, Empty)
      BY <2>1 DEF pomp_buffer_new
    <2>. QED  BY <1>0, <2>2, <2>3, SlotNewStep
  <1>2. CASE \E b \in Bufs, h \in Holders : pomp_buffer_new_with_data(s, b, h)
    <2>1. PICK b \in Bufs, h \in Holders : pomp_buffer_new_with_data(s, b, h)
      BY <1>2
    <2>. DEFINE content == [Content(holds[h]) EXCEPT !.fds = {}]
    <2>2. holds[h] \in Bufs /\ open' \in SUBSET Fds /\ UNCHANGED msgs /\ UNCHANGED open /\ holds[s] = NULL
      BY SMT, <1>0, <2>1 DEF pomp_buffer_new_with_data, TypeOK
    <2>3. BufLen(holds[h]) \in Nat
      BY <1>0, <2>2, LenType DEF BufLen, TypeOK
    <2>4. Content(holds[h]) \in Contents
      BY <1>0, <2>2, ContentType
    <2>5. content \in Contents /\ content.fds = {}
      BY <2>4 DEF Contents
    <2>6. NewBuffer(s, b, BufLen(holds[h]), content)
      BY <2>1 DEF pomp_buffer_new_with_data
    <2>. HIDE DEF content
    <2>. QED  BY <1>0, <2>2, <2>3, <2>5, <2>6, SlotNewStep
  <1>3. CASE \E h \in Holders, b \in Bufs : pomp_buffer_new_copy(s, h, b)
    <2>1. PICK h \in Holders, b \in Bufs : pomp_buffer_new_copy(s, h, b)
      BY <1>3
    <2>2. PICK dup \in [FdsIn(fds[holds[h]]) -> Fds] : CopyBuffer(s, holds[h], b, dup)
      BY <2>1 DEF pomp_buffer_new_copy
    <2>3. holds[h] \in Bufs /\ holds[s] = NULL /\ UNCHANGED msgs
      <3>1. holds[h] # NULL /\ holds[s] = NULL /\ UNCHANGED msgs
        BY <2>1 DEF pomp_buffer_new_copy
      <3>2. holds[h] \in Bufs \union {NULL}
        BY <1>0 DEF TypeOK
      <3>. QED  BY <3>1, <3>2
    <2>4. BufTypeOK' /\ RefsMatch' /\ Owned' /\ HolderUndisturbed'
      BY <1>0, <2>2, <2>3, CopyStep
    <2>5. MsgTypeOK' /\ UNCHANGED step
      BY <1>0, <2>3 DEF MsgTypeOK, msgs
    <2>6. StepInv'
      BY <1>0, <2>2, <2>5, NewIsFree DEF CopyBuffer
    <2>. QED  BY <2>4, <2>5, <2>6, TypeParts DEF Inv
  <1>. QED  BY <1>1, <1>2, <1>3

\* Every step of a slot
LEMMA SlotStep ==
  ASSUME Inv, NEW s \in Slots, SlotNext(s) PROVE Inv'
  <1>1. ASSUME NEW h \in Holders, pomp_buffer_ref(s, h) PROVE Inv'
    BY <1>1, RefStep
  <1>2. ASSUME pomp_buffer_unref(s) PROVE Inv'
    BY <1>2, UnrefStep
  <1>3. ASSUME NEW cap \in {MaxReuse + AllocStep}, pomp_buffer_set_capacity(s, cap) PROVE Inv'
    BY SMT, <1>3, SetCapacityStep, Sizes
  <1>. QED  BY <1>1, <1>2, <1>3, SlotWriteStep, SlotAllocStep DEF SlotNext

\* Steps of a message that change no buffer
LEMMA TestStep ==
  ASSUME Inv, NEW m \in Msgs,
         \/ \E id \in Ids : pomp_msg_init(m, id)
         \/ pomp_msg_clear_partial(m)
         \/ TestShared(m)
  PROVE  Inv'
  <1>0. TypeOK /\ BufTypeOK /\ MsgTypeOK /\ UNCHANGED <<bufs, holds, seen>>
    BY TypeParts DEF Inv, pomp_msg_init, pomp_msg_clear_partial, TestShared
  <1>1. BufTypeOK' /\ RefsMatch' /\ Owned' /\ HolderUndisturbed'
    BY SMT, <1>0 DEF Inv, BufTypeOK, RefsMatch, HoldersOf, Owned, HolderUndisturbed, Content, bufs
  <1>2. CASE \E id \in Ids : pomp_msg_init(m, id)
    <2>1. MsgTypeOK'
      BY <1>0, <1>2 DEF MsgTypeOK, pomp_msg_init
    <2>2. StepInv'
      BY <1>0, <1>2 DEF Inv, StepInv, MsgTypeOK, pomp_msg_init, bufs
    <2>. QED  BY <1>1, <2>1, <2>2, TypeParts DEF Inv
  <1>3. CASE pomp_msg_clear_partial(m)
    <2>1. MsgTypeOK'
      BY <1>0, <1>3 DEF MsgTypeOK, pomp_msg_clear_partial
    <2>2. StepInv'
      BY <1>0, <1>3 DEF Inv, StepInv, MsgTypeOK, pomp_msg_clear_partial, bufs
    <2>. QED  BY <1>1, <2>1, <2>2, TypeParts DEF Inv
  <1>4. CASE TestShared(m)
    <2>0. m \in Holders /\ AfterTest(m) \in {"idle", "test", "unref", "clear", "new"}
      BY DEF AfterTest, Holders
    <2>1. MsgTypeOK'
      BY <1>0, <1>4, <2>0 DEF MsgTypeOK, TestShared
    <2>2. /\ AfterTest(m) \in {"unref", "clear"} => holds[m] # NULL
          /\ AfterTest(m) = "new" => holds[m] = NULL
          /\ AfterTest(m) = "clear" => refcount[holds[m]] <= 1
      BY SMT, <1>0, <2>0 DEF AfterTest, TypeOK
    <2>3. AfterTest(m) = "clear" => refcount[holds[m]] = 1
      BY <1>0, <2>0, <2>2, OnlyHolder DEF Inv, TypeOK
    <2>4. StepInv'
      BY <1>0, <1>4, <2>2, <2>3 DEF Inv, StepInv, MsgTypeOK, TestShared, bufs
    <2>. QED  BY <1>1, <2>1, <2>4, TypeParts DEF Inv
  <1>. QED  BY <1>2, <1>3, <1>4

\* A message without a buffer is cleared or copied: no buffer is touched.
LEMMA BufferlessStep ==
  ASSUME Inv, MsgTypeOK', UNCHANGED <<bufs, holds, seen, step>>
  PROVE  Inv'
  <1>0. TypeOK /\ BufTypeOK
    BY TypeParts DEF Inv
  <1>1. BufTypeOK' /\ RefsMatch' /\ Owned' /\ HolderUndisturbed' /\ StepInv'
    BY SMT, <1>0 DEF Inv, BufTypeOK, RefsMatch, HoldersOf, Owned, HolderUndisturbed, Content, StepInv, bufs
  <1>. QED  BY <1>1, TypeParts DEF Inv

\* A message that drops its buffer leaves the others where they were.
LEMMA UnrefStepInv ==
  ASSUME Inv, NEW m \in Msgs, holds[m] # NULL, Unref(m), step[m] # "clear", MsgTypeOK',
         \A k \in Msgs \ {m} : step'[k] = step[k],
         step'[m] \in {"new", "idle"}
  PROVE  StepInv'
  <1>0. m \in Holders /\ holds[m] \in Bufs /\ TypeOK /\ holds'[m] = NULL
    BY DEF Inv, TypeOK, Holders, Unref
  <1>1. \A k \in Msgs \ {m} : holds'[k] = holds[k]
    BY <1>0 DEF TypeOK, Unref, Holders
  <1>2. \A k \in Msgs \ {m} : step[k] = "clear" => refcount'[holds[k]] = refcount[holds[k]]
    <2>1. \A k \in Msgs \ {m} : step[k] = "clear" => holds[k] # holds[m]
      BY <1>0, ClearedAlone
    <2>. QED  BY SMT, <1>0, <2>1 DEF TypeOK, Unref
  <1>. SUFFICES ASSUME NEW k \in Msgs
                PROVE  /\ step'[k] \in {"unref", "clear"} => holds'[k] # NULL
                       /\ step'[k] = "new" => holds'[k] = NULL
                       /\ step'[k] = "clear" => refcount'[holds'[k]] = 1
    BY DEF StepInv
  <1>3. CASE k = m
    BY <1>0, <1>3
  <1>4. CASE k # m
    BY <1>1, <1>2, <1>4 DEF Inv, StepInv
  <1>. QED  BY <1>3, <1>4

\* The ways a message gives its buffer back keep the invariant.
LEMMA MsgUnrefStep ==
  ASSUME Inv, NEW m \in Msgs, DropShared(m) \/ (pomp_msg_clear(m) /\ holds[m] # NULL)
  PROVE  Inv'
  <1>0. m \in Holders /\ holds[m] # NULL /\ TypeOK /\ MsgTypeOK /\ Unref(m)
    BY TypeParts DEF Inv, StepInv, Holders, DropShared, pomp_msg_clear
  <1>1. BufTypeOK' /\ RefsMatch' /\ Owned' /\ HolderUndisturbed'
    BY <1>0, UnrefKeeps, UnrefType DEF Inv
  <1>2. MsgTypeOK'
    <2>1. CASE DropShared(m)
      <3>1. (IF init[m] THEN "new" ELSE "idle") \in {"new", "idle"}
        OBVIOUS
      <3>2. step' \in [Msgs -> {"idle", "test", "unref", "clear", "new"}]
        BY <1>0, <2>1, <3>1 DEF MsgTypeOK, DropShared
      <3>. QED  BY <1>0, <2>1, <3>2 DEF MsgTypeOK, DropShared
    <2>2. CASE pomp_msg_clear(m)
      BY <1>0, <2>2 DEF MsgTypeOK, pomp_msg_clear, msgs
    <2>. QED  BY <2>1, <2>2
  <1>3. step[m] # "clear" /\ step'[m] \in {"new", "idle"} /\ \A k \in Msgs \ {m} : step'[k] = step[k]
    BY <1>0 DEF MsgTypeOK, DropShared, pomp_msg_clear
  <1>4. StepInv'
    BY <1>0, <1>2, <1>3, UnrefStepInv
  <1>. QED  BY <1>1, <1>2, <1>4, TypeParts DEF Inv

\* A message that empties its own buffer keeps the invariant.
LEMMA ClearOwnStep ==
  ASSUME Inv, NEW m \in Msgs, ClearOwn(m) PROVE Inv'
  <1>. DEFINE b == holds[m]
  <1>0. /\ m \in Holders /\ b \in Bufs /\ refcount[b] = 1 /\ step[m] = "clear"
        /\ TypeOK /\ BufTypeOK /\ MsgTypeOK /\ RefsMatch /\ Owned /\ HolderUndisturbed
    BY TypeParts DEF Inv, StepInv, TypeOK, Holders, ClearOwn
  <1>1. /\ hdr' = [hdr EXCEPT ![b] = NoHdr] /\ args' = [args EXCEPT ![b] = <<>>]
        /\ open' = open \ FdsIn(fds[b]) /\ fds' = [fds EXCEPT ![b] = {}]
        /\ seen' = [seen EXCEPT ![m] = Empty] /\ UNCHANGED <<refcount, holds, msgid, finished, init>>
        /\ step' = [step EXCEPT ![m] = "idle"]
    BY DEF ClearOwn, ClearPartial
  <1>2. BufTypeOK'
    <2>1. capacity' \in [Bufs -> Nat]
      BY SMT, <1>0, Sizes DEF ClearOwn, ClearPartial, TypeOK
    <2>2. NoHdr \in Headers /\ Empty \in Contents
      BY <1>0, ContentType
    <2>3. hdr' \in [Bufs -> Headers] /\ args' \in [Bufs -> Seq(Vals)]
      BY SMT, <1>0, <1>1, <2>2 DEF BufTypeOK
    <2>4. fds' \in [Bufs -> SUBSET FdRecords] /\ open' \in SUBSET Fds
      BY <1>0, <1>1 DEF BufTypeOK
    <2>5. seen' \in [Holders -> Contents]
      BY <1>0, <1>1, <2>2 DEF BufTypeOK
    <2>. QED  BY <1>0, <1>1, <2>1, <2>3, <2>4, <2>5 DEF BufTypeOK
  <1>3. MsgTypeOK'
    BY <1>0, <1>1 DEF MsgTypeOK
  <1>4. RefsMatch'
    BY <1>0, <1>1 DEF RefsMatch, HoldersOf
  <1>5. Owned'
    BY <1>0, <1>1, EmptyKeepsOwned
  <1>6. HolderUndisturbed'
    <2>1. \A c \in Bufs \ {b} : hdr'[c] = hdr[c] /\ args'[c] = args[c] /\ fds'[c] = fds[c]
      BY <1>0, <1>1 DEF BufTypeOK
    <2>2. \A k \in Holders \ {m} : seen'[k] = seen[k]
      BY <1>0, <1>1 DEF BufTypeOK
    <2>3. seen'[m] = Content(holds[m])'
      BY <1>0, <1>1 DEF BufTypeOK, Content, Empty
    <2>. QED  BY SMT, <1>0, <1>1, <2>1, <2>2, <2>3, OthersUndisturbed
  <1>7. StepInv'
    BY <1>0, <1>1 DEF Inv, StepInv, MsgTypeOK
  <1>. QED  BY <1>2, <1>3, <1>4, <1>5, <1>6, <1>7, TypeParts DEF Inv

\* The new buffer of pomp_msg_init keeps the invariant.
LEMMA AllocNewStep ==
  ASSUME Inv, NEW m \in Msgs, AllocNew(m) PROVE Inv'
  <1>0. /\ m \in Holders /\ holds[m] = NULL /\ step[m] = "new" /\ step' = [step EXCEPT ![m] = "idle"]
        /\ UNCHANGED <<open, msgid, finished, init>>
        /\ TypeOK /\ BufTypeOK /\ MsgTypeOK /\ RefsMatch /\ Owned /\ HolderUndisturbed
    BY TypeParts DEF Inv, StepInv, Holders, AllocNew
  <1>1. MsgTypeOK'
    BY <1>0 DEF MsgTypeOK
  <1>2. CASE \E b \in Bufs : NewBuffer(m, b, 0, Empty)
    <2>1. PICK b \in Bufs : NewBuffer(m, b, 0, Empty)
      BY <1>2
    <2>2. Empty \in Contents /\ Empty.fds = {} /\ open' \in SUBSET Fds
      BY <1>0, ContentType DEF Empty, TypeOK
    <2>3. BufTypeOK'
      BY <1>0, <2>1, <2>2, NewBufferType
    <2>4. RefsMatch' /\ Owned' /\ HolderUndisturbed'
      BY <1>0, <2>1, <2>2, AllocKeeps
    <2>5. StepInv'
      <3>1. \A k \in Msgs \ {m} : holds'[k] = holds[k] /\ step'[k] = step[k]
        BY <1>0, <2>1 DEF NewBuffer, BufTypeOK, MsgTypeOK, Holders
      <3>2. \A k \in Msgs : step[k] = "clear" => refcount'[holds[k]] = refcount[holds[k]]
        BY SMT, <1>0, <2>1 DEF NewBuffer, Free, BufTypeOK, Inv, StepInv
      <3>3. step'[m] = "idle"
        BY <1>0 DEF MsgTypeOK
      <3>. QED  BY <3>1, <3>2, <3>3 DEF Inv, StepInv
    <2>. QED  BY <1>1, <2>3, <2>4, <2>5, TypeParts DEF Inv
  <1>3. CASE UNCHANGED <<refcount, hdr, args, fds, capacity, holds, seen>>
    <2>1. BufTypeOK' /\ RefsMatch' /\ Owned' /\ HolderUndisturbed'
      BY SMT, <1>0, <1>3 DEF BufTypeOK, RefsMatch, HoldersOf, Owned, HolderUndisturbed, Content
    <2>2. StepInv'
      BY <1>0, <1>3 DEF Inv, StepInv, MsgTypeOK
    <2>. QED  BY <1>1, <2>1, <2>2, TypeParts DEF Inv
  <1>. QED  BY <1>2, <1>3 DEF AllocNew

\* pomp_encoder_write_* and pomp_msg_finish
LEMMA MsgWriteStep ==
  ASSUME Inv, NEW m \in Msgs,
         \/ \E v \in Vals : pomp_encoder_write(m, v)
         \/ \E v \in Vals : pomp_encoder_write_fd_fails(m, v)
         \/ pomp_msg_finish(m)
  PROVE  Inv'
  <1>0. /\ m \in Holders /\ TypeOK /\ MsgTypeOK /\ MayWrite(m) /\ holds[m] \in Bufs
        /\ args[holds[m]] \in Seq(Vals) /\ hdr[holds[m]] \in Headers
    BY TypeParts DEF Inv, Holders, TypeOK, pomp_encoder_write, pomp_encoder_write_fd_fails,
                     pomp_msg_finish, Encodable, MayWrite
  <1>1. ASSUME NEW v \in Vals, pomp_encoder_write(m, v) \/ pomp_encoder_write_fd_fails(m, v) PROVE Inv'
    <2>. DEFINE w == Append(args[holds[m]], v)
    <2>1. w \in Seq(Vals)
      BY SMT, <1>0
    <2>. HIDE DEF w
    <2>2. Write(m, holds[m], w, hdr[holds[m]]) /\ UNCHANGED <<refcount, fds, open, holds, msgs>>
      BY <1>1 DEF pomp_encoder_write, pomp_encoder_write_fd_fails, w
    <2>3. MsgTypeOK' /\ UNCHANGED <<msgid, step, init>>
      BY <1>0, <2>2 DEF MsgTypeOK, msgs
    <2>. QED  BY <1>0, <2>1, <2>2, <2>3, WriteStep
  <1>2. CASE pomp_msg_finish(m)
    <2>. DEFINE hd == [id |-> msgid[m], len |-> HeaderLen(holds[m])]
    <2>1. HeaderLen(holds[m]) \in Nat
      BY ZenonT(30), <1>0, LenType DEF HeaderLen, BufLen, HeaderSize
    <2>2. hd \in Headers
      BY <1>0, <2>1 DEF Headers, MsgTypeOK
    <2>. HIDE DEF hd
    <2>3. /\ Write(m, holds[m], args[holds[m]], hd)
          /\ UNCHANGED <<refcount, fds, open, holds, msgid, step, init>>
      BY <1>2 DEF pomp_msg_finish, hd
    <2>4. MsgTypeOK'
      BY <1>0, <1>2 DEF MsgTypeOK, pomp_msg_finish
    <2>. QED  BY ZenonT(30), <1>0, <2>2, <2>3, <2>4, WriteStep
  <1>. QED  BY <1>1, <1>2

\* pomp_encoder_write_fd keeps the invariant: the duplicate is in this buffer alone.
LEMMA WriteFdStep ==
  ASSUME Inv, NEW m \in Msgs, NEW v \in Vals, NEW fd \in Fds, pomp_encoder_write_fd(m, v, fd)
  PROVE  Inv'
  <1>. DEFINE b == holds[m]
              r == [off |-> Len(args[b]) + 1, fd |-> fd]
              w == Append(args[b], v)
  <1>0. /\ m \in Holders /\ b \in Bufs /\ refcount[b] <= 1 /\ fd \notin open
        /\ TypeOK /\ BufTypeOK /\ MsgTypeOK /\ RefsMatch /\ Owned /\ HolderUndisturbed
    BY TypeParts DEF Inv, TypeOK, Holders, pomp_encoder_write_fd, Encodable, MayWrite
  <1>1. r \in FdRecords /\ r.fd = fd /\ w \in Seq(Vals)
    BY SMT, <1>0 DEF FdRecords, BufTypeOK
  <1>2. Ensure(LenOf(hdr[b], w), capacity[b]) \in Nat
    BY <1>0, <1>1, EnsureType, LenType DEF BufTypeOK
  <1>. HIDE DEF r, w
  <1>3. /\ args' = [args EXCEPT ![b] = w]
        /\ capacity' = [capacity EXCEPT ![b] = Ensure(LenOf(hdr[b], w), capacity[b])]
        /\ fds' = [fds EXCEPT ![b] = fds[b] \union {r}] /\ open' = open \union {fd}
        /\ seen' = [seen EXCEPT ![m] = [seen[m] EXCEPT !.args = w, !.fds = seen[m].fds \union {r}]]
        /\ UNCHANGED <<refcount, hdr, holds, msgs>>
    BY DEF pomp_encoder_write_fd, r, w
  <1>4. BufTypeOK'
    <2>1. [seen[m] EXCEPT !.args = w, !.fds = seen[m].fds \union {r}] \in Contents
      BY <1>0, <1>1 DEF BufTypeOK, Contents
    <2>2. seen' \in [Holders -> Contents]
      BY <1>0, <1>3, <2>1 DEF BufTypeOK
    <2>3. args' \in [Bufs -> Seq(Vals)] /\ capacity' \in [Bufs -> Nat]
      BY <1>0, <1>1, <1>2, <1>3 DEF BufTypeOK
    <2>4. fds' \in [Bufs -> SUBSET FdRecords] /\ open' \in SUBSET Fds
      BY <1>0, <1>1, <1>3 DEF BufTypeOK
    <2>. QED  BY <1>0, <1>3, <2>2, <2>3, <2>4 DEF BufTypeOK
  <1>5. MsgTypeOK'
    BY <1>0, <1>3 DEF MsgTypeOK, msgs
  <1>6. RefsMatch'
    BY <1>0, <1>3 DEF RefsMatch, HoldersOf
  <1>7. Owned'
    <2>1. fds'[b] = fds[b] \union {r} /\ \A c \in Bufs \ {b} : fds'[c] = fds[c]
      BY <1>0, <1>3 DEF BufTypeOK
    <2>2. \A c \in Bufs : \A q \in fds[c] : q.fd # fd
      BY <1>0 DEF Owned
    <2>3. \A f : f \in open' <=> \E c \in Bufs : \E q \in fds'[c] : q.fd = f
      BY SMT, <1>0, <1>1, <1>3, <2>1 DEF Owned
    <2>4. \A c \in Bufs : refcount'[c] = 0 => fds'[c] = {}
      <3>1. refcount[b] = 1
        BY <1>0, OnlyHolder
      <3>. QED  BY SMT, <1>0, <1>3, <2>1, <3>1 DEF Owned
    <2>5. \A c, d \in Bufs : \A q \in fds'[c], t \in fds'[d] : q.fd = t.fd => c = d /\ q = t
      BY SMT, <1>0, <1>1, <2>1, <2>2 DEF Owned
    <2>. QED  BY <2>3, <2>4, <2>5 DEF Owned
  <1>8. HolderUndisturbed'
    <2>0. seen[m] = Content(b) /\ seen[m] \in Contents /\ seen'[m] \in Contents
      BY <1>0, <1>4, NullIsNoBuf DEF HolderUndisturbed, BufTypeOK
    <2>1. seen[m].hdr = hdr[b] /\ seen[m].fds = fds[b]
      BY SMT, <2>0 DEF Content
    <2>2. seen'[m] = [seen[m] EXCEPT !.args = w, !.fds = seen[m].fds \union {r}]
      BY <1>0, <1>3 DEF BufTypeOK
    <2>3. seen'[m].hdr = hdr[b] /\ seen'[m].args = w /\ seen'[m].fds = fds[b] \union {r}
      BY <2>0, <2>1, <2>2 DEF Contents
    <2>4. seen'[m] = [hdr |-> seen'[m].hdr, args |-> seen'[m].args, fds |-> seen'[m].fds]
      BY <2>0 DEF Contents
    <2>5. hdr'[b] = hdr[b] /\ args'[b] = w /\ fds'[b] = fds[b] \union {r} /\ holds'[m] = b
      BY <1>0, <1>3 DEF BufTypeOK
    <2>6. seen'[m] = Content(holds[m])'
      BY <2>3, <2>4, <2>5 DEF Content
    <2>7. \A c \in Bufs \ {b} : hdr'[c] = hdr[c] /\ args'[c] = args[c] /\ fds'[c] = fds[c]
      BY <1>0, <1>3 DEF BufTypeOK
    <2>8. \A k \in Holders \ {m} : seen'[k] = seen[k]
      BY <1>0, <1>3 DEF BufTypeOK
    <2>. QED  BY <1>0, <1>3, <2>6, <2>7, <2>8, OthersUndisturbed
  <1>9. StepInv'
    BY <1>3 DEF Inv, StepInv, msgs
  <1>. QED  BY <1>4, <1>5, <1>6, <1>7, <1>8, <1>9, TypeParts DEF Inv

\* pomp_msg_new_with_buffer keeps the invariant.
LEMMA WithBufferStep ==
  ASSUME Inv, NEW m \in Msgs, NEW s \in Slots, pomp_msg_new_with_buffer(m, s) PROVE Inv'
  <1>. DEFINE b == holds[s]
  <1>0. /\ m \in Holders /\ s \in Holders /\ b \in Bufs /\ holds[m] = NULL /\ step[m] = "idle"
        /\ TypeOK /\ BufTypeOK /\ MsgTypeOK /\ RefsMatch /\ Owned /\ HolderUndisturbed
    BY TypeParts DEF Inv, TypeOK, Holders, pomp_msg_new_with_buffer
  <1>1. /\ refcount' = [refcount EXCEPT ![b] = @ + 1] /\ holds' = [holds EXCEPT ![m] = b]
        /\ seen' = [seen EXCEPT ![m] = Content(b)]
        /\ UNCHANGED <<hdr, args, capacity, fds, open, step, init>>
        /\ msgid' = [msgid EXCEPT ![m] = hdr[b].id] /\ finished' = [finished EXCEPT ![m] = TRUE]
    BY DEF pomp_msg_new_with_buffer
  <1>2. RefsMatch' /\ Owned' /\ HolderUndisturbed'
    BY <1>0, <1>1, ShareKeeps
  <1>3. BufTypeOK'
    <2>1. refcount' \in [Bufs -> Nat]
      BY SMT, <1>0, <1>1 DEF BufTypeOK
    <2>2. seen' \in [Holders -> Contents] /\ holds' \in [Holders -> Bufs \union {NULL}]
      BY <1>0, <1>1, ContentType DEF BufTypeOK
    <2>. QED  BY <1>0, <1>1, <2>1, <2>2 DEF BufTypeOK
  <1>4. MsgTypeOK'
    <2>1. hdr[b].id \in Ids \union {NULL}
      BY <1>0 DEF BufTypeOK, Headers
    <2>. QED  BY <1>0, <1>1, <2>1 DEF MsgTypeOK
  <1>5. StepInv'
    <2>1. \A k \in Msgs : step[k] # "idle" => holds'[k] = holds[k]
      BY <1>0, <1>1 DEF BufTypeOK, Holders
    <2>2. \A k \in Msgs : step[k] = "clear" => holds[k] # b
      BY <1>0, ClearedAlone, MsgsAreNotSlots
    <2>3. \A k \in Msgs : step[k] = "clear" => refcount'[holds[k]] = refcount[holds[k]]
      BY SMT, <1>0, <1>1, <2>2 DEF BufTypeOK
    <2>. QED  BY <1>1, <2>1, <2>3, StepInvKept
  <1>. QED  BY <1>2, <1>3, <1>4, <1>5, TypeParts DEF Inv

\* pomp_msg_clear keeps the invariant.
LEMMA MsgClearStep ==
  ASSUME Inv, NEW m \in Msgs, pomp_msg_clear(m) PROVE Inv'
  <1>1. CASE holds[m] = NULL
    <2>1. MsgTypeOK
      BY TypeParts DEF Inv
    <2>2. MsgTypeOK'
      BY <2>1 DEF MsgTypeOK, pomp_msg_clear
    <2>. QED  BY <1>1, <2>2, BufferlessStep DEF pomp_msg_clear
  <1>2. CASE holds[m] # NULL
    BY <1>2, MsgUnrefStep
  <1>. QED  BY <1>1, <1>2

\* pomp_msg_new_copy of a message that has a buffer keeps the invariant.
LEMMA MsgCopyBufferStep ==
  ASSUME Inv, NEW m \in Msgs, NEW src \in Msgs, pomp_msg_new_copy(m, src), holds[src] # NULL
  PROVE  Inv'
  <1>0. /\ m \in Holders /\ src \in Holders /\ holds[src] \in Bufs /\ holds[m] = NULL
        /\ step[m] = "idle" /\ UNCHANGED step /\ TypeOK /\ MsgTypeOK
    BY SMT, TypeParts DEF Inv, TypeOK, Holders, pomp_msg_new_copy
  <1>1. PICK b \in Bufs, dup \in [FdsIn(fds[holds[src]]) -> Fds] : CopyBuffer(m, holds[src], b, dup)
    BY DEF pomp_msg_new_copy
  <1>2. BufTypeOK' /\ RefsMatch' /\ Owned' /\ HolderUndisturbed'
    BY <1>0, <1>1, CopyStep
  <1>3. MsgTypeOK'
    BY <1>0 DEF MsgTypeOK, pomp_msg_new_copy
  <1>4. StepInv'
    BY <1>0, <1>1, NewIsFree DEF CopyBuffer
  <1>. QED  BY <1>2, <1>3, <1>4, TypeParts DEF Inv

\* pomp_msg_new_copy keeps the invariant.
LEMMA MsgCopyStep ==
  ASSUME Inv, NEW m \in Msgs, NEW src \in Msgs, pomp_msg_new_copy(m, src) PROVE Inv'
  <1>1. CASE holds[src] = NULL
    <2>1. MsgTypeOK
      BY TypeParts DEF Inv
    <2>2. MsgTypeOK'
      BY <2>1 DEF MsgTypeOK, pomp_msg_new_copy
    <2>. QED  BY <1>1, <2>2, BufferlessStep DEF pomp_msg_new_copy
  <1>2. CASE holds[src] # NULL
    BY <1>2, MsgCopyBufferStep
  <1>. QED  BY <1>1, <1>2

\* Every step of a message
LEMMA MsgStep ==
  ASSUME Inv, NEW m \in Msgs, MsgNext(m) PROVE Inv'
  <1>1. ASSUME NEW v \in Vals, NEW fd \in Fds, pomp_encoder_write_fd(m, v, fd) PROVE Inv'
    BY <1>1, WriteFdStep
  <1>2. ASSUME NEW s \in Slots, pomp_msg_new_with_buffer(m, s) PROVE Inv'
    BY <1>2, WithBufferStep
  <1>3. ASSUME NEW src \in Msgs, pomp_msg_new_copy(m, src) PROVE Inv'
    BY <1>3, MsgCopyStep
  <1>. QED  BY <1>1, <1>2, <1>3, TestStep, MsgUnrefStep, MsgClearStep, ClearOwnStep, AllocNewStep, MsgWriteStep DEF MsgNext

(***************************************************************************)
(* Finished messages                                                        *)
(***************************************************************************)
\* What message m knows of its own buffer tells that the header in it is right.
KnownSound(m) ==
    /\ step[m] = "idle" /\ holds[m] # NULL
    /\ seen[m].hdr = [id |-> msgid[m], len |-> LenOf(seen[m].hdr, seen[m].args)]

FinishedKnown == \A m \in Msgs : finished[m] => KnownSound(m)

\* A slot touches nothing of a message.
LEMMA SlotLeavesMsgs ==
  ASSUME Inv, NEW s \in Slots, SlotNext(s)
  PROVE  UNCHANGED msgs /\ \A m \in Msgs : seen'[m] = seen[m] /\ holds'[m] = holds[m]
  <1>0. /\ seen \in [Holders -> Contents] /\ holds \in [Holders -> Bufs \union {NULL}]
        /\ \A m \in Msgs : m \in Holders /\ m # s
    BY MsgsAreNotSlots DEF Inv, TypeOK, Holders
  <1>1. /\ UNCHANGED msgs
        /\ (UNCHANGED seen \/ \E x : seen' = [seen EXCEPT ![s] = x])
        /\ (UNCHANGED holds \/ \E x : holds' = [holds EXCEPT ![s] = x])
    <2>1. CASE \E h \in Holders : pomp_buffer_ref(s, h)
      BY <2>1 DEF pomp_buffer_ref
    <2>2. CASE pomp_buffer_unref(s)
      BY <2>2 DEF pomp_buffer_unref, Unref
    <2>3. CASE \E b \in Bufs, cap \in {0, HeaderSize} : pomp_buffer_new(s, b, cap)
      BY <2>3 DEF pomp_buffer_new, NewBuffer
    <2>4. CASE \E b \in Bufs, h \in Holders : pomp_buffer_new_with_data(s, b, h)
      BY <2>4 DEF pomp_buffer_new_with_data, NewBuffer
    <2>5. CASE \E i \in 1 .. MaxArgs, v \in Vals : pomp_buffer_write(s, i, v)
      BY <2>5 DEF pomp_buffer_write, Write
    <2>6. CASE \E h \in Holders : pomp_buffer_append_buffer(s, h)
      BY <2>6 DEF pomp_buffer_append_buffer, Write
    <2>7. CASE \E n \in 0 .. MaxArgs : pomp_buffer_set_len(s, n)
      BY <2>7 DEF pomp_buffer_set_len, Write
    <2>8. CASE \E cap \in {MaxReuse + AllocStep} : pomp_buffer_set_capacity(s, cap)
      BY <2>8 DEF pomp_buffer_set_capacity
    <2>9. CASE \E h \in Holders, b \in Bufs : pomp_buffer_new_copy(s, h, b)
      BY <2>9 DEF pomp_buffer_new_copy, CopyBuffer, NewBuffer
    <2>. QED  BY <2>1, <2>2, <2>3, <2>4, <2>5, <2>6, <2>7, <2>8, <2>9 DEF SlotNext
  <1>. QED  BY <1>0, <1>1

\* A message touches nothing of another one.
LEMMA MsgLeavesOthers ==
  ASSUME Inv, NEW m \in Msgs, MsgNext(m), NEW k \in Msgs, k # m
  PROVE  /\ seen'[k] = seen[k] /\ holds'[k] = holds[k]
         /\ msgid'[k] = msgid[k] /\ finished'[k] = finished[k] /\ step'[k] = step[k]
  <1>0. /\ seen \in [Holders -> Contents] /\ holds \in [Holders -> Bufs \union {NULL}]
        /\ k \in Holders /\ MsgTypeOK
    BY TypeParts DEF Inv, TypeOK, Holders
  <1>1. /\ (UNCHANGED seen \/ \E x : seen' = [seen EXCEPT ![m] = x])
        /\ (UNCHANGED holds \/ \E x : holds' = [holds EXCEPT ![m] = x])
        /\ (UNCHANGED msgid \/ \E x : msgid' = [msgid EXCEPT ![m] = x])
        /\ (UNCHANGED finished \/ \E x : finished' = [finished EXCEPT ![m] = x])
        /\ (UNCHANGED step \/ \E x : step' = [step EXCEPT ![m] = x])
    <2>1. CASE \E id \in Ids : pomp_msg_init(m, id)
      BY <2>1 DEF pomp_msg_init
    <2>2. CASE pomp_msg_clear_partial(m)
      BY <2>2 DEF pomp_msg_clear_partial
    <2>3. CASE TestShared(m)
      BY <2>3 DEF TestShared
    <2>4. CASE DropShared(m)
      BY <2>4 DEF DropShared, Unref
    <2>5. CASE ClearOwn(m)
      BY <2>5 DEF ClearOwn, ClearPartial
    <2>6. CASE AllocNew(m)
      BY <2>6 DEF AllocNew, NewBuffer
    <2>7. CASE \E v \in Vals : pomp_encoder_write(m, v)
      BY <2>7 DEF pomp_encoder_write, Write, msgs
    <2>8. CASE \E v \in Vals, fd \in Fds : pomp_encoder_write_fd(m, v, fd)
      BY <2>8 DEF pomp_encoder_write_fd, msgs
    <2>9. CASE \E v \in Vals : pomp_encoder_write_fd_fails(m, v)
      BY <2>9 DEF pomp_encoder_write_fd_fails, Write, msgs
    <2>10. CASE pomp_msg_finish(m)
      BY <2>10 DEF pomp_msg_finish, Write
    <2>11. CASE pomp_msg_clear(m)
      BY <2>11 DEF pomp_msg_clear, Unref
    <2>12. CASE \E s \in Slots : pomp_msg_new_with_buffer(m, s)
      BY <2>12 DEF pomp_msg_new_with_buffer
    <2>13. CASE \E src \in Msgs : pomp_msg_new_copy(m, src)
      BY ZenonT(30), <2>13 DEF pomp_msg_new_copy, CopyBuffer, NewBuffer
    <2>. QED  BY <2>1, <2>2, <2>3, <2>4, <2>5, <2>6, <2>7, <2>8, <2>9, <2>10, <2>11, <2>12, <2>13
              DEF MsgNext
  <1>. QED  BY <1>0, <1>1 DEF MsgTypeOK

\* A message that is finished, after a step of its own, knows that its header is right.
LEMMA OwnKnown ==
  ASSUME Inv, FinishedKnown, NEW m \in Msgs, MsgNext(m), finished'[m] = TRUE
  PROVE  KnownSound(m)'
  <1>0. /\ TypeOK /\ MsgTypeOK /\ m \in Holders /\ HolderUndisturbed
        /\ seen \in [Holders -> Contents] /\ holds \in [Holders -> Bufs \union {NULL}]
        /\ hdr \in [Bufs -> Headers] /\ args \in [Bufs -> Seq(Vals)]
        /\ finished \in [Msgs -> BOOLEAN]
    BY TypeParts DEF Inv, TypeOK, Holders
  <1>1. step[m] # "idle" => finished[m] = FALSE
    BY <1>0 DEF FinishedKnown, KnownSound
  <1>2. CASE (\E id \in Ids : pomp_msg_init(m, id)) \/ pomp_msg_clear_partial(m) \/ pomp_msg_clear(m)
    <2>1. finished' = [finished EXCEPT ![m] = FALSE]
      BY <1>2 DEF pomp_msg_init, pomp_msg_clear_partial, pomp_msg_clear
    <2>. QED  BY <1>0, <2>1
  <1>3. CASE TestShared(m) \/ DropShared(m) \/ ClearOwn(m) \/ AllocNew(m)
    <2>1. step[m] # "idle" /\ finished' = finished
      BY <1>3 DEF TestShared, DropShared, ClearOwn, AllocNew
    <2>. QED  BY <1>1, <2>1
  <1>4. CASE \/ \E v \in Vals : pomp_encoder_write(m, v) \/ pomp_encoder_write_fd_fails(m, v)
             \/ \E v \in Vals, fd \in Fds : pomp_encoder_write_fd(m, v, fd)
    <2>1. ~finished[m] /\ finished' = finished
      BY <1>4 DEF pomp_encoder_write, pomp_encoder_write_fd_fails, pomp_encoder_write_fd, Encodable, msgs
    <2>. QED  BY <2>1
  <1>5. CASE pomp_msg_finish(m)
    <2>. DEFINE b == holds[m]
                n == HeaderLen(b)
                h == [id |-> msgid[m], len |-> n]
    <2>1. b \in Bufs /\ args[b] \in Seq(Vals) /\ Len(args[b]) \in Nat
      <3>1. holds[m] # NULL
        BY <1>5 DEF pomp_msg_finish, MayWrite
      <3>2. holds[m] \in Bufs
        BY <1>0, <3>1
      <3>3. args[b] \in Seq(Vals)
        BY <1>0, <3>2
      <3>. QED  BY SMT, <3>2, <3>3
    <2>2. n = HeaderSize + Len(args[b])
      <3>. HIDE DEF b
      <3>1. n = IF BufLen(b) < 1 THEN 1 ELSE BufLen(b)
        BY DEF HeaderLen, HeaderSize
      <3>2. CASE hdr[b] = NoHdr /\ args[b] = <<>>
        <4>1. BufLen(b) = 0
          BY <3>2 DEF BufLen, LenOf
        <4>. QED  BY SMT, <3>1, <3>2, <4>1 DEF HeaderSize
      <3>3. CASE ~(hdr[b] = NoHdr /\ args[b] = <<>>)
        <4>1. BufLen(b) = 1 + Len(args[b])
          BY <3>3 DEF BufLen, LenOf, HeaderSize
        <4>. QED  BY SMT, <2>1, <3>1, <4>1 DEF HeaderSize
      <3>. QED  BY <3>2, <3>3
    <2>3. h.len = n /\ NoHdr.len = 0 /\ n # 0
      BY SMT, <2>1, <2>2 DEF NoHdr, HeaderSize
    <2>4. h # NoHdr
      BY <2>3
    <2>5. LenOf(h, args[b]) = n
      BY <2>2, <2>4 DEF LenOf
    <2>6. /\ seen'[m] = [seen[m] EXCEPT !.args = args[b], !.hdr = h]
          /\ holds' = holds /\ step' = step /\ msgid' = msgid /\ step[m] = "idle"
      BY <1>0, <1>5 DEF pomp_msg_finish, Write
    <2>7. seen'[m].hdr = h /\ seen'[m].args = args[b]
      BY SMT, <1>0, <2>6 DEF Contents
    <2>. HIDE DEF h, n
    <2>8. seen'[m].hdr = [id |-> msgid'[m], len |-> LenOf(seen'[m].hdr, seen'[m].args)]
      BY <2>5, <2>6, <2>7 DEF h
    <2>. QED  BY <2>1, <2>6, <2>8, NullIsNoBuf DEF KnownSound, LenOf
  <1>6. CASE \E s \in Slots : pomp_msg_new_with_buffer(m, s)
    <2>1. PICK s \in Slots : pomp_msg_new_with_buffer(m, s)
      BY <1>6
    <2>. DEFINE b == holds[s]
    <2>2. b \in Bufs /\ hdr[b] \in Headers /\ hdr[b].len = BufLen(b)
      BY <1>0, <2>1 DEF pomp_msg_new_with_buffer, Holders
    <2>3. hdr[b] = [id |-> hdr[b].id, len |-> LenOf(hdr[b], args[b])]
      BY <2>2 DEF Headers, BufLen
    <2>4. /\ seen'[m] = Content(b) /\ holds'[m] = b /\ msgid'[m] = hdr[b].id
          /\ step' = step /\ step[m] = "idle"
      BY <1>0, <2>1 DEF pomp_msg_new_with_buffer, MsgTypeOK
    <2>5. seen'[m].hdr = hdr[b] /\ seen'[m].args = args[b]
      <3>1. Content(b).hdr = hdr[b] /\ Content(b).args = args[b]
        BY DEF Content
      <3>. QED  BY ZenonT(30), <2>4, <3>1
    <2>. QED  BY <2>2, <2>3, <2>4, <2>5, NullIsNoBuf DEF KnownSound, LenOf
  <1>7. CASE \E src \in Msgs : pomp_msg_new_copy(m, src)
    <2>1. PICK src \in Msgs : pomp_msg_new_copy(m, src)
      BY <1>7
    <2>2. /\ finished' = [finished EXCEPT ![m] = finished[src]] /\ step' = step /\ step[m] = "idle"
          /\ msgid'[m] = msgid[src] /\ src \in Holders
      BY <1>0, <2>1 DEF pomp_msg_new_copy, MsgTypeOK, Holders
    <2>3. finished[src] = TRUE
      BY <1>0, <2>2
    <2>4. KnownSound(src)
      BY <2>3 DEF FinishedKnown
    <2>. DEFINE c == holds[src]
    <2>5. c \in Bufs /\ seen[src] = Content(c)
      BY <1>0, <2>2, <2>4 DEF KnownSound, HolderUndisturbed
    <2>6. PICK b \in Bufs, dup \in [FdsIn(fds[c]) -> Fds] : CopyBuffer(m, c, b, dup)
      BY <2>1, <2>5, NullIsNoBuf DEF pomp_msg_new_copy
    <2>7. /\ seen'[m] = [Content(c) EXCEPT !.fds = Copied(@, dup)]
          /\ holds'[m] = b
      BY <1>0, <2>6 DEF CopyBuffer, NewBuffer
    <2>8. seen'[m].hdr = seen[src].hdr /\ seen'[m].args = seen[src].args
      BY <2>5, <2>7 DEF Content
    <2>. QED  BY <2>2, <2>4, <2>6, <2>7, <2>8, NullIsNoBuf DEF KnownSound, LenOf
  <1>. QED  BY <1>2, <1>3, <1>4, <1>5, <1>6, <1>7 DEF MsgNext

(***************************************************************************)
(* The invariants                                                           *)
(***************************************************************************)
\* The invariant holds in every reachable state.
LEMMA Invariance == Spec => []Inv
  <1>1. Init => Inv
    <2>. SUFFICES ASSUME Init PROVE Inv
      OBVIOUS
    <2>1. BufTypeOK
      <3>1. NoHdr \in Headers /\ Empty \in Contents
        BY SMT DEF NoHdr, Empty, Headers, Contents
      <3>. QED  BY SMT, <3>1 DEF Init, BufTypeOK
    <2>2. MsgTypeOK
      BY DEF Init, MsgTypeOK
    <2>3. RefsMatch
      <3>1. \A b \in Bufs : HoldersOf(b) = {}
        BY NullIsNoBuf DEF Init, HoldersOf
      <3>. QED  BY <3>1, FS_EmptySet DEF Init, RefsMatch
    <2>4. Owned /\ HolderUndisturbed /\ StepInv
      BY DEF Init, Owned, HolderUndisturbed, StepInv
    <2>. QED  BY <2>1, <2>2, <2>3, <2>4, TypeParts DEF Inv
  <1>2. Inv /\ [Next]_vars => Inv'
    <2>. SUFFICES ASSUME Inv, [Next]_vars PROVE Inv'
      OBVIOUS
    <2>1. CASE UNCHANGED vars
      <3>0. UNCHANGED <<refcount, hdr, args, capacity, fds, open, holds, msgid, finished, step, init, seen>>
        BY <2>1 DEF vars, bufs, msgs
      <3>1. BufTypeOK' /\ MsgTypeOK'
        <4>1. BufTypeOK /\ MsgTypeOK
          BY TypeParts DEF Inv
        <4>2. BufTypeOK'
          BY <3>0, <4>1 DEF BufTypeOK
        <4>3. MsgTypeOK'
          BY <3>0, <4>1 DEF MsgTypeOK
        <4>. QED  BY <4>2, <4>3
      <3>2. RefsMatch' /\ Owned' /\ HolderUndisturbed' /\ StepInv'
        <4>1. RefsMatch'
          BY <3>0 DEF Inv, RefsMatch, HoldersOf
        <4>2. Owned'
          BY SMT, <3>0 DEF Inv, Owned
        <4>3. HolderUndisturbed'
          BY <3>0 DEF Inv, HolderUndisturbed, Content
        <4>4. StepInv'
          BY <3>0 DEF Inv, StepInv
        <4>. QED  BY <4>1, <4>2, <4>3, <4>4
      <3>. QED  BY <3>1, <3>2, TypeParts DEF Inv
    <2>. QED  BY <2>1, SlotStep, MsgStep DEF Next
  <1>. QED  BY <1>1, <1>2, PTL DEF Spec

\* The type invariant of the module
THEOREM BufferType == Spec => []TypeOK
  BY Invariance, PTL DEF Inv

\* Reference counts are exact, for any number of threads, messages and buffers: pomp_buffer_unref
\* frees a buffer with its last reference and not before.
THEOREM RefsExact == Spec => []RefsMatch
  BY Invariance, PTL DEF Inv

\* Every descriptor made by pomp_encoder_write_fd or by a copy is in exactly one allocated buffer as
\* long as it is open: none leaks and none is closed twice.
THEOREM DescriptorsOwned == Spec => []FdsOwned
  BY Invariance, OwnedIff, PTL DEF Inv

\* What is in a buffer does not change under anybody who has a reference on it.
THEOREM NoHolderDisturbed == Spec => []HolderUndisturbed
  BY Invariance, PTL DEF Inv

\* A finished message always has its id and its length in its header, for any number of threads, messages
\* and buffers: what pomp_msg_finish wrote, pomp_msg_new_with_buffer checked or pomp_msg_new_copy copied is
\* not changed by anybody while the message stays finished.
THEOREM FinishedSound == Spec => []FinishedIsSound
  <1>1. Init => FinishedKnown
    <2>. SUFFICES ASSUME Init, NEW m \in Msgs PROVE ~finished[m]
      BY DEF FinishedKnown
    <2>. QED  BY DEF Init
  <1>2. Inv /\ FinishedKnown /\ [Next]_vars => FinishedKnown'
    <2>. SUFFICES ASSUME Inv, FinishedKnown, [Next]_vars, NEW m \in Msgs, finished'[m]
                  PROVE  KnownSound(m)'
      BY DEF FinishedKnown
    <2>0. finished \in [Msgs -> BOOLEAN] /\ finished'[m] \in BOOLEAN
      <3>1. MsgTypeOK /\ Inv'
        <4>1. CASE UNCHANGED vars
          BY <4>1, BufferlessStep, TypeParts DEF Inv, MsgTypeOK, vars, msgs
        <4>2. CASE Next
          BY <4>2, SlotStep, MsgStep, TypeParts DEF Next, Inv
        <4>. QED  BY <4>1, <4>2
      <3>. QED  BY <3>1, TypeParts DEF Inv, MsgTypeOK
    <2>1. CASE \E s \in Slots : SlotNext(s)
      BY <2>1, SlotLeavesMsgs DEF FinishedKnown, KnownSound, LenOf, msgs
    <2>2. CASE \E k \in Msgs : MsgNext(k)
      <3>1. PICK k \in Msgs : MsgNext(k)
        BY <2>2
      <3>2. CASE k = m
        BY <2>0, <3>1, <3>2, OwnKnown
      <3>3. CASE k # m
        BY <3>1, <3>3, MsgLeavesOthers DEF FinishedKnown, KnownSound, LenOf
      <3>. QED  BY <3>2, <3>3
    <2>3. CASE UNCHANGED vars
      BY <2>3 DEF FinishedKnown, KnownSound, LenOf, vars, msgs
    <2>. QED  BY <2>1, <2>2, <2>3 DEF Next
  <1>3. Inv /\ FinishedKnown => FinishedIsSound
    <2>. SUFFICES ASSUME Inv, FinishedKnown, NEW m \in Msgs, finished[m]
                  PROVE  holds[m] # NULL /\ hdr[holds[m]] = [id |-> msgid[m], len |-> BufLen(holds[m])]
      BY DEF FinishedIsSound
    <2>1. KnownSound(m) /\ m \in Holders
      BY DEF FinishedKnown, Holders
    <2>2. seen[m] = Content(holds[m])
      BY <2>1 DEF Inv, HolderUndisturbed, KnownSound
    <2>3. seen[m].hdr = hdr[holds[m]] /\ seen[m].args = args[holds[m]]
      BY SMT, <2>2 DEF Content
    <2>. QED  BY <2>1, <2>3 DEF KnownSound, BufLen
  <1>. QED  BY <1>1, <1>2, <1>3, Invariance, PTL DEF Spec

=============================================================================
