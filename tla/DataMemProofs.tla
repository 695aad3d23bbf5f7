--------------------------- MODULE DataMemProofs ---------------------------
(***************************************************************************)
(* A memory data object never accesses memory outside its blocks, whatever *)
(* the sizes of the writes, the buffers and the allocations.               *)
(***************************************************************************)
EXTENDS DataMem, SequenceTheorems, TLAPS

\* A block is a sequence of its size.
LEMMA BlockLen ==
  ASSUME NEW m \in Bytes, NEW n \in Nat
  PROVE  Block(m, n) \in Bytes /\ Len(Block(m, n)) = n
  BY DEF Block, Bytes

\* Copying changes no length.
LEMMA CopiedLen ==
  ASSUME NEW m \in Bytes, NEW p \in Nat, NEW b \in Seq(Byte)
  PROVE  Copied(m, p, b) \in Bytes /\ Len(Copied(m, p, b)) = Len(m)
<1>1. \A i \in 1..Len(m) :
        (IF p < i /\ i <= p + Len(b) THEN b[i - p] ELSE m[i]) \in Byte \cup {Garbage, Nul}
  BY DEF Bytes
<1> QED BY <1>1 DEF Copied, Bytes

\* The bytes of a write are a sequence.
LEMMA SomeSeq ==
  ASSUME NEW n \in Nat, NEW b \in Some(n)
  PROVE  b \in Seq(Byte) /\ Len(b) <= n
<1>1. PICK k \in 0..n : b \in [1..k -> Byte]
  BY DEF Some
<1> QED BY <1>1

\* The content's memory is a sequence of bytes.
LEMMA StoreType ==
  ASSUME MemInv
  PROVE  Store \in Bytes
  BY DEF MemInv, TypeOK, Store, Bytes

\* Whatever size the allocator grants, a write fits.
LEMMA TriedEnough ==
  ASSUME MemInv, NEW n \in Nat, NEW s \in Tried(n)
  PROVE  s \in Nat /\ s >= offset + n /\ s >= size
  BY DataMemAssumption DEF MemInv, TypeOK, InBounds, Tried, Greatest

\* mem_write keeps the buffer, its size and the offset in step.
LEMMA WriteInBounds ==
  ASSUME MemInv, NEW b \in Seq(Byte), mem_write(b),
         UNCHANGED <<pending, blank, live, fd>>, out' = <<>>
  PROVE  MemInv'
<1>1. PICK s \in Tried(Len(b)) :
        /\ buffer' = Copied(Block(Store, s), offset, b)
        /\ owned' = (owned \/ orig \/ s > 0)
        /\ size' = s
        /\ length' = Greatest(length, offset + Len(b))
        /\ offset' = offset + Len(b)
        /\ UNCHANGED <<orig, given>>
  BY DEF mem_write
<1>2. s \in Nat /\ s >= offset + Len(b) /\ s >= size
  BY TriedEnough
<1>3. buffer' \in Bytes /\ Len(buffer') = s
  <2>1. Block(Store, s) \in Bytes /\ Len(Block(Store, s)) = s
    BY <1>2, StoreType, BlockLen
  <2>2. offset \in Nat
    BY DEF MemInv, TypeOK
  <2> QED BY <1>1, <2>1, <2>2, CopiedLen
<1>4. TypeOK'
  <2>1. owned' \in BOOLEAN
    BY <1>1 DEF MemInv, TypeOK
  <2>2. out' \in Bytes
    BY DEF Bytes
  <2> QED BY <1>1, <1>2, <1>3, <2>1, <2>2 DEF MemInv, TypeOK, Greatest
<1>5. ~owned' /\ ~orig' => given' = <<>>
  BY <1>1 DEF MemInv
<1>6. Len(Store') = size'
  <2>1. CASE owned'
    BY <2>1, <1>1, <1>3 DEF Store
  <2>2. CASE ~owned'
    <3>0. ~(owned \/ orig \/ s > 0)
      BY <2>2, <1>1, Zenon
    <3>1. s = 0 /\ ~orig /\ ~owned
      BY <3>0, <1>2
    <3>2. given' = <<>>
      BY <3>1, <1>1 DEF MemInv
    <3> QED BY <2>2, <3>1, <3>2, <1>1 DEF Store
  <2> QED BY <2>1, <2>2
<1>7. offset' <= length' /\ length' <= size' /\ offset' >= offset
  BY <1>1, <1>2 DEF MemInv, TypeOK, InBounds, Greatest
<1>8. Len(pending') <= BufferSize /\ Len(pending') <= offset'
  BY <1>4, <1>7, DataMemAssumption DEF MemInv, TypeOK, InBounds, Bytes
<1> QED BY <1>4, <1>5, <1>6, <1>7, <1>8 DEF MemInv, InBounds

\* mem_read gives no more than was asked for and than there is.
LEMMA ReadLen ==
  ASSUME NEW n \in Nat, Store \in Bytes, offset \in Nat, length \in Nat,
         offset <= length, length <= Len(Store)
  PROVE  /\ mem_read(n) \in Bytes
         /\ Len(mem_read(n)) <= length - offset
         /\ Len(mem_read(n)) <= n
<1>1. Least(n, length - offset) \in Nat /\ Least(n, length - offset) <= n
      /\ Least(n, length - offset) <= length - offset
  BY DEF Least
<1> DEFINE m == offset + 1
           e == offset + Least(n, length - offset)
<1>2. m \in Int /\ e \in Int /\ 1 <= m /\ e <= Len(Store)
  BY <1>1
<1>3. \A i \in m..e : Store[i] \in Byte \cup {Garbage, Nul}
  <2> TAKE i \in m..e
  <2>1. i \in 1..Len(Store)
    BY <1>2
  <2> QED BY <2>1 DEF Bytes
<1> HIDE DEF m, e
<1>4. /\ SubSeq(Store, m, e) \in Seq(Byte \cup {Garbage, Nul})
      /\ Len(SubSeq(Store, m, e)) = IF m <= e THEN e - m + 1 ELSE 0
  BY <1>2, <1>3, SubSeqProperties
<1>5. mem_read(n) = SubSeq(Store, m, e)
  BY DEF mem_read, m, e
<1>6. Len(SubSeq(Store, m, e)) <= Least(n, length - offset)
  BY <1>1, <1>2, <1>4 DEF m, e
<1> QED BY <1>1, <1>4, <1>5, <1>6 DEF Bytes

\* The objects the program can create are sound.
LEMMA MemInit == Init => MemInv
<1> SUFFICES ASSUME Init PROVE MemInv
  OBVIOUS
<1>1. given \in Seq(Byte)
  <2>1. CASE given = <<>>
    BY <2>1
  <2>2. CASE given \in Some(MaxWrite)
    BY <2>2, SomeSeq, DataMemAssumption
  <2> QED BY <2>1, <2>2 DEF Init
<1>2. TypeOK
  <2>1. owned \in BOOLEAN /\ orig \in BOOLEAN
    BY DEF Init
  <2>2. buffer \in Bytes /\ <<>> \in Bytes
    BY <1>1 DEF Init, Bytes
  <2>3. Len(given) \in Nat
    BY <1>1
  <2> QED BY <1>1, <2>1, <2>2, <2>3 DEF Init, TypeOK
<1>3. InBounds
  <2>1. Store = given
    BY DEF Init, Store
  <2>2. Len(given) \in Nat
    BY <1>1
  <2>3. offset <= length /\ length <= size /\ Len(Store) = size
    BY <2>1, <2>2 DEF Init
  <2>4. pending = <<>> /\ offset = 0
    BY DEF Init
  <2> QED BY <2>3, <2>4, DataMemAssumption DEF InBounds
<1> QED BY <1>2, <1>3 DEF MemInv, Init

\* Every step keeps them sound.
LEMMA MemStep == MemInv /\ [Next]_vars => MemInv'
<1> SUFFICES ASSUME MemInv, [Next]_vars PROVE MemInv'
  OBVIOUS
<1> USE DataMemAssumption
<1>1. ASSUME NEW b \in Some(MaxWrite), Write(b) PROVE MemInv'
  BY <1>1, WriteInBounds, SomeSeq DEF Write
<1>2. ASSUME NEW b \in Some(MaxWrite), Inbound(b) PROVE MemInv'
  BY <1>2, WriteInBounds, SomeSeq DEF Inbound
<1>3. ASSUME NEW n \in 0..MaxWrite, Read(n) PROVE MemInv'
  <2>1. Store \in Bytes /\ offset \in Nat /\ length \in Nat /\ offset <= length
        /\ length <= Len(Store)
    BY StoreType DEF MemInv, TypeOK, InBounds
  <2>2. mem_read(n) \in Bytes /\ Len(mem_read(n)) <= length - offset
    <3>1. n \in Nat
      OBVIOUS
    <3> QED BY <3>1, <2>1, ReadLen
  <2>3. out' \in Bytes /\ Len(out') \in Nat /\ offset + Len(out') <= length
    BY <1>3, <2>1, <2>2 DEF Read, Bytes
  <2>4. offset' = offset + Len(out') /\ UNCHANGED <<mem, pending, blank, fd, live>>
    BY <1>3 DEF Read
  <2>5. TypeOK'
    BY <2>1, <2>3, <2>4 DEF MemInv, TypeOK, mem
  <2>6. InBounds'
    BY <2>1, <2>3, <2>4 DEF MemInv, TypeOK, InBounds, mem, Store, Bytes
  <2> QED BY <2>4, <2>5, <2>6 DEF MemInv, mem
<1>4. ASSUME NEW n \in 0..MaxWrite, Outbound(n) PROVE MemInv'
  <2> DEFINE more == IF pending = <<>> /\ ~blank THEN mem_read(BufferSize) ELSE <<>>
             p    == pending \o more
  <2>1. Store \in Bytes /\ offset \in Nat /\ length \in Nat /\ offset <= length
        /\ length <= Len(Store) /\ pending \in Bytes
    BY StoreType DEF MemInv, TypeOK, InBounds
  <2>2. /\ mem_read(BufferSize) \in Bytes
        /\ Len(mem_read(BufferSize)) <= length - offset
        /\ Len(mem_read(BufferSize)) <= BufferSize
    BY <2>1, ReadLen
  <2>3. more \in Bytes /\ Len(more) \in Nat /\ offset + Len(more) <= length
        /\ (pending # <<>> => more = <<>>) /\ Len(more) <= BufferSize
    BY <2>1, <2>2 DEF Bytes
  <2>4. p \in Bytes /\ Len(p) = Len(pending) + Len(more)
    BY <2>1, <2>3 DEF Bytes
  <2>5. n <= Len(p) /\ offset' = offset + Len(more) /\ out' = SubSeq(p, 1, n)
        /\ pending' = SubSeq(p, n + 1, Len(p)) /\ UNCHANGED <<mem, blank, fd, live>>
    BY <1>4 DEF Outbound, rest
  <2>6. out' \in Bytes /\ pending' \in Bytes /\ Len(pending') <= Len(p)
    <3> HIDE DEF p
    <3>1. p \in Bytes /\ Len(p) \in Nat /\ n \in Nat /\ n <= Len(p)
      BY <2>4, <2>5 DEF Bytes
    <3>2. SubSeq(p, 1, n) \in Bytes
      BY <3>1 DEF Bytes
    <3>3. SubSeq(p, n + 1, Len(p)) \in Bytes /\ Len(SubSeq(p, n + 1, Len(p))) = Len(p) - n
      BY <3>1 DEF Bytes
    <3> QED BY <2>5, <3>1, <3>2, <3>3
  <2>7. Len(p) <= BufferSize /\ Len(p) <= offset'
    <3>1. CASE pending = <<>>
      BY <3>1, <2>1, <2>3, <2>4, <2>5
    <3>2. CASE pending # <<>>
      <4>1. Len(more) = 0
        BY <3>2, <2>3
      <4> QED BY <4>1, <2>1, <2>4, <2>5 DEF MemInv, InBounds, Bytes
    <3> QED BY <3>1, <3>2
  <2>8. TypeOK'
    BY <2>1, <2>3, <2>5, <2>6 DEF MemInv, TypeOK, mem
  <2>9. offset' <= length' /\ length' <= size' /\ Len(Store') = size'
    BY <2>1, <2>3, <2>5 DEF MemInv, TypeOK, InBounds, mem, Store
  <2>10. Len(pending') <= BufferSize /\ Len(pending') <= offset'
    BY <2>1, <2>3, <2>4, <2>5, <2>6, <2>7 DEF Bytes
  <2> QED BY <2>5, <2>8, <2>9, <2>10 DEF MemInv, InBounds, mem
<1>5. ASSUME NEW o \in (-MaxLength)..MaxLength, NEW whence \in {"SET", "CUR", "END"},
             Seek(o, whence)
      PROVE  MemInv'
  <2> DEFINE r == relative(o, whence)
             q == mem_seek(r, whence)
  <2>1. offset \in Nat /\ length \in Nat /\ offset <= length /\ Len(pending) \in Nat
    BY DEF MemInv, TypeOK, InBounds, Bytes
  <2>2. r \in Int
    BY <2>1 DEF relative
  <2>3. q = -1 \/ (q \in Nat /\ q <= length)
    <3>1. CASE whence = "SET"
      BY <3>1, <2>1, <2>2 DEF mem_seek
    <3>2. CASE whence = "CUR"
      BY <3>2, <2>1, <2>2 DEF mem_seek
    <3>3. CASE whence = "END"
      BY <3>3, <2>1, <2>2 DEF mem_seek
    <3> QED BY <3>1, <3>2, <3>3
  <2>4. offset' \in Nat /\ offset' <= length /\ pending' = <<>> /\ out' = <<>>
        /\ UNCHANGED <<mem, blank, fd, live>>
    BY <1>5, <2>3 DEF Seek
  <2>5. TypeOK'
    BY <2>1, <2>4 DEF MemInv, TypeOK, mem, Bytes
  <2>6. InBounds'
    BY <2>1, <2>4 DEF MemInv, TypeOK, InBounds, mem, Store
  <2> QED BY <2>4, <2>5, <2>6 DEF MemInv, mem
<1>6. CASE ReleaseAndGetMem
  <2>1. Store \in Bytes /\ length \in Nat /\ length <= Len(Store)
    BY StoreType DEF MemInv, TypeOK, InBounds
  <2>2. Content \in Bytes
    BY <2>1 DEF Content, Bytes
  <2>3. SubSeq(<<Nul>>, 1, Least(length, 1)) \in Bytes
    BY <2>1 DEF Least, Bytes
  <2>4. out' \in Bytes
    BY <1>6, <2>2, <2>3 DEF ReleaseAndGetMem
  <2>5. UNCHANGED <<mem, offset, pending, blank, fd>> /\ live' = FALSE
    BY <1>6 DEF ReleaseAndGetMem
  <2> QED BY <2>4, <2>5 DEF MemInv, TypeOK, InBounds, mem, Store
<1>7. ASSUME NEW dir \in {"in", "out"}, Attach(dir) PROVE MemInv'
  BY <1>7 DEF Attach, mem, MemInv, TypeOK, InBounds, Store, Bytes
<1>8. CASE OutboundEnd \/ Detach \/ Blankout
  <2>1. UNCHANGED <<mem, offset, pending, live>> /\ out' = <<>>
        /\ blank' \in BOOLEAN /\ fd' \in {"none", "in", "out"}
    BY <1>8 DEF OutboundEnd, Detach, Blankout, MemInv, TypeOK
  <2> QED BY <2>1 DEF mem, MemInv, TypeOK, InBounds, Store, Bytes
<1>9. CASE UNCHANGED vars
  BY <1>9 DEF vars, mem, MemInv, TypeOK, InBounds, Store
<1> QED BY <1>1, <1>2, <1>3, <1>4, <1>5, <1>6, <1>7, <1>8, <1>9 DEF Next

\* A memory object of any size, grown, copied, sought, sent and filled in
\* any order, is never accessed out of bounds.
THEOREM MemSafe == Spec => []MemInv
  BY MemInit, MemStep, PTL DEF Spec
=============================================================================
