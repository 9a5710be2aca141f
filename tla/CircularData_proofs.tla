------------------------- MODULE CircularData_proofs -------------------------
(***************************************************************************)
(* Proofs about CircularData: offsets and blocks stay in the buffer, for    *)
(* every set of block sizes; when every block has the configured payload    *)
(* size and the connection owns at most as many nodes as the buffer has     *)
(* units, allocation never overlaps a block in use and never fails, for     *)
(* every buffer size and however frees and rollbacks are interleaved.       *)
(***************************************************************************)
EXTENDS CircularData, SequenceTheorems, TLAPS

(* An offset at the very end of the buffer stands for its beginning.        *)
Wrapped(offset) == IF offset = BufferSize THEN 0 ELSE offset

(* The k-th unit behind an offset.                                          *)
Behind(t, k) ==
    IF Wrapped(t) + k < BufferSize THEN Wrapped(t) + k
                                   ELSE Wrapped(t) + k - BufferSize

BlockType == [at : 0..(BufferSize - 1), size : {1}]

OffsetsOK ==
    /\ head \in 0..BufferSize /\ tail \in 0..BufferSize
    /\ lastHead \in 0..(BufferSize - 1)

LiveOK == live \in Seq(BlockType) /\ Len(live) <= MaxBlocks /\ pending \in BOOLEAN

(* The blocks in use follow each other from the tail, and head is behind    *)
(* them.                                                                    *)
Contiguous ==
    /\ \A i \in 1..Len(live) : live[i].at = Behind(tail, i - 1)
    /\ Wrapped(head) = Behind(tail, Len(live))

(* The last allocation is the newest block, or it was rolled back.          *)
LastAllocation ==
    \/ Len(live) > 0 /\ live[Len(live)].at = lastHead /\ head = lastHead + 1
    \/ ~pending /\ head = lastHead /\ Len(live) < BufferSize

IInv == OffsetsOK /\ LiveOK /\ Contiguous /\ LastAllocation

FixedSize == Sizes = {1} /\ MaxBlocks <= BufferSize

-----------------------------------------------------------------------------
LEMMA InitIInv ==
  ASSUME FixedSize, Init PROVE IInv
<1>1. /\ BufferSize \in Nat \ {0} /\ MaxBlocks \in Nat
      /\ live = <<>> /\ Len(live) = 0
  BY CircularDataAssumption DEF Init
<1>2. OffsetsOK
  BY <1>1 DEF Init, OffsetsOK
<1>3. LiveOK
  <2>1. live \in Seq(BlockType)
    BY <1>1
  <2>2. Len(live) <= MaxBlocks
    BY <1>1
  <2>3. pending \in BOOLEAN
    BY Zenon DEF Init
  <2> QED BY <2>1, <2>2, <2>3 DEF LiveOK
<1>4. Contiguous
  BY <1>1 DEF Init, Contiguous, Behind, Wrapped
<1>5. LastAllocation
  BY <1>1 DEF Init, LastAllocation
<1> QED BY <1>2, <1>3, <1>4, <1>5 DEF IInv

(* A connection that may own one more node finds room behind the newest     *)
(* block, at the head.                                                      *)
LEMMA PlaceIsHead ==
  ASSUME FixedSize, IInv, Len(live) < MaxBlocks
  PROVE  /\ Place(1) = Wrapped(head)
         /\ Place(1) \in 0..(BufferSize - 1)
         /\ Place(1) # NoSpace
<1>1. Len(live) \in Nat /\ BufferSize \in Nat \ {0} /\ MaxBlocks \in Nat
  BY CircularDataAssumption DEF IInv, LiveOK
<1>2. CASE head = BufferSize
  <2>1. tail # 0
    <3>1. Len(live) > 0
      BY <1>1, <1>2 DEF IInv, LastAllocation, OffsetsOK
    <3>2. SUFFICES ASSUME tail = 0 PROVE FALSE
      OBVIOUS
    <3>3. Behind(tail, Len(live)) = Len(live)
      BY <1>1, <3>2 DEF Behind, Wrapped, FixedSize
    <3> QED BY <1>1, <1>2, <3>1, <3>3 DEF IInv, Contiguous, Wrapped
  <2> QED BY <1>1, <1>2, <2>1 DEF Place, Wrapped, NoSpace, IInv, OffsetsOK
<1>3. CASE head # BufferSize
  <2>1. head \in 0..(BufferSize - 1) /\ tail \in 0..BufferSize
    BY <1>1, <1>3 DEF IInv, OffsetsOK
  <2> QED BY <1>1, <1>3, <2>1 DEF Place, Wrapped, NoSpace
<1> QED BY <1>2, <1>3

LEMMA AllocateIInv ==
  ASSUME FixedSize, IInv, Allocate(1) PROVE IInv'
<1> DEFINE at == Place(1)
<1>1. /\ BufferSize \in Nat \ {0} /\ MaxBlocks \in Nat /\ Len(live) \in Nat
      /\ Len(live) < MaxBlocks /\ MaxBlocks <= BufferSize
  BY CircularDataAssumption DEF FixedSize, IInv, LiveOK, Allocate, MayAllocate
<1>2. at = Wrapped(head) /\ at \in 0..(BufferSize - 1)
  BY <1>1, PlaceIsHead
<1>3. /\ lastHead' = at /\ head' = at + 1 /\ tail' = tail /\ pending' = TRUE
      /\ live' = Append(live, Block(at, 1))
  BY DEF Allocate, TakePlace
<1> HIDE DEF at
<1>4. live \in Seq(BlockType) /\ Block(at, 1) \in BlockType
  BY <1>2 DEF IInv, LiveOK, BlockType, Block
<1>5. /\ live' \in Seq(BlockType) /\ Len(live') = Len(live) + 1
      /\ \A i \in 1..Len(live) : live'[i] = live[i]
      /\ live'[Len(live) + 1] = Block(at, 1)
  BY <1>3, <1>4
<1>7. Wrapped(tail) \in 0..(BufferSize - 1)
  BY <1>1 DEF Wrapped, IInv, OffsetsOK
<1>8. OffsetsOK' /\ LiveOK'
  BY <1>1, <1>2, <1>3, <1>5 DEF OffsetsOK, LiveOK, IInv
<1>9. Contiguous'
  <2>1. \A i \in 1..Len(live') : live'[i].at = Behind(tail, i - 1)
    <3> SUFFICES ASSUME NEW i \in 1..Len(live') PROVE live'[i].at = Behind(tail, i - 1)
      OBVIOUS
    <3>1. CASE i \in 1..Len(live)
      BY <1>5, <3>1 DEF IInv, Contiguous
    <3>2. CASE i = Len(live) + 1
      BY <1>1, <1>2, <1>5, <3>2 DEF IInv, Contiguous, Block
    <3> QED BY <1>1, <1>5, <3>1, <3>2
  <2>2. Wrapped(head') = Behind(tail, Len(live) + 1)
    <3>1. Behind(tail, Len(live)) = at
      BY <1>2 DEF IInv, Contiguous
    <3>2. Wrapped(head') = IF at + 1 = BufferSize THEN 0 ELSE at + 1
      BY <1>3 DEF Wrapped
    <3> QED BY <1>1, <1>2, <1>7, <3>1, <3>2, SMTT(30) DEF Behind
  <2> QED BY <1>3, <1>5, <2>1, <2>2 DEF Contiguous
<1>10. LastAllocation'
  BY <1>1, <1>3, <1>5 DEF LastAllocation, Block
<1> QED BY <1>8, <1>9, <1>10 DEF IInv

(* The newest block is given back: head returns to where it was.            *)
LEMMA DropPendingIInv ==
  ASSUME FixedSize, IInv, DropPending PROVE IInv'
<1> DEFINE L == Len(live)
<1>1. /\ BufferSize \in Nat \ {0} /\ MaxBlocks \in Nat /\ L \in Nat
      /\ L <= MaxBlocks /\ MaxBlocks <= BufferSize
  BY CircularDataAssumption DEF FixedSize, IInv, LiveOK
<1>2. pending /\ L > 0 /\ live[L].at = lastHead /\ head = lastHead + 1
  BY DEF DropPending, IInv, LastAllocation
<1>3. /\ head' = lastHead /\ tail' = tail /\ lastHead' = lastHead
      /\ pending' = FALSE /\ live' = SubSeq(live, 1, L - 1)
  BY <1>2 DEF DropPending, Free, IsRollback, Rollback
<1>4. /\ live' \in Seq(BlockType) /\ Len(live') = L - 1
      /\ \A i \in 1..(L - 1) : live'[i] = live[i]
  <2>1. /\ 1 \in Int /\ L - 1 \in Int
        /\ \A i \in 1..(L - 1) : live[i] \in BlockType
    BY <1>1 DEF IInv, LiveOK
  <2>2. /\ SubSeq(live, 1, L - 1) \in Seq(BlockType)
        /\ Len(SubSeq(live, 1, L - 1)) = L - 1
        /\ \A i \in 1..(L - 1) : SubSeq(live, 1, L - 1)[i] = live[i]
    <3>1. /\ SubSeq(live, 1, L - 1) \in Seq(BlockType)
          /\ Len(SubSeq(live, 1, L - 1)) =
                IF 1 <= L - 1 THEN (L - 1) - 1 + 1 ELSE 0
          /\ \A i \in 1..((L - 1) - 1 + 1) :
                SubSeq(live, 1, L - 1)[i] = live[1 + i - 1]
      BY <2>1, SubSeqProperties
    <3> HIDE DEF L
    <3> QED BY <1>1, <1>2, <3>1
  <2> QED BY <1>3, <2>2
<1>5. OffsetsOK' /\ LiveOK' /\ LastAllocation'
  <2>1. OffsetsOK'
    BY <1>1, <1>3 DEF IInv, OffsetsOK
  <2>2. LiveOK'
    <3>1. Len(live') <= MaxBlocks
      BY <1>1, <1>4
    <3>2. pending' \in BOOLEAN
      BY <1>3, Zenon
    <3> QED BY <1>4, <3>1, <3>2 DEF LiveOK
  <2>3. LastAllocation'
    <3>1. Len(live') < BufferSize /\ head' = lastHead' /\ ~pending'
      BY <1>1, <1>3, <1>4
    <3> QED BY <3>1 DEF LastAllocation
  <2> QED BY <2>1, <2>2, <2>3
<1>6. Contiguous'
  <2>1. \A i \in 1..Len(live') : live'[i].at = Behind(tail, i - 1)
    BY <1>1, <1>4 DEF IInv, Contiguous
  <2>2. Wrapped(head') = Behind(tail, L - 1)
    <3>1. lastHead = Behind(tail, L - 1)
      BY <1>1, <1>2 DEF IInv, Contiguous
    <3> QED BY <1>1, <1>3, <3>1 DEF Wrapped, IInv, OffsetsOK
  <2> QED BY <1>3, <1>4, <2>1, <2>2 DEF Contiguous
<1> QED BY <1>5, <1>6 DEF IInv

(* Two blocks in use never start at the same offset.                        *)
LEMMA Distinct ==
  ASSUME FixedSize, IInv, NEW i \in 1..Len(live), NEW j \in 1..Len(live),
         live[i].at = live[j].at
  PROVE  i = j
<1>1. /\ BufferSize \in Nat \ {0} /\ Len(live) \in Nat /\ Len(live) <= BufferSize
  BY CircularDataAssumption DEF FixedSize, IInv, LiveOK
<1>2. Wrapped(tail) \in 0..(BufferSize - 1)
  BY <1>1 DEF Wrapped, IInv, OffsetsOK
<1>3. Behind(tail, i - 1) = Behind(tail, j - 1)
  BY DEF IInv, Contiguous
<1> QED BY <1>1, <1>2, <1>3 DEF Behind

(* The oldest block is freed: as the only block by a rollback, else the     *)
(* tail moves on.                                                           *)
LEMMA FreeOldestIInv ==
  ASSUME FixedSize, IInv, FreeOldest PROVE IInv'
<1> DEFINE L == Len(live)
<1>1. /\ BufferSize \in Nat \ {0} /\ MaxBlocks \in Nat /\ L \in Nat
      /\ L <= MaxBlocks /\ MaxBlocks <= BufferSize /\ L > 0
      /\ live \in Seq(BlockType) /\ pending \in BOOLEAN
  BY CircularDataAssumption DEF FixedSize, IInv, LiveOK, FreeOldest, Queued
<1>2. pending => L > 1
  BY <1>1 DEF FreeOldest, Queued
<1>3. Head(live) = live[1] /\ live[1].size = 1
  <2>1. live[1] \in BlockType
    BY <1>1
  <2> QED BY <1>1, <2>1 DEF BlockType
<1>4. /\ live' = Tail(live) /\ live' \in Seq(BlockType) /\ Len(live') = L - 1
      /\ \A i \in 1..(L - 1) : live'[i] = live[i + 1]
      /\ lastHead' = lastHead /\ pending' = pending
  BY <1>1 DEF FreeOldest
<1>5. Wrapped(tail) \in 0..(BufferSize - 1)
  BY <1>1 DEF Wrapped, IInv, OffsetsOK
<1>6. live[1].at = Wrapped(tail)
  <2>1. live[1].at = Behind(tail, 0)
    BY <1>1 DEF IInv, Contiguous
  <2> QED BY <1>1, <1>5, <2>1 DEF Behind
<1>7. LiveOK'
  BY <1>1, <1>4 DEF LiveOK
<1>8. CASE IsRollback(live[1])
  <2>1. head' = lastHead /\ tail' = tail /\ live[1].at = lastHead
    BY <1>3, <1>8 DEF FreeOldest, Free, IsRollback, Rollback
  <2>2. L = 1
    <3>1. CASE live[L].at = lastHead
      <4>1. 1 \in 1..Len(live) /\ L \in 1..Len(live)
        BY <1>1
      <4> QED BY <2>1, <3>1, <4>1, Distinct
    <3>2. CASE head = lastHead /\ L < BufferSize
      <4>1. Wrapped(head) = head
        BY <1>1, <3>2 DEF Wrapped, IInv, OffsetsOK
      <4>2. Wrapped(tail) = Behind(tail, L)
        BY <1>6, <2>1, <3>2, <4>1 DEF IInv, Contiguous
      <4> QED BY <1>1, <1>5, <3>2, <4>2 DEF Behind
    <3> QED BY <3>1, <3>2 DEF IInv, LastAllocation
  <2>3. OffsetsOK'
    BY <1>1, <1>4, <2>1 DEF IInv, OffsetsOK
  <2>4. LastAllocation'
    BY <1>1, <1>2, <1>4, <2>1, <2>2 DEF LastAllocation
  <2>5. Contiguous'
    <3>1. Wrapped(head') = Behind(tail, 0)
      BY <1>1, <1>5, <1>6, <2>1 DEF Behind, Wrapped, IInv, OffsetsOK
    <3> QED BY <1>4, <2>1, <2>2, <3>1 DEF Contiguous
  <2> QED BY <1>7, <2>3, <2>4, <2>5 DEF IInv
<1>9. CASE ~IsRollback(live[1])
  <2>1. TailFor(1) = Wrapped(tail)
    BY <1>1 DEF TailFor, Wrapped, IInv, OffsetsOK
  <2>2. head' = head /\ tail' = Wrapped(tail) + 1
    BY <1>3, <1>6, <1>9, <2>1 DEF FreeOldest, Free, Release
  <2>3. OffsetsOK'
    BY <1>1, <1>4, <1>5, <2>2 DEF IInv, OffsetsOK
  <2>4. \A k \in 0..(L - 1) : Behind(tail', k) = Behind(tail, k + 1)
    <3>1. Wrapped(tail') = IF Wrapped(tail) + 1 = BufferSize THEN 0
                                                       ELSE Wrapped(tail) + 1
      BY <2>2 DEF Wrapped
    <3> QED BY <1>1, <1>5, <3>1 DEF Behind
  <2>5. Contiguous'
    <3>1. \A i \in 1..(L - 1) : live'[i].at = Behind(tail', i - 1)
      <4> SUFFICES ASSUME NEW i \in 1..(L - 1)
                   PROVE  live'[i].at = Behind(tail', i - 1)
        OBVIOUS
      <4>1. live'[i].at = Behind(tail, (i + 1) - 1)
        BY <1>1, <1>4 DEF IInv, Contiguous
      <4>2. i - 1 \in 0..(L - 1) /\ (i - 1) + 1 = (i + 1) - 1
        BY <1>1
      <4> QED BY <2>4, <4>1, <4>2
    <3>2. Wrapped(head') = Behind(tail', L - 1)
      <4>1. L - 1 \in 0..(L - 1) /\ (L - 1) + 1 = L
        BY <1>1
      <4> QED BY <2>2, <2>4, <4>1 DEF IInv, Contiguous
    <3> QED BY <1>4, <3>1, <3>2 DEF Contiguous
  <2>6. LastAllocation'
    <3>1. CASE live[L].at = lastHead /\ head = lastHead + 1
      <4>1. L # 1
        BY <1>9, <3>1 DEF IsRollback
      <4>2. live'[L - 1] = live[L]
        BY <1>1, <1>4, <4>1
      <4> QED BY <1>1, <1>4, <2>2, <3>1, <4>1, <4>2 DEF LastAllocation
    <3>2. CASE ~pending /\ head = lastHead /\ L < BufferSize
      BY <1>1, <1>4, <2>2, <3>2 DEF LastAllocation
    <3> QED BY <3>1, <3>2 DEF IInv, LastAllocation
  <2> QED BY <1>7, <2>3, <2>5, <2>6 DEF IInv
<1> QED BY <1>8, <1>9

LEMMA EnqueueNodeIInv ==
  ASSUME FixedSize, IInv, EnqueueNode PROVE IInv'
<1>1. /\ head' = head /\ tail' = tail /\ lastHead' = lastHead /\ live' = live
      /\ pending' = FALSE
  BY DEF EnqueueNode
<1>2. OffsetsOK' /\ Contiguous'
  BY <1>1 DEF IInv, OffsetsOK, Contiguous
<1>3. LiveOK'
  BY <1>1, Zenon DEF IInv, LiveOK
<1>4. LastAllocation'
  BY <1>1 DEF IInv, LastAllocation
<1> QED BY <1>2, <1>3, <1>4 DEF IInv

-----------------------------------------------------------------------------
(* Blocks in use lie in the buffer and do not overlap.                      *)
LEMMA IInvNoOverlap ==
  ASSUME FixedSize, IInv PROVE NoOverlap
<1>1. /\ BufferSize \in Nat \ {0} /\ DOMAIN live = 1..Len(live)
      /\ live \in Seq(BlockType)
  BY CircularDataAssumption DEF IInv, LiveOK
<1>2. \A i \in DOMAIN live : live[i].at \in 0..(BufferSize - 1) /\ live[i].size = 1
  <2> SUFFICES ASSUME NEW i \in DOMAIN live
               PROVE  live[i].at \in 0..(BufferSize - 1) /\ live[i].size = 1
    OBVIOUS
  <2>1. live[i] \in BlockType
    BY <1>1
  <2> QED BY <2>1 DEF BlockType
<1>3. ASSUME NEW i \in DOMAIN live, NEW j \in DOMAIN live, i # j
      PROVE  Apart(live[i], live[j])
  <2>1. live[i].at # live[j].at
    BY <1>1, <1>3, Distinct
  <2> QED BY <1>1, <1>2, <2>1 DEF Apart
<1>4. \A i \in DOMAIN live : live[i].at + live[i].size <= BufferSize
  BY <1>1, <1>2
<1> QED BY <1>3, <1>4 DEF NoOverlap

(* There is room whenever a node is left.                                   *)
LEMMA IInvNeverStarved ==
  ASSUME FixedSize, IInv PROVE NeverStarved
BY PlaceIsHead DEF NeverStarved, MayAllocate, FixedSize

(* The invariant is inductive.                                              *)
LEMMA NextIInv ==
  ASSUME FixedSize, IInv, [Next]_vars PROVE IInv'
<1>1. CASE \E size \in Sizes : Allocate(size)
  BY <1>1, AllocateIInv DEF FixedSize
<1>2. CASE EnqueueNode
  BY <1>2, EnqueueNodeIInv
<1>3. CASE DropPending
  BY <1>3, DropPendingIInv
<1>4. CASE FreeOldest
  BY <1>4, FreeOldestIInv
<1>5. CASE UNCHANGED vars
  BY <1>5, Zenon DEF vars, IInv, OffsetsOK, LiveOK, Contiguous, LastAllocation
<1> QED BY <1>1, <1>2, <1>3, <1>4, <1>5 DEF Next

(* For every buffer of fixed-size blocks with a node per block at most, no  *)
(* allocation (xlayer_circular_data_allocate_space) ever returns memory     *)
(* that is in use.                                                          *)
THEOREM NeverOverlaps ==
  ASSUME FixedSize PROVE Spec => []NoOverlap
<1>1. Init => IInv
  BY InitIInv
<1>2. IInv /\ [Next]_vars => IInv'
  BY NextIInv
<1>3. IInv => NoOverlap
  BY IInvNoOverlap
<1> QED BY <1>1, <1>2, <1>3, PTL DEF Spec

(* Under the same condition no allocation fails while a node is left: no    *)
(* free is ignored and no rollback leaks memory.                            *)
THEOREM AlwaysRoom ==
  ASSUME FixedSize PROVE Spec => []NeverStarved
<1>1. Init => IInv
  BY InitIInv
<1>2. IInv /\ [Next]_vars => IInv'
  BY NextIInv
<1>3. IInv => NeverStarved
  BY IInvNeverStarved
<1> QED BY <1>1, <1>2, <1>3, PTL DEF Spec
-----------------------------------------------------------------------------
(* The types hold for every set of block sizes and for every order of       *)
(* frees: where a block is placed bounds head, and TailFor bounds tail.      *)
LEMMA PlaceInside ==
  ASSUME TypeOK, NEW size \in Sizes, Place(size) # NoSpace
  PROVE  /\ Place(size) \in 0..(BufferSize - 1)
         /\ Place(size) + size \in 0..BufferSize
<1>1. /\ BufferSize \in Nat \ {0} /\ size \in 1..BufferSize
      /\ head \in 0..BufferSize /\ tail \in 0..BufferSize
  BY CircularDataAssumption DEF TypeOK
<1>2. CASE head >= tail /\ BufferSize - head >= size
  BY <1>1, <1>2 DEF Place
<1>3. CASE head >= tail /\ BufferSize - head < size /\ tail >= size
  BY <1>1, <1>3 DEF Place
<1>4. CASE head < tail /\ tail - head >= size
  BY <1>1, <1>4 DEF Place
<1>5. ~(head >= tail /\ BufferSize - head >= size)
      /\ ~(head >= tail /\ BufferSize - head < size /\ tail >= size)
      /\ ~(head < tail /\ tail - head >= size) => Place(size) = NoSpace
  BY DEF Place
<1> QED BY <1>2, <1>3, <1>4, <1>5

AnyBlock == [at : 0..(BufferSize - 1), size : Sizes]

LEMMA FreeTypes ==
  ASSUME TypeOK, NEW block \in AnyBlock, Free(block)
  PROVE  head' \in 0..BufferSize /\ tail' \in 0..BufferSize
<1>1. /\ BufferSize \in Nat \ {0} /\ block.size \in 1..BufferSize
      /\ head \in 0..BufferSize /\ tail \in 0..BufferSize /\ lastHead \in 0..BufferSize
  BY CircularDataAssumption DEF TypeOK, AnyBlock
<1>2. CASE Rollback
  BY <1>1, <1>2 DEF Rollback
<1>3. CASE Release(block)
  <2>1. TailFor(block.size) + block.size \in 0..BufferSize
    BY <1>1 DEF TailFor
  <2> QED BY <1>1, <1>3, <2>1 DEF Release
<1> QED BY <1>2, <1>3 DEF Free

(* A block that waits for its queue is in use.                              *)
Typed == TypeOK /\ (pending => Len(live) > 0)

LEMMA TypeStep == Typed /\ [Next]_vars => Typed'
<1> SUFFICES ASSUME TypeOK, pending => Len(live) > 0, [Next]_vars
             PROVE  TypeOK' /\ (pending => Len(live) > 0)'
  BY DEF Typed
<1>1. live \in Seq(AnyBlock) /\ Len(live) \in Nat /\ Len(live) <= MaxBlocks /\ MaxBlocks \in Nat
  BY CircularDataAssumption DEF TypeOK, AnyBlock
<1>2. ASSUME NEW size \in Sizes, Allocate(size) PROVE TypeOK' /\ Len(live') > 0
  <2> DEFINE at == Place(size)
  <2>1. at \in 0..(BufferSize - 1) /\ at + size \in 0..BufferSize
    BY <1>2, PlaceInside DEF Allocate
  <2>2. /\ lastHead' = at /\ head' = at + size /\ tail' = tail /\ pending' = TRUE
        /\ live' = Append(live, Block(at, size)) /\ Len(live) < MaxBlocks
    BY <1>2 DEF Allocate, TakePlace, MayAllocate
  <2> HIDE DEF at
  <2>3. Block(at, size) \in AnyBlock
    BY <2>1 DEF Block, AnyBlock
  <2>4. live' \in Seq(AnyBlock) /\ Len(live') = Len(live) + 1
    BY <1>1, <2>2, <2>3
  <2>5. lastHead' \in 0..BufferSize
    BY <2>1, <2>2, CircularDataAssumption
  <2> QED BY <1>1, <2>1, <2>2, <2>4, <2>5 DEF TypeOK, AnyBlock
<1>3. CASE EnqueueNode
  BY <1>3 DEF EnqueueNode, TypeOK
<1>4. CASE DropPending
  <2>1. Len(live) \in 1..Len(live) /\ live[Len(live)] \in AnyBlock
    BY <1>1, <1>4 DEF DropPending
  <2>2. head' \in 0..BufferSize /\ tail' \in 0..BufferSize
    BY <1>4, <2>1, FreeTypes DEF DropPending
  <2>3. /\ live' = SubSeq(live, 1, Len(live) - 1) /\ lastHead' = lastHead
        /\ pending' = FALSE
    BY <1>4 DEF DropPending
  <2>4. live' \in Seq(AnyBlock) /\ Len(live') = Len(live) - 1
    <3>1. Len(live) - 1 \in Int /\ \A i \in 1..(Len(live) - 1) : live[i] \in AnyBlock
      BY <1>1, <2>1
    <3>2. SubSeq(live, 1, Len(live) - 1) \in Seq(AnyBlock)
      BY <1>1, <3>1, SubSeqProperties
    <3>3. Len(SubSeq(live, 1, Len(live) - 1)) = Len(live) - 1
      <4> DEFINE L == Len(live)
      <4>1. Len(SubSeq(live, 1, L - 1)) = IF 1 <= L - 1 THEN (L - 1) - 1 + 1 ELSE 0
        BY <1>1, <3>1, SubSeqProperties
      <4>2. L \in Nat /\ L > 0
        BY <1>1, <2>1
      <4> HIDE DEF L
      <4>3. Len(SubSeq(live, 1, L - 1)) = L - 1
        BY <4>1, <4>2
      <4> QED BY <4>3 DEF L
    <3> QED BY <2>3, <3>2, <3>3
  <2>5. lastHead' \in 0..BufferSize /\ Len(live') <= MaxBlocks
    BY <1>1, <2>3, <2>4 DEF TypeOK
  <2>6. pending' \in BOOLEAN /\ (pending' => Len(live') > 0)
    BY <2>3, Zenon
  <2> QED BY <2>2, <2>4, <2>5, <2>6 DEF TypeOK, AnyBlock
<1>5. CASE FreeOldest
  <2>1. Len(live) > 0
    BY <1>1, <1>5 DEF FreeOldest, Queued
  <2>2. Head(live) \in AnyBlock /\ Tail(live) \in Seq(AnyBlock) /\ Len(Tail(live)) = Len(live) - 1
    BY <1>1, <2>1
  <2>3. head' \in 0..BufferSize /\ tail' \in 0..BufferSize
    BY <1>5, <2>2, FreeTypes DEF FreeOldest
  <2>4. live' = Tail(live) /\ lastHead' = lastHead /\ pending' = pending
    BY <1>5 DEF FreeOldest
  <2>5. Len(live') <= MaxBlocks /\ (pending' => Len(live') > 0)
    BY <1>1, <1>5, <2>1, <2>2, <2>4 DEF FreeOldest, Queued
  <2> QED BY <2>2, <2>3, <2>4, <2>5 DEF TypeOK, AnyBlock
<1>6. CASE UNCHANGED vars
  BY <1>6 DEF vars, TypeOK
<1> QED BY <1>2, <1>3, <1>4, <1>5, <1>6 DEF Next

(* Offsets stay in the buffer and the connection never owns more blocks     *)
(* than it has nodes, whatever sizes it asks for and in whatever order it   *)
(* frees and rolls back (xlayer_circular_data.c).                           *)
THEOREM TypeCorrect == Spec => []TypeOK
<1>1. Init => Typed
  <2> SUFFICES ASSUME Init PROVE Typed
    OBVIOUS
  <2>1. live = <<>> /\ Len(live) = 0
    BY DEF Init
  <2>2. pending \in BOOLEAN
    BY Zenon DEF Init
  <2> QED BY <2>1, <2>2, CircularDataAssumption DEF Init, TypeOK, Typed
<1>2. Typed => TypeOK
  BY DEF Typed
<1> QED BY <1>1, <1>2, TypeStep, PTL DEF Spec
=============================================================================
