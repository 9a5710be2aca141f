--------------------------- MODULE WpsFrag_proofs ---------------------------
(***************************************************************************)
(* Proofs about WpsFrag, for any numbers of payloads and fragments and any  *)
(* queue sizes: no node of the receiver's pool is lost, payloads are read   *)
(* in the order they were sent and none twice, every variable keeps its     *)
(* type, and payloads of at most two fragments are never assembled wrongly. *)
(* The second part orders everything under way, from what was read to what  *)
(* is being sent; the third one says what a transaction with a hole leaves  *)
(* behind between two callbacks; the last one follows what the receiver     *)
(* holds to the callback that will read it: no whole payload is forgotten,  *)
(* and one of at most two fragments that was stored whole is read.          *)
(***************************************************************************)
EXTENDS WpsFrag, TLAPS, NaturalsInduction, WellFoundedInduction, SequenceTheorems

RxType ==
    [frag : Seq(Frames), queue : Seq(Frames), pool : Nat, index : 0..MaxFragments,
     tid : 0..MAX_TRANSACTION_ID - 1, dropped : BOOLEAN, count : Int,
     read : Seq(Seq(Frames))]

Nodes(r) == r.pool + Len(r.frag) + Len(r.queue)

(* What an operator of the receiver may do to its record: change the queue  *)
(* the application reads, returning the nodes of the frames that leave.     *)
Keeps(r, s) ==
    /\ s \in RxType /\ s.frag = r.frag
    /\ Nodes(s) = Nodes(r) /\ Len(s.queue) <= Len(r.queue)

-----------------------------------------------------------------------------
(* The first of some natural numbers.                                       *)
LEMMA MinExists ==
    ASSUME NEW I \in SUBSET Nat, I # {}
    PROVE  Min(I) \in I /\ \A y \in I : Min(I) <= y
<1>1. PICK x \in I : \A y \in I : ~(<<y, x>> \in OpToRel(<, Nat))
  BY NatLessThanWellFounded, WFMin
<1>2. ASSUME NEW y \in I
      PROVE  x <= y
  <2>1. <<y, x>> \in Nat \X Nat /\ ~(<<y, x>> \in OpToRel(<, Nat))
    BY <1>1
  <2>2. ~(y < x)
    BY <2>1, Zenon DEF OpToRel
  <2> QED BY <2>2
<1> QED BY <1>2 DEF Min

LEMMA FirstOfRange ==
    ASSUME NEW q \in Seq(Frames), NEW places \in SUBSET DOMAIN q
    PROVE  /\ FirstOf(places) \in 0..Len(q)
           /\ places # {} => Min(places) \in 1..Len(q)
           /\ FirstOf(places) # 0 => FirstOf(places) \in places
           /\ \A i \in places : FirstOf(places) <= i
<1>1. DOMAIN q = 1..Len(q)
  OBVIOUS
<1>2. places # {} => Min(places) \in places /\ \A i \in places : Min(places) <= i
  BY <1>1, MinExists
<1> QED BY <1>1, <1>2 DEF FirstOf

(* wps_read_done moves nodes from the queue to the pool.                    *)
LEMMA ReadDoneKeeps ==
    ASSUME NEW r \in RxType, NEW n \in 0..Len(r.queue)
    PROVE  /\ Keeps(r, ReadDone(r, n))
           /\ Len(ReadDone(r, n).queue) = Len(r.queue) - n
<1>1. /\ SubSeq(r.queue, n + 1, Len(r.queue)) \in Seq(Frames)
      /\ Len(SubSeq(r.queue, n + 1, Len(r.queue))) = Len(r.queue) - n
  <2>1. r.queue \in Seq(Frames) /\ Len(r.queue) \in Nat
    BY DEF RxType
  <2>2. \A i \in n + 1..Len(r.queue) : r.queue[i] \in Frames
    BY <2>1
  <2> QED BY <2>1, <2>2, SubSeqProperties
<1>2. /\ ReadDone(r, n) \in RxType
      /\ ReadDone(r, n).frag = r.frag
      /\ ReadDone(r, n).pool = r.pool + n
      /\ ReadDone(r, n).queue = SubSeq(r.queue, n + 1, Len(r.queue))
  <2>1. r.pool + n \in Nat
    BY DEF RxType
  <2> QED BY <1>1, <2>1 DEF RxType, ReadDone
<1>3. r.pool \in Nat /\ Len(r.queue) \in Nat /\ Len(r.frag) \in Nat
  BY DEF RxType
<1>4. \A p, f, q \in Nat : (p + n) + f + (q - n) = p + f + q
  OBVIOUS
<1>5. r.pool + n + Len(r.frag) + (Len(r.queue) - n) = Nodes(r)
  BY <1>3, <1>4 DEF Nodes
<1>6. Nodes(ReadDone(r, n)) = Nodes(r)
  BY <1>1, <1>2, <1>5, Zenon DEF Nodes
<1>7. Len(ReadDone(r, n).queue) <= Len(r.queue)
  BY <1>1, <1>2, <1>3
<1> QED BY <1>1, <1>2, <1>6, <1>7, Zenon DEF Keeps

LEMMA FreeUntilKeeps ==
    ASSUME NEW r \in RxType, NEW places \in SUBSET DOMAIN r.queue
    PROVE  Keeps(r, FreeUntil(r, places))
<1>1. r.queue \in Seq(Frames) /\ Len(r.queue) \in Nat
  BY DEF RxType
<1>2. (IF places = {} THEN Len(r.queue) ELSE Min(places) - 1) \in 0..Len(r.queue)
  BY <1>1, FirstOfRange
<1> QED BY <1>2, ReadDoneKeeps DEF FreeUntil

LEMMA ReadErrorFlushKeeps ==
    ASSUME NEW r \in RxType
    PROVE  Keeps(r, ReadErrorFlush(r))
<1> DEFINE at == FirstOf({i \in DOMAIN r.queue : r.queue[i].type = "last"})
<1>1. r.queue \in Seq(Frames) /\ Len(r.queue) \in Nat
  BY DEF RxType
<1>2. at \in 0..Len(r.queue)
  BY <1>1, FirstOfRange
<1>3. (IF at = 0 THEN Len(r.queue) ELSE at) \in 0..Len(r.queue)
  BY <1>1, <1>2
<1>4. Keeps(r, ReadDone(r, IF at = 0 THEN Len(r.queue) ELSE at))
  BY <1>3, ReadDoneKeeps
<1> QED BY <1>4 DEF ReadErrorFlush

-----------------------------------------------------------------------------
(* The operators of the receiver, from the innermost to the outermost.      *)
LEMMA KeepsTransitive ==
    ASSUME NEW r \in RxType, NEW s, NEW t, Keeps(r, s), Keeps(s, t)
    PROVE  Keeps(r, t)
<1>1. r.queue \in Seq(Frames) /\ s.queue \in Seq(Frames) /\ t.queue \in Seq(Frames)
  BY DEF Keeps, RxType
<1>2. Len(t.queue) <= Len(r.queue)
  <2>1. \A a, b, c \in Nat : a <= b /\ b <= c => a <= c
    OBVIOUS
  <2>2. Len(r.queue) \in Nat /\ Len(s.queue) \in Nat /\ Len(t.queue) \in Nat
    BY <1>1
  <2>3. Len(t.queue) <= Len(s.queue) /\ Len(s.queue) <= Len(r.queue)
    BY DEF Keeps
  <2> QED BY <2>1, <2>2, <2>3, Zenon
<1> QED BY <1>2, Zenon DEF Keeps

(* A record that only differs in what the receiver expects.                 *)
LEMMA SameFramesKeeps ==
    ASSUME NEW r \in RxType, NEW s \in RxType,
           s.frag = r.frag, s.queue = r.queue, s.pool = r.pool
    PROVE  Keeps(r, s)
<1>1. Len(r.queue) \in Nat
  BY DEF RxType
<1>2. Len(s.queue) <= Len(r.queue)
  BY <1>1
<1>3. Nodes(s) = Nodes(r)
  BY Zenon DEF Nodes
<1> QED BY <1>2, <1>3, Zenon DEF Keeps

(* The count of readable payloads has nothing to do with the nodes.         *)
LEMMA CountKeeps ==
    ASSUME NEW r \in RxType, NEW n \in Int
    PROVE  LET counted == [r EXCEPT !.count = n]
           IN  Keeps(r, counted) /\ counted.queue = r.queue /\ counted.read = r.read
<1> DEFINE counted == [r EXCEPT !.count = n]
<1>1. counted \in RxType
  BY DEF RxType
<1>2. /\ counted.frag = r.frag /\ counted.queue = r.queue
      /\ counted.pool = r.pool /\ counted.read = r.read
  BY DEF RxType
<1> HIDE DEF counted
<1>3. Keeps(r, counted)
  BY <1>1, <1>2 DEF Keeps, Nodes
<1> QED BY <1>2, <1>3 DEF counted

(* What a read does with the oldest n frames: it frees them, or frees them  *)
(* and then the rest of a broken transaction, or returns them.              *)
Counted(r) == [r EXCEPT !.count = @ - 1]
Reads(r, s, n) ==
    /\ n > 0 /\ StartsPayload(Head(r.queue))
    /\ r.queue[n].type # "nonlast" /\ (r.queue[n].type = "full" => n = 1)
    /\ \A i \in 1..n - 1 : r.queue[i].type = "nonlast"
    /\ s = [ReadDone(Counted(r), n) EXCEPT !.read = Append(@, SubSeq(r.queue, 1, n))]

LEMMA FragReadShape ==
    ASSUME NEW r \in RxType
    PROVE  \E n \in 0..Len(r.queue) :
              \/ FragRead(r) = ReadDone(Counted(r), n)
              \/ FragRead(r) = ReadErrorFlush(ReadDone(Counted(r), n))
              \/ Reads(r, FragRead(r), n)
<1> DEFINE ends == {i \in DOMAIN r.queue : r.queue[i].type # "nonlast"}
           end == FirstOf(ends)
           length == IF end = 0 THEN Len(r.queue) ELSE end
           counted == [r EXCEPT !.count = @ - 1]
           AbortAfter(n) == ReadErrorFlush(ReadDone(counted, n))
           s == FragRead(r)
<1>1. r.queue \in Seq(Frames) /\ Len(r.queue) \in Nat /\ DOMAIN r.queue = 1..Len(r.queue)
  BY DEF RxType
<1>2. /\ end \in 0..Len(r.queue) /\ (end # 0 => end \in ends)
      /\ \A i \in ends : end <= i
  BY <1>1, FirstOfRange
<1>3. counted = Counted(r)
  BY DEF Counted
<1>4. s = IF r.queue = <<>> THEN counted
          ELSE IF ~StartsPayload(Head(r.queue)) THEN AbortAfter(0)
          ELSE IF length > MaxFragments THEN AbortAfter(MaxFragments)
          ELSE IF end = 0 THEN ReadDone(counted, length)
          ELSE IF r.queue[end].type = "full" /\ end > 1 THEN AbortAfter(end - 1)
          ELSE [ReadDone(counted, end) EXCEPT !.read = Append(@, SubSeq(r.queue, 1, end))]
  BY DEF FragRead
<1>5. end # 0 => /\ r.queue[end].type # "nonlast"
                 /\ \A i \in 1..end - 1 : r.queue[i].type = "nonlast"
  <2> SUFFICES ASSUME end # 0
               PROVE  /\ r.queue[end].type # "nonlast"
                      /\ \A i \in 1..end - 1 : r.queue[i].type = "nonlast"
    OBVIOUS
  <2>1. r.queue[end].type # "nonlast"
    BY <1>2
  <2>2. ASSUME NEW i \in 1..end - 1
        PROVE  r.queue[i].type = "nonlast"
    <3>1. i \in DOMAIN r.queue /\ ~(end <= i)
      BY <1>1, <1>2
    <3>2. i \notin ends
      BY <1>2, <3>1
    <3> QED BY <3>1, <3>2
  <2> QED BY <2>1, <2>2
<1>6. Len(r.queue) \in 0..Len(r.queue) /\ 0 \in 0..Len(r.queue)
  BY <1>1
<1> HIDE DEF ends, end, s, counted
<1>7. CASE r.queue = <<>>
  <2>1. counted.queue = <<>> /\ counted.pool \in Nat /\ counted \in RxType
    BY <1>7, SMTT(30) DEF counted, RxType
  <2>2. ReadDone(counted, 0) = counted
    <3>1. SubSeq(counted.queue, 0 + 1, Len(counted.queue)) = counted.queue
      BY <2>1
    <3>2. counted.pool + 0 = counted.pool
      BY <2>1
    <3>3. ReadDone(counted, 0) = [counted EXCEPT !.queue = counted.queue, !.pool = counted.pool]
      BY <3>1, <3>2, Zenon DEF ReadDone
    <3>4. \A t \in RxType : [t EXCEPT !.queue = t.queue, !.pool = t.pool] = t
      BY DEF RxType
    <3> QED BY <2>1, <3>3, <3>4
  <2>3. s = ReadDone(Counted(r), 0)
    BY <1>3, <1>4, <1>7, <2>2
  <2> QED BY <1>6, <2>3 DEF s
<1>8. CASE r.queue # <<>> /\ ~StartsPayload(Head(r.queue))
  <2>1. s = ReadErrorFlush(ReadDone(Counted(r), 0))
    BY <1>3, <1>4, <1>8
  <2> QED BY <1>6, <2>1 DEF s
<1>9. CASE r.queue # <<>> /\ StartsPayload(Head(r.queue)) /\ length > MaxFragments
  <2>1. MaxFragments \in 0..Len(r.queue)
    BY <1>1, <1>2, <1>9, WpsFragAssumption
  <2>2. s = ReadErrorFlush(ReadDone(Counted(r), MaxFragments))
    BY <1>3, <1>4, <1>9
  <2> QED BY <2>1, <2>2 DEF s
<1>10. CASE r.queue # <<>> /\ StartsPayload(Head(r.queue)) /\ ~(length > MaxFragments)
            /\ end = 0
  <2>1. s = ReadDone(Counted(r), Len(r.queue))
    BY <1>3, <1>4, <1>10
  <2> QED BY <1>6, <2>1 DEF s
<1>11. CASE r.queue # <<>> /\ StartsPayload(Head(r.queue)) /\ ~(length > MaxFragments)
            /\ end # 0 /\ r.queue[end].type = "full" /\ end > 1
  <2>1. s = ReadErrorFlush(ReadDone(Counted(r), end - 1)) /\ end - 1 \in 0..Len(r.queue)
    BY <1>1, <1>2, <1>3, <1>4, <1>11
  <2> QED BY <2>1 DEF s
<1>12. CASE r.queue # <<>> /\ StartsPayload(Head(r.queue)) /\ ~(length > MaxFragments)
            /\ end # 0 /\ ~(r.queue[end].type = "full" /\ end > 1)
  <2>1. s = [ReadDone(Counted(r), end) EXCEPT !.read = Append(@, SubSeq(r.queue, 1, end))]
    BY <1>3, <1>4, <1>12
  <2>2. Reads(r, s, end) /\ end \in 0..Len(r.queue)
    BY <1>1, <1>2, <1>5, <1>12, <2>1 DEF Reads
  <2> QED BY <2>2 DEF s
<1> QED BY <1>7, <1>8, <1>9, <1>10, <1>11, <1>12

LEMMA CountedKeeps ==
    ASSUME NEW r \in RxType
    PROVE  /\ Keeps(r, Counted(r)) /\ Counted(r) \in RxType
           /\ Counted(r).queue = r.queue /\ Counted(r).read = r.read
           /\ Counted(r).count = r.count - 1
<1>1. r.count - 1 \in Int
  BY DEF RxType
<1>2. Counted(r) = [r EXCEPT !.count = r.count - 1] /\ Counted(r).count = r.count - 1
  BY DEF Counted, RxType
<1> QED BY <1>1, <1>2, CountKeeps DEF Keeps

LEMMA FragReadKeeps ==
    ASSUME NEW r \in RxType
    PROVE  Keeps(r, FragRead(r))
<1> DEFINE s == FragRead(r)
           counted == Counted(r)
<1>1. PICK n \in 0..Len(r.queue) :
         \/ s = ReadDone(counted, n)
         \/ s = ReadErrorFlush(ReadDone(counted, n))
         \/ Reads(r, s, n)
  BY FragReadShape
<1>2. counted \in RxType /\ Keeps(r, counted) /\ counted.queue = r.queue
  BY CountedKeeps
<1> HIDE DEF s, counted
<1>3. Keeps(r, ReadDone(counted, n)) /\ ReadDone(counted, n) \in RxType
  <2>1. Keeps(counted, ReadDone(counted, n))
    BY <1>2, ReadDoneKeeps
  <2> QED BY <1>2, <2>1, KeepsTransitive DEF Keeps
<1>4. Keeps(r, ReadErrorFlush(ReadDone(counted, n)))
  BY <1>3, ReadErrorFlushKeeps, KeepsTransitive
<1>5. ASSUME Reads(r, s, n)
      PROVE  Keeps(r, s)
  <2> DEFINE done == ReadDone(counted, n)
             piece == SubSeq(r.queue, 1, n)
  <2>1. piece \in Seq(Frames)
    <3>1. r.queue \in Seq(Frames) /\ \A i \in 1..n : r.queue[i] \in Frames
      BY DEF RxType
    <3> QED BY <3>1, SubSeqProperties
  <2>2. done \in RxType /\ Keeps(r, done)
    BY <1>3
  <2>3. s = [done EXCEPT !.read = Append(@, piece)]
    BY <1>5 DEF Reads, counted
  <2> HIDE DEF done, piece
  <2>4. Append(done.read, piece) \in Seq(Seq(Frames))
    BY <2>1, <2>2 DEF RxType
  <2>5. s \in RxType /\ s.frag = done.frag /\ s.queue = done.queue /\ s.pool = done.pool
    BY <2>2, <2>3, <2>4 DEF RxType
  <2>6. Keeps(done, s)
    BY <2>2, <2>5, SameFramesKeeps
  <2> QED BY <2>2, <2>6, KeepsTransitive
<1> QED BY <1>1, <1>3, <1>4, <1>5 DEF s

LEMMA NotifyReceivedKeeps ==
    ASSUME NEW r \in RxType
    PROVE  Keeps(r, NotifyReceived(r))
<1> DEFINE counted == [r EXCEPT !.count = @ + 1]
<1>1. counted \in RxType /\ Keeps(r, counted)
  <2>1. r.count + 1 \in Int
    BY DEF RxType
  <2> QED BY <2>1, CountKeeps DEF Keeps
<1>2. Keeps(counted, FragRead(counted))
  BY <1>1, FragReadKeeps
<1> QED BY <1>1, <1>2, KeepsTransitive DEF NotifyReceived

LEMMA FlushLastTransactionKeeps ==
    ASSUME NEW r \in RxType
    PROVE  Keeps(r, FlushLastTransaction(r))
<1> DEFINE rest == FreeUntil(r, {i \in DOMAIN r.queue : r.queue[i].tid # r.tid})
<1>1. rest \in RxType /\ Keeps(r, rest)
  BY FreeUntilKeeps DEF Keeps
<1> HIDE DEF rest
<1>2. ASSUME rest.queue # <<>>
      PROVE  Keeps(r, [rest EXCEPT !.tid = Head(rest.queue).tid, !.index = 1])
  <2>1. Head(rest.queue) \in Frames
    BY <1>1, <1>2 DEF RxType
  <2>2. Head(rest.queue).tid \in 0..MAX_TRANSACTION_ID - 1
    BY <2>1 DEF Frames
  <2> DEFINE s == [rest EXCEPT !.tid = Head(rest.queue).tid, !.index = 1]
  <2>3. 1 \in 0..MaxFragments
    BY WpsFragAssumption
  <2>4. s \in RxType /\ s.frag = rest.frag /\ s.queue = rest.queue /\ s.pool = rest.pool
    BY <1>1, <2>2, <2>3 DEF RxType
  <2> HIDE DEF s
  <2>5. Keeps(rest, s)
    BY <1>1, <2>4, SameFramesKeeps
  <2>6. Keeps(r, s)
    BY <1>1, <2>5, KeepsTransitive
  <2> QED BY <2>6 DEF s
<1>3. FlushLastTransaction(r) =
        IF rest.queue = <<>> THEN rest
        ELSE [rest EXCEPT !.tid = Head(rest.queue).tid, !.index = 1]
  BY DEF FlushLastTransaction, rest
<1> QED BY <1>1, <1>2, <1>3

LEMMA ReadProcessFailKeeps ==
    ASSUME NEW r \in RxType, NEW id
    PROVE  Keeps(r, ReadProcessFail(r, id))
<1> DEFINE starts == {i \in DOMAIN r.queue :
                        \/ r.queue[i].type = "full"
                        \/ r.queue[i].type = "nonlast" /\ r.queue[i].num = 0 /\ r.tid # id}
           failed == [r EXCEPT !.dropped = TRUE, !.index = 0]
           rest == FreeUntil(failed, starts)
<1>1. failed \in RxType /\ Keeps(r, failed) /\ failed.queue = r.queue
  <2>1. 0 \in 0..MaxFragments
    BY WpsFragAssumption
  <2>2. failed \in RxType /\ failed.frag = r.frag /\ failed.queue = r.queue
           /\ failed.pool = r.pool
    BY <2>1 DEF RxType
  <2> QED BY <2>2, SameFramesKeeps
<1>2. rest \in RxType /\ Keeps(r, rest)
  <2>1. Keeps(failed, rest)
    BY <1>1, FreeUntilKeeps
  <2> QED BY <1>1, <2>1, KeepsTransitive DEF Keeps
<1>3. ReadProcessFail(r, id) =
        IF rest.queue = <<>> THEN rest
        ELSE IF Head(rest.queue).type = "full" THEN NotifyReceived(rest)
        ELSE [rest EXCEPT !.dropped = FALSE, !.tid = Head(rest.queue).tid, !.index = 1]
  BY DEF ReadProcessFail
<1> HIDE DEF rest
<1>4. Keeps(r, NotifyReceived(rest))
  BY <1>2, NotifyReceivedKeeps, KeepsTransitive
<1>5. ASSUME rest.queue # <<>>
      PROVE  Keeps(r, [rest EXCEPT !.dropped = FALSE, !.tid = Head(rest.queue).tid, !.index = 1])
  <2>1. Head(rest.queue) \in Frames
    BY <1>2, <1>5 DEF RxType
  <2>2. Head(rest.queue).tid \in 0..MAX_TRANSACTION_ID - 1
    BY <2>1 DEF Frames
  <2> DEFINE s == [rest EXCEPT !.dropped = FALSE, !.tid = Head(rest.queue).tid, !.index = 1]
  <2>3. 1 \in 0..MaxFragments
    BY WpsFragAssumption
  <2>4. s \in RxType /\ s.frag = rest.frag /\ s.queue = rest.queue /\ s.pool = rest.pool
    BY <1>2, <2>2, <2>3 DEF RxType
  <2> HIDE DEF s
  <2>5. Keeps(rest, s)
    BY <1>2, <2>4, SameFramesKeeps
  <2>6. Keeps(r, s)
    BY <1>2, <2>5, KeepsTransitive
  <2> QED BY <2>6 DEF s
<1> QED BY <1>2, <1>3, <1>4, <1>5

LEMMA ProcessFrameKeeps ==
    ASSUME NEW r \in RxType, NEW f \in Frames,
           r.dropped => Len(r.queue) > 0
    PROVE  Keeps(r, ProcessFrame(r, f))
<1>1. f.tid \in 0..MAX_TRANSACTION_ID - 1
  BY DEF Frames
<1>2. Keeps(r, ProcessFull([r EXCEPT !.dropped = FALSE]))
  <2> DEFINE clear == [r EXCEPT !.dropped = FALSE]
             rest == IF clear.index # 0 THEN FlushLastTransaction(clear) ELSE clear
  <2>1. clear \in RxType /\ Keeps(r, clear)
    <3>1. clear \in RxType /\ clear.frag = r.frag /\ clear.queue = r.queue
             /\ clear.pool = r.pool
      BY DEF RxType
    <3> QED BY <3>1, SameFramesKeeps
  <2> HIDE DEF clear
  <2>2. rest \in RxType /\ Keeps(r, rest)
    <3>1. Keeps(clear, FlushLastTransaction(clear))
      BY <2>1, FlushLastTransactionKeeps
    <3> QED BY <2>1, <3>1, KeepsTransitive DEF Keeps
  <2> HIDE DEF rest
  <2>3. Keeps(r, NotifyReceived(rest))
    BY <2>2, NotifyReceivedKeeps, KeepsTransitive
  <2>4. ProcessFull(clear) = NotifyReceived(rest)
    BY DEF ProcessFull, rest
  <2> QED BY <2>3, <2>4 DEF clear
<1>3. Keeps(r, ProcessNonLast(r, f))
  <2>1. f.num = r.index => r.index + 1 \in 0..MaxFragments
    BY WpsFragAssumption DEF Frames
  <2>2. f.num = r.index => Keeps(r, [r EXCEPT !.tid = f.tid, !.index = @ + 1])
    <3> DEFINE s == [r EXCEPT !.tid = f.tid, !.index = @ + 1]
    <3> SUFFICES ASSUME f.num = r.index PROVE Keeps(r, s)
      OBVIOUS
    <3>1. s \in RxType /\ s.frag = r.frag /\ s.queue = r.queue /\ s.pool = r.pool
      BY <1>1, <2>1 DEF RxType
    <3> HIDE DEF s
    <3> QED BY <3>1, SameFramesKeeps
  <2> QED BY <2>2, ReadProcessFailKeeps, FlushLastTransactionKeeps DEF ProcessNonLast
<1>4. Keeps(r, ProcessLast(r, f))
  <2> DEFINE ended == [r EXCEPT !.index = 0]
  <2>1. ended \in RxType /\ Keeps(r, ended)
    <3>1. 0 \in 0..MaxFragments
      BY WpsFragAssumption
    <3>2. ended \in RxType /\ ended.frag = r.frag /\ ended.queue = r.queue
             /\ ended.pool = r.pool
      BY <3>1 DEF RxType
    <3> QED BY <3>2, SameFramesKeeps
  <2> HIDE DEF ended
  <2>2. Keeps(r, NotifyReceived(ended))
    BY <2>1, NotifyReceivedKeeps, KeepsTransitive
  <2> QED BY <2>2, ReadProcessFailKeeps, FlushLastTransactionKeeps DEF ProcessLast, ended
<1>5. r.dropped => Keeps(r, ReadDone(r, 1))
  <2>1. r.dropped => 1 \in 0..Len(r.queue)
    BY DEF RxType
  <2> QED BY <2>1, ReadDoneKeeps
<1> QED BY <1>2, <1>3, <1>4, <1>5, ReadProcessFailKeeps DEF ProcessFrame

-----------------------------------------------------------------------------
(* One receiving connection owns the pool: it has no more nodes than each   *)
(* of its queues has entries.                                               *)
PoolFits == \A s \in Setups : s.poolSize <= s.queueSize

-----------------------------------------------------------------------------
(* How many payloads may be read: a payload is announced at most once for   *)
(* a frame, and a read takes one away.                                      *)
Announces(r, s) == s.count = r.count \/ s.count = r.count + 1

LEMMA ReadDoneCount ==
    ASSUME NEW r \in RxType, NEW n
    PROVE  /\ ReadDone(r, n).count = r.count /\ ReadDone(r, n).read = r.read
           /\ ReadDone(r, n).index = r.index /\ ReadDone(r, n).tid = r.tid
           /\ ReadDone(r, n).dropped = r.dropped
           /\ ReadDone(r, n).queue = SubSeq(r.queue, n + 1, Len(r.queue))
BY DEF ReadDone, RxType

LEMMA FreeUntilCount ==
    ASSUME NEW r \in RxType, NEW places
    PROVE  /\ FreeUntil(r, places).count = r.count
           /\ FreeUntil(r, places).tid = r.tid /\ FreeUntil(r, places).index = r.index
           /\ FreeUntil(r, places).dropped = r.dropped
BY ReadDoneCount DEF FreeUntil

LEMMA ReadErrorFlushCount ==
    ASSUME NEW r \in RxType
    PROVE  ReadErrorFlush(r).count = r.count
BY ReadDoneCount DEF ReadErrorFlush

LEMMA FragReadCount ==
    ASSUME NEW r \in RxType
    PROVE  FragRead(r).count = r.count - 1
<1> DEFINE s == FragRead(r)
<1>1. PICK n \in 0..Len(r.queue) :
         \/ s = ReadDone(Counted(r), n)
         \/ s = ReadErrorFlush(ReadDone(Counted(r), n))
         \/ Reads(r, s, n)
  BY FragReadShape
<1> HIDE DEF s
<1>2. Counted(r) \in RxType /\ Counted(r).count = r.count - 1 /\ Counted(r).queue = r.queue
  BY CountedKeeps
<1>3. ReadDone(Counted(r), n) \in RxType /\ ReadDone(Counted(r), n).count = r.count - 1
  BY <1>2, ReadDoneCount, ReadDoneKeeps DEF Keeps
<1>4. ReadErrorFlush(ReadDone(Counted(r), n)).count = r.count - 1
  BY <1>3, ReadErrorFlushCount
<1>5. Reads(r, s, n) => s.count = r.count - 1
  BY <1>3 DEF Reads, RxType
<1> QED BY <1>1, <1>3, <1>4, <1>5 DEF s

LEMMA NotifyReceivedCount ==
    ASSUME NEW r \in RxType
    PROVE  Announces(r, NotifyReceived(r))
<1> DEFINE counted == [r EXCEPT !.count = @ + 1]
<1>1. counted \in RxType /\ counted.count = r.count + 1 /\ r.count \in Int
  <2>1. r.count \in Int /\ r.count + 1 \in Int
    BY DEF RxType
  <2>2. counted = [r EXCEPT !.count = r.count + 1]
    OBVIOUS
  <2> HIDE DEF counted
  <2> QED BY <2>1, <2>2 DEF RxType
<1>2. FragRead(counted).count = counted.count - 1
  BY <1>1, FragReadCount
<1>3. NotifyReceived(r) = IF setup.polling THEN counted ELSE FragRead(counted)
  BY DEF NotifyReceived
<1> HIDE DEF counted
<1> QED BY <1>1, <1>2, <1>3 DEF Announces

LEMMA FlushLastTransactionCount ==
    ASSUME NEW r \in RxType
    PROVE  FlushLastTransaction(r).count = r.count
<1> DEFINE rest == FreeUntil(r, {i \in DOMAIN r.queue : r.queue[i].tid # r.tid})
<1>1. rest \in RxType /\ rest.count = r.count
  BY FreeUntilKeeps, FreeUntilCount DEF Keeps
<1>2. FlushLastTransaction(r) =
        IF rest.queue = <<>> THEN rest
        ELSE [rest EXCEPT !.tid = Head(rest.queue).tid, !.index = 1]
  BY DEF FlushLastTransaction
<1> HIDE DEF rest
<1> QED BY <1>1, <1>2 DEF RxType

LEMMA ReadProcessFailCount ==
    ASSUME NEW r \in RxType, NEW id
    PROVE  Announces(r, ReadProcessFail(r, id))
<1> DEFINE starts == {i \in DOMAIN r.queue :
                        \/ r.queue[i].type = "full"
                        \/ r.queue[i].type = "nonlast" /\ r.queue[i].num = 0 /\ r.tid # id}
           failed == [r EXCEPT !.dropped = TRUE, !.index = 0]
           rest == FreeUntil(failed, starts)
<1>1. failed \in RxType /\ failed.count = r.count /\ failed.queue = r.queue
  <2>1. 0 \in 0..MaxFragments
    BY WpsFragAssumption
  <2> QED BY <2>1 DEF RxType
<1>2. rest \in RxType /\ rest.count = r.count
  BY <1>1, FreeUntilKeeps, FreeUntilCount DEF Keeps
<1>3. ReadProcessFail(r, id) =
        IF rest.queue = <<>> THEN rest
        ELSE IF Head(rest.queue).type = "full" THEN NotifyReceived(rest)
        ELSE [rest EXCEPT !.dropped = FALSE, !.tid = Head(rest.queue).tid, !.index = 1]
  BY DEF ReadProcessFail
<1> HIDE DEF rest
<1>4. Announces(rest, NotifyReceived(rest))
  BY <1>2, NotifyReceivedCount
<1>5. [rest EXCEPT !.dropped = FALSE, !.tid = Head(rest.queue).tid, !.index = 1].count = rest.count
  BY <1>2 DEF RxType
<1> QED BY <1>2, <1>3, <1>4, <1>5 DEF Announces

LEMMA ProcessFrameCount ==
    ASSUME NEW r \in RxType, NEW f
    PROVE  Announces(r, ProcessFrame(r, f))
<1>1. Announces(r, ProcessFull([r EXCEPT !.dropped = FALSE]))
  <2> DEFINE clear == [r EXCEPT !.dropped = FALSE]
             rest == IF clear.index # 0 THEN FlushLastTransaction(clear) ELSE clear
  <2>1. clear \in RxType /\ clear.count = r.count
    BY DEF RxType
  <2> HIDE DEF clear
  <2>2. rest \in RxType /\ rest.count = r.count
    BY <2>1, FlushLastTransactionKeeps, FlushLastTransactionCount DEF Keeps
  <2>3. ProcessFull(clear) = NotifyReceived(rest)
    BY DEF ProcessFull
  <2> HIDE DEF rest
  <2>4. Announces(rest, NotifyReceived(rest))
    BY <2>2, NotifyReceivedCount
  <2> QED BY <2>2, <2>3, <2>4 DEF Announces, clear
<1>2. Announces(r, ReadDone(r, 1))
  BY ReadDoneCount DEF Announces
<1>3. Announces(r, ReadProcessFail(r, f.tid)) /\ Announces(r, FlushLastTransaction(r))
  BY ReadProcessFailCount, FlushLastTransactionCount DEF Announces
<1>4. Announces(r, ProcessNonLast(r, f))
  <2>1. [r EXCEPT !.tid = f.tid, !.index = @ + 1].count = r.count
    BY DEF RxType
  <2> QED BY <1>3, <2>1 DEF ProcessNonLast, Announces
<1>5. Announces(r, ProcessLast(r, f))
  <2> DEFINE ended == [r EXCEPT !.index = 0]
  <2>1. ended \in RxType /\ ended.count = r.count
    <3>1. 0 \in 0..MaxFragments
      BY WpsFragAssumption
    <3> QED BY <3>1 DEF RxType
  <2>2. Announces(ended, NotifyReceived(ended))
    BY <2>1, NotifyReceivedCount
  <2>3. Announces(r, NotifyReceived(ended))
    BY <2>1, <2>2 DEF Announces
  <2> HIDE DEF ended
  <2> QED BY <1>3, <2>3 DEF ProcessLast, ended
<1> QED BY <1>1, <1>2, <1>3, <1>4, <1>5 DEF ProcessFrame
-----------------------------------------------------------------------------
(* The order of fragments: a frame comes before the frames of later         *)
(* payloads and the higher numbers of its own, of which there are none      *)
(* behind a last fragment or a full frame.                                  *)
Before(f, g) ==
    \/ f.msg < g.msg
    \/ f.msg = g.msg /\ f.num < g.num /\ f.type = "nonlast"

FullIsFirst(f) == f.type = "full" => f.num = 0

(* What the receiver holds and has read is in order and before g.           *)
InOrder(r, g) ==
    /\ \A i \in 1..Len(r.queue) : Before(r.queue[i], g) /\ FullIsFirst(r.queue[i])
    /\ \A i, j \in 1..Len(r.queue) : i < j => Before(r.queue[i], r.queue[j])
    /\ \A i \in 1..Len(r.read) :
          /\ r.read[i] # <<>> /\ r.read[i][1] \in Frames /\ r.read[i][1].num = 0
          /\ Before(r.read[i][1], g)
          /\ \A j \in 1..Len(r.queue) : Before(r.read[i][1], r.queue[j])
    /\ \A i, j \in 1..Len(r.read) : i < j => r.read[i][1].msg < r.read[j][1].msg

Onward(r, s) == \A g : InOrder(r, g) => InOrder(s, g)

LEMMA OnwardTransitive ==
    ASSUME NEW r, NEW s, NEW t, Onward(r, s), Onward(s, t)
    PROVE  Onward(r, t)
BY DEF Onward

LEMMA SameOnward ==
    ASSUME NEW r, NEW s, s.queue = r.queue, s.read = r.read
    PROVE  Onward(r, s)
BY Zenon DEF Onward, InOrder

(* The frames behind the first n.                                           *)
LEMMA RestOfQueue ==
    ASSUME NEW q \in Seq(Frames), NEW n \in 0..Len(q)
    PROVE  LET rest == SubSeq(q, n + 1, Len(q))
           IN  /\ rest \in Seq(Frames) /\ Len(rest) = Len(q) - n
               /\ \A i \in 1..Len(rest) : rest[i] = q[n + i] /\ n + i \in 1..Len(q)
<1> DEFINE rest == SubSeq(q, n + 1, Len(q))
           L == Len(q)
<1>1. L \in Nat /\ \A i \in n + 1..L : q[i] \in Frames
  OBVIOUS
<1>2. /\ rest \in Seq(Frames) /\ Len(rest) = IF n + 1 <= L THEN L - (n + 1) + 1 ELSE 0
      /\ \A i \in 1..L - (n + 1) + 1 : rest[i] = q[n + 1 + i - 1]
  BY <1>1, SubSeqProperties
<1> HIDE DEF rest, L
<1>3. n \in 0..L
  BY DEF L
<1>4. Len(rest) = L - n
  BY <1>1, <1>2, <1>3
<1>5. ASSUME NEW i \in 1..Len(rest)
      PROVE  rest[i] = q[n + i] /\ n + i \in 1..L
  <2>1. i \in 1..L - (n + 1) + 1 /\ n + 1 + i - 1 = n + i /\ n + i \in 1..L
    BY <1>1, <1>3, <1>4
  <2> QED BY <1>2, <2>1
<1> QED BY <1>2, <1>4, <1>5 DEF rest, L

LEMMA ReadDoneOnward ==
    ASSUME NEW r \in RxType, NEW n \in 0..Len(r.queue)
    PROVE  Onward(r, ReadDone(r, n))
<1> DEFINE s == ReadDone(r, n)
<1>1. s.read = r.read /\ s.queue = SubSeq(r.queue, n + 1, Len(r.queue))
  BY ReadDoneCount
<1> HIDE DEF s
<1>2. /\ r.queue \in Seq(Frames) /\ Len(r.queue) \in Nat
      /\ \A i \in 1..Len(s.queue) : s.queue[i] = r.queue[n + i] /\ n + i \in 1..Len(r.queue)
  <2>1. r.queue \in Seq(Frames) /\ Len(r.queue) \in Nat
    BY DEF RxType
  <2> QED BY <1>1, <2>1, RestOfQueue
<1> SUFFICES ASSUME NEW g, InOrder(r, g)
             PROVE  InOrder(s, g)
  BY DEF Onward, s
<1>3. \A i \in 1..Len(s.queue) : Before(s.queue[i], g) /\ FullIsFirst(s.queue[i])
  BY <1>2, Zenon DEF InOrder
<1>4. ASSUME NEW i \in 1..Len(s.queue), NEW j \in 1..Len(s.queue), i < j
      PROVE  Before(s.queue[i], s.queue[j])
  <2>1. n + i < n + j
    BY <1>2, <1>4
  <2> QED BY <1>2, <2>1, Zenon DEF InOrder
<1>5. \A i \in 1..Len(s.read) :
         /\ s.read[i] # <<>> /\ s.read[i][1] \in Frames /\ s.read[i][1].num = 0
         /\ Before(s.read[i][1], g)
         /\ \A j \in 1..Len(s.queue) : Before(s.read[i][1], s.queue[j])
  BY <1>1, <1>2, Zenon DEF InOrder
<1>6. \A i, j \in 1..Len(s.read) : i < j => s.read[i][1].msg < s.read[j][1].msg
  BY <1>1, Zenon DEF InOrder
<1> QED BY <1>3, <1>4, <1>5, <1>6, Zenon DEF InOrder

LEMMA FreeUntilOnward ==
    ASSUME NEW r \in RxType, NEW places \in SUBSET DOMAIN r.queue
    PROVE  Onward(r, FreeUntil(r, places))
<1>1. r.queue \in Seq(Frames) /\ Len(r.queue) \in Nat
  BY DEF RxType
<1>2. (IF places = {} THEN Len(r.queue) ELSE Min(places) - 1) \in 0..Len(r.queue)
  BY <1>1, FirstOfRange
<1> QED BY <1>2, ReadDoneOnward DEF FreeUntil

LEMMA ReadErrorFlushOnward ==
    ASSUME NEW r \in RxType
    PROVE  Onward(r, ReadErrorFlush(r))
<1> DEFINE at == FirstOf({i \in DOMAIN r.queue : r.queue[i].type = "last"})
<1>1. r.queue \in Seq(Frames) /\ Len(r.queue) \in Nat
  BY DEF RxType
<1>2. at \in 0..Len(r.queue)
  BY <1>1, FirstOfRange
<1>3. (IF at = 0 THEN Len(r.queue) ELSE at) \in 0..Len(r.queue)
  BY <1>1, <1>2
<1>4. Onward(r, ReadDone(r, IF at = 0 THEN Len(r.queue) ELSE at))
  BY <1>3, ReadDoneOnward
<1> QED BY <1>4 DEF ReadErrorFlush

(* The frames of a payload that is read leave the queue, so that no later   *)
(* read starts with one of them.                                            *)
LEMMA ReadsOnward ==
    ASSUME NEW r \in RxType, NEW s, NEW n \in 0..Len(r.queue), Reads(r, s, n)
    PROVE  Onward(r, s)
<1> DEFINE piece == SubSeq(r.queue, 1, n)
           done == ReadDone(Counted(r), n)
<1>1. /\ r.queue \in Seq(Frames) /\ Len(r.queue) \in Nat /\ r.read \in Seq(Seq(Frames))
      /\ n \in 1..Len(r.queue)
  BY DEF RxType, Reads
<1>2. piece \in Seq(Frames) /\ Len(piece) = n /\ piece[1] = r.queue[1]
  <2>1. \A i \in 1..n : r.queue[i] \in Frames
    BY <1>1
  <2> QED BY <1>1, <2>1, SubSeqProperties
<1>3. r.queue[1] \in Frames /\ StartsPayload(r.queue[1])
  BY <1>1 DEF Reads
<1>4. done \in RxType /\ done.read = r.read /\ done.queue = SubSeq(r.queue, n + 1, Len(r.queue))
  <2>1. Counted(r) \in RxType /\ Counted(r).queue = r.queue /\ Counted(r).read = r.read
    BY CountedKeeps
  <2>2. done \in RxType
    BY <2>1, ReadDoneKeeps DEF Keeps
  <2>3. /\ done.read = Counted(r).read
        /\ done.queue = SubSeq(Counted(r).queue, n + 1, Len(Counted(r).queue))
    BY <2>1, ReadDoneCount
  <2> QED BY <2>1, <2>2, <2>3
<1>5. s = [done EXCEPT !.read = Append(@, piece)]
  BY DEF Reads
<1> HIDE DEF piece, done
<1>6. s.read = Append(r.read, piece) /\ s.queue = SubSeq(r.queue, n + 1, Len(r.queue))
  BY <1>4, <1>5 DEF RxType
<1>7. \A i \in 1..Len(s.queue) : s.queue[i] = r.queue[n + i] /\ n + i \in 1..Len(r.queue)
  BY <1>1, <1>6, RestOfQueue
<1>8. /\ Len(s.read) = Len(r.read) + 1 /\ Len(r.read) \in Nat
      /\ \A i \in 1..Len(r.read) : s.read[i] = r.read[i]
      /\ s.read[Len(r.read) + 1] = piece
  BY <1>1, <1>2, <1>6
<1> SUFFICES ASSUME NEW g, InOrder(r, g)
             PROVE  InOrder(s, g)
  BY DEF Onward
<1>9. r.queue[1].num = 0 /\ r.queue[1].msg \in Int /\ Before(r.queue[1], g)
  BY <1>1, <1>3, SMTT(30) DEF InOrder, StartsPayload, FullIsFirst, Frames
<1>10. \A i \in 1..Len(s.queue) : Before(s.queue[i], g) /\ FullIsFirst(s.queue[i])
  BY <1>7, Zenon DEF InOrder
<1>11. ASSUME NEW i \in 1..Len(s.queue), NEW j \in 1..Len(s.queue), i < j
       PROVE  Before(s.queue[i], s.queue[j])
  <2>1. n + i < n + j
    BY <1>1, <1>11
  <2> QED BY <1>7, <2>1, Zenon DEF InOrder
<1>12. ASSUME NEW i \in 1..Len(s.read)
       PROVE  /\ s.read[i] # <<>> /\ s.read[i][1] \in Frames /\ s.read[i][1].num = 0
              /\ Before(s.read[i][1], g)
              /\ \A j \in 1..Len(s.queue) : Before(s.read[i][1], s.queue[j])
  <2>1. CASE i \in 1..Len(r.read)
    <3>1. s.read[i] = r.read[i]
      BY <1>8, <2>1
    <3>2. /\ r.read[i] # <<>> /\ r.read[i][1] \in Frames /\ r.read[i][1].num = 0
          /\ Before(r.read[i][1], g)
          /\ \A j \in 1..Len(r.queue) : Before(r.read[i][1], r.queue[j])
      BY <2>1, Zenon DEF InOrder
    <3>3. \A j \in 1..Len(s.queue) : Before(r.read[i][1], s.queue[j])
      BY <1>7, <3>2, Zenon
    <3> QED BY <3>1, <3>2, <3>3, Zenon
  <2>2. CASE i = Len(r.read) + 1
    <3>1. s.read[i] # <<>> /\ s.read[i][1] = r.queue[1]
      BY <1>1, <1>2, <1>8, <2>2
    <3>2. ASSUME NEW j \in 1..Len(s.queue)
          PROVE  Before(r.queue[1], s.queue[j])
      <4>1. 1 < n + j /\ 1 \in 1..Len(r.queue)
        BY <1>1
      <4> QED BY <1>7, <4>1, Zenon DEF InOrder
    <3>3. Before(s.read[i][1], g) /\ \A j \in 1..Len(s.queue) : Before(s.read[i][1], s.queue[j])
      BY <1>9, <3>1, <3>2, Zenon
    <3> QED BY <1>3, <1>9, <3>1, <3>3, Zenon
  <2> QED BY <1>8, <2>1, <2>2
<1>13. ASSUME NEW i \in 1..Len(s.read), NEW j \in 1..Len(s.read), i < j
       PROVE  s.read[i][1].msg < s.read[j][1].msg
  <2>1. CASE j \in 1..Len(r.read)
    <3>1. i \in 1..Len(r.read)
      BY <1>8, <1>13, <2>1
    <3> QED BY <1>8, <1>13, <2>1, <3>1 DEF InOrder
  <2>2. CASE j = Len(r.read) + 1
    <3>1. i \in 1..Len(r.read) /\ s.read[j][1] = r.queue[1] /\ 1 \in 1..Len(r.queue)
      <4>1. s.read[j][1] = r.queue[1]
        BY <1>2, <1>8, <2>2, Zenon
      <4>2. i \in 1..Len(r.read)
        BY <1>8, <1>13, <2>2
      <4> QED BY <1>1, <4>1, <4>2
    <3>2. /\ r.read[i][1] \in Frames /\ r.read[i][1].num = 0
          /\ Before(r.read[i][1], r.queue[1])
      BY <3>1, Zenon DEF InOrder
    <3>3. r.read[i][1].msg < r.queue[1].msg
      BY <1>9, <3>2 DEF Before
    <3> QED BY <1>8, <3>1, <3>3
  <2> QED BY <1>8, <2>1, <2>2
<1> QED BY <1>10, <1>11, <1>12, <1>13, Zenon DEF InOrder

LEMMA FragReadOnward ==
    ASSUME NEW r \in RxType
    PROVE  Onward(r, FragRead(r))
<1> DEFINE s == FragRead(r)
           counted == Counted(r)
<1>1. PICK n \in 0..Len(r.queue) :
         \/ s = ReadDone(counted, n)
         \/ s = ReadErrorFlush(ReadDone(counted, n))
         \/ Reads(r, s, n)
  BY FragReadShape
<1>2. /\ counted \in RxType /\ Keeps(r, counted) /\ counted.queue = r.queue
      /\ counted.read = r.read
  BY CountedKeeps
<1> HIDE DEF s, counted
<1>3. ReadDone(counted, n) \in RxType /\ Onward(r, ReadDone(counted, n))
  <2>1. ReadDone(counted, n) \in RxType
    BY <1>2, ReadDoneKeeps DEF Keeps
  <2>2. Onward(r, counted) /\ Onward(counted, ReadDone(counted, n))
    BY <1>2, SameOnward, ReadDoneOnward
  <2> QED BY <2>1, <2>2, OnwardTransitive
<1>4. Onward(r, ReadErrorFlush(ReadDone(counted, n)))
  BY <1>3, ReadErrorFlushOnward, OnwardTransitive
<1>5. Reads(r, s, n) => Onward(r, s)
  BY ReadsOnward
<1> QED BY <1>1, <1>3, <1>4, <1>5 DEF s

LEMMA NotifyReceivedOnward ==
    ASSUME NEW r \in RxType
    PROVE  Onward(r, NotifyReceived(r))
<1> DEFINE counted == [r EXCEPT !.count = @ + 1]
<1>1. counted \in RxType /\ counted.queue = r.queue /\ counted.read = r.read
  <2>1. r.count + 1 \in Int
    BY DEF RxType
  <2> QED BY <2>1 DEF RxType
<1>2. NotifyReceived(r) = IF setup.polling THEN counted ELSE FragRead(counted)
  BY DEF NotifyReceived
<1> HIDE DEF counted
<1>3. Onward(r, counted) /\ Onward(counted, FragRead(counted))
  BY <1>1, SameOnward, FragReadOnward
<1> QED BY <1>2, <1>3, OnwardTransitive

LEMMA FlushLastTransactionOnward ==
    ASSUME NEW r \in RxType
    PROVE  Onward(r, FlushLastTransaction(r))
<1> DEFINE rest == FreeUntil(r, {i \in DOMAIN r.queue : r.queue[i].tid # r.tid})
           s == [rest EXCEPT !.tid = Head(rest.queue).tid, !.index = 1]
<1>1. rest \in RxType /\ Onward(r, rest)
  BY FreeUntilKeeps, FreeUntilOnward DEF Keeps
<1>2. FlushLastTransaction(r) = IF rest.queue = <<>> THEN rest ELSE s
  BY DEF FlushLastTransaction
<1> HIDE DEF rest
<1>3. s.queue = rest.queue /\ s.read = rest.read
  BY <1>1 DEF RxType
<1> HIDE DEF s
<1>4. Onward(rest, s)
  BY <1>3, SameOnward
<1> QED BY <1>1, <1>2, <1>4, OnwardTransitive

LEMMA ReadProcessFailOnward ==
    ASSUME NEW r \in RxType, NEW id
    PROVE  Onward(r, ReadProcessFail(r, id))
<1> DEFINE starts == {i \in DOMAIN r.queue :
                        \/ r.queue[i].type = "full"
                        \/ r.queue[i].type = "nonlast" /\ r.queue[i].num = 0 /\ r.tid # id}
           failed == [r EXCEPT !.dropped = TRUE, !.index = 0]
           rest == FreeUntil(failed, starts)
           s == [rest EXCEPT !.dropped = FALSE, !.tid = Head(rest.queue).tid, !.index = 1]
<1>1. failed \in RxType /\ failed.queue = r.queue /\ failed.read = r.read
  <2>1. 0 \in 0..MaxFragments
    BY WpsFragAssumption
  <2> QED BY <2>1 DEF RxType
<1>2. ReadProcessFail(r, id) =
        IF rest.queue = <<>> THEN rest
        ELSE IF Head(rest.queue).type = "full" THEN NotifyReceived(rest)
        ELSE s
  BY DEF ReadProcessFail
<1>3. starts \in SUBSET DOMAIN failed.queue
  BY <1>1
<1> HIDE DEF failed, starts
<1>4. rest \in RxType /\ Onward(r, rest)
  <2>1. rest \in RxType
    BY <1>1, <1>3, FreeUntilKeeps DEF Keeps
  <2>2. Onward(r, failed) /\ Onward(failed, rest)
    BY <1>1, <1>3, SameOnward, FreeUntilOnward
  <2> QED BY <2>1, <2>2, OnwardTransitive
<1> HIDE DEF rest
<1>5. s.queue = rest.queue /\ s.read = rest.read
  BY <1>4 DEF RxType
<1> HIDE DEF s
<1>6. Onward(r, s) /\ Onward(r, NotifyReceived(rest))
  BY <1>4, <1>5, SameOnward, NotifyReceivedOnward, OnwardTransitive
<1> QED BY <1>2, <1>4, <1>6

LEMMA ProcessFrameOnward ==
    ASSUME NEW r \in RxType, NEW f,
           r.dropped => Len(r.queue) > 0
    PROVE  Onward(r, ProcessFrame(r, f))
<1>1. Onward(r, ProcessFull([r EXCEPT !.dropped = FALSE]))
  <2> DEFINE clear == [r EXCEPT !.dropped = FALSE]
             rest == IF clear.index # 0 THEN FlushLastTransaction(clear) ELSE clear
  <2>1. clear \in RxType /\ clear.queue = r.queue /\ clear.read = r.read
    BY DEF RxType
  <2> HIDE DEF clear
  <2>2. rest \in RxType
    BY <2>1, FlushLastTransactionKeeps DEF Keeps
  <2>3. Onward(r, clear) /\ Onward(clear, FlushLastTransaction(clear))
    BY <2>1, SameOnward, FlushLastTransactionOnward
  <2>4. Onward(r, rest)
    BY <2>3, OnwardTransitive
  <2>5. ProcessFull(clear) = NotifyReceived(rest)
    BY DEF ProcessFull
  <2> HIDE DEF rest
  <2>6. Onward(r, NotifyReceived(rest))
    BY <2>2, <2>4, NotifyReceivedOnward, OnwardTransitive
  <2> QED BY <2>5, <2>6 DEF clear
<1>2. r.dropped => Onward(r, ReadDone(r, 1))
  <2>1. r.dropped => 1 \in 0..Len(r.queue)
    BY DEF RxType
  <2> QED BY <2>1, ReadDoneOnward
<1>3. Onward(r, ReadProcessFail(r, f.tid)) /\ Onward(r, FlushLastTransaction(r))
  BY ReadProcessFailOnward, FlushLastTransactionOnward
<1>4. Onward(r, ProcessNonLast(r, f))
  <2> DEFINE s == [r EXCEPT !.tid = f.tid, !.index = @ + 1]
  <2>1. s.queue = r.queue /\ s.read = r.read
    BY DEF RxType
  <2>2. ProcessNonLast(r, f) \in {s, ReadProcessFail(r, f.tid), FlushLastTransaction(r)}
    BY DEF ProcessNonLast
  <2> HIDE DEF s
  <2>3. Onward(r, s)
    BY <2>1, SameOnward
  <2> QED BY <1>3, <2>2, <2>3
<1>5. Onward(r, ProcessLast(r, f))
  <2> DEFINE ended == [r EXCEPT !.index = 0]
  <2>1. ended \in RxType /\ ended.queue = r.queue /\ ended.read = r.read
    <3>1. 0 \in 0..MaxFragments
      BY WpsFragAssumption
    <3> QED BY <3>1 DEF RxType
  <2>2. ProcessLast(r, f) \in
           {NotifyReceived(ended), ReadProcessFail(r, f.tid), FlushLastTransaction(r)}
    BY DEF ProcessLast
  <2> HIDE DEF ended
  <2>3. Onward(r, ended) /\ Onward(ended, NotifyReceived(ended))
    BY <2>1, SameOnward, NotifyReceivedOnward
  <2>4. Onward(r, NotifyReceived(ended))
    BY <2>3, OnwardTransitive
  <2> QED BY <1>3, <2>2, <2>4
<1> QED BY <1>1, <1>2, <1>3, <1>4, <1>5 DEF ProcessFrame
-----------------------------------------------------------------------------
(* Types and sizes, with what is going to be received.  Only the count of   *)
(* readable payloads is left open.                                          *)
Calls == [msg : 1..NumMsgs, count : 1..MaxFragments, next : 0..MaxFragments]

Base ==
    /\ setup \in Setups
    /\ sentCount \in 0..NumMsgs /\ nextId \in 0..MAX_TRANSACTION_ID - 1
    /\ sending = NotSending \/ (sending \in Calls /\ sending.next <= sending.count)
    /\ txq \in Seq(Frames)
    /\ events \in Seq({"received", "overrun"}) /\ overrun \in BOOLEAN
    /\ loaded \in Int
    /\ rx \in RxType
    /\ Len(rx.frag) <= setup.queueSize /\ Len(rx.queue) <= setup.queueSize
    /\ Nodes(rx) <= setup.poolSize

LEMMA SetupTypes ==
    ASSUME Base
    PROVE  /\ setup.queueSize \in Nat /\ setup.queueSize > 0 /\ setup.poolSize \in Nat
           /\ setup.polling \in BOOLEAN
BY WpsFragAssumption DEF Base, SetupType

LEMMA RxTypes ==
    ASSUME NEW r \in RxType
    PROVE  /\ r.frag \in Seq(Frames) /\ Len(r.frag) \in Nat
           /\ r.queue \in Seq(Frames) /\ Len(r.queue) \in Nat /\ r.pool \in Nat
BY DEF RxType

LEMMA BaseInit == Init => Base
<1> SUFFICES ASSUME Init PROVE Base
  OBVIOUS
<1>1. setup \in Setups /\ setup.poolSize \in Nat /\ setup.queueSize \in Nat
  BY WpsFragAssumption DEF Init, SetupType
<1>2. 0 \in 0..MaxFragments /\ 0 \in 0..MAX_TRANSACTION_ID - 1
  BY WpsFragAssumption
<1>3. rx \in RxType /\ rx.frag = <<>> /\ rx.queue = <<>> /\ rx.pool = setup.poolSize
  BY <1>1, <1>2 DEF Init, RxType
<1>4. Nodes(rx) = setup.poolSize /\ Len(rx.frag) = 0 /\ Len(rx.queue) = 0
  BY <1>1, <1>3 DEF Nodes
<1>5. sentCount \in 0..NumMsgs /\ nextId \in 0..MAX_TRANSACTION_ID - 1 /\ loaded \in Int
  BY <1>2, WpsFragAssumption DEF Init, NotReading
<1>6. txq \in Seq(Frames) /\ events \in Seq({"received", "overrun"}) /\ sending = NotSending
  BY DEF Init
<1>7. overrun \in BOOLEAN
  BY Zenon DEF Init
<1>8. Len(rx.frag) <= setup.queueSize /\ Len(rx.queue) <= setup.queueSize
  BY <1>1, <1>4
<1>9. Nodes(rx) <= setup.poolSize
  BY <1>1, <1>4
<1>10. sending = NotSending \/ (sending \in Calls /\ sending.next <= sending.count)
  BY <1>6
<1> QED BY <1>1, <1>3, <1>5, <1>6, <1>7, <1>8, <1>9, <1>10, Zenon DEF Base

(* A frame is stored in the fragment queue, refused by it or refused by the *)
(* connection.                                                              *)
LEMMA ReceiveEffect ==
    ASSUME Base, NEW frame \in Frames, Receive(frame)
    PROVE  /\ rx' \in RxType /\ rx'.queue = rx.queue /\ rx'.read = rx.read
           /\ rx'.count = rx.count /\ rx'.index = rx.index /\ rx'.tid = rx.tid
           /\ rx'.dropped = rx.dropped
           /\ rx'.frag = rx.frag \/ rx'.frag = Append(rx.frag, frame)
           /\ Len(rx'.frag) <= setup.queueSize
           /\ Nodes(rx') <= Nodes(rx)
           /\ PoolFits => Nodes(rx') = Nodes(rx)
           /\ events' \in Seq({"received", "overrun"}) /\ overrun' \in BOOLEAN
           /\ loaded' = loaded
           /\ stored' = stored \/ stored' = [stored EXCEPT ![frame.msg] = @ + 1]
<1>1. setup.poolSize \in Nat /\ setup.queueSize \in Nat
  BY SetupTypes
<1>2. /\ rx.pool \in Nat /\ rx.frag \in Seq(Frames) /\ Len(rx.frag) \in Nat
      /\ rx.queue \in Seq(Frames) /\ Len(rx.queue) \in Nat /\ rx \in RxType
      /\ Nodes(rx) <= setup.poolSize /\ Len(rx.frag) <= setup.queueSize
  BY RxTypes DEF Base
<1>3. CASE HasPlace
  <2>1. rx.pool > 0 /\ rx.pool - 1 \in Nat
    BY <1>2, <1>3 DEF HasPlace
  <2>2. rx' = [rx EXCEPT !.pool = @ - 1, !.frag = IF Len(@) < setup.queueSize
                                                   THEN Append(@, frame) ELSE @]
    BY <1>3 DEF Receive
  <2>3. /\ events' = Append(events, "received") /\ loaded' = loaded /\ overrun' = overrun
        /\ stored' = [stored EXCEPT ![frame.msg] = @ + 1]
    BY <1>3 DEF Receive
  <2>4. events' \in Seq({"received", "overrun"}) /\ overrun' \in BOOLEAN
    BY <2>3 DEF Base
  <2>5. CASE Len(rx.frag) < setup.queueSize
    <3>1. Append(rx.frag, frame) \in Seq(Frames) /\ Len(Append(rx.frag, frame)) = Len(rx.frag) + 1
      BY <1>2
    <3>2. rx' = [rx EXCEPT !.pool = rx.pool - 1, !.frag = Append(rx.frag, frame)]
      BY <2>2, <2>5
    <3>3. /\ rx' \in RxType /\ rx'.queue = rx.queue /\ rx'.read = rx.read
          /\ rx'.count = rx.count /\ rx'.index = rx.index /\ rx'.tid = rx.tid
          /\ rx'.dropped = rx.dropped /\ rx'.pool = rx.pool - 1
          /\ rx'.frag = Append(rx.frag, frame)
      BY <1>2, <2>1, <3>1, <3>2 DEF RxType
    <3>4. Len(rx'.frag) = Len(rx.frag) + 1 /\ Len(rx'.queue) = Len(rx.queue)
      BY <1>2, <3>1, <3>3
    <3>5. Nodes(rx') = Nodes(rx) /\ Nodes(rx) \in Nat
      <4>1. Nodes(rx') = (rx.pool - 1) + (Len(rx.frag) + 1) + Len(rx.queue)
        BY <3>3, <3>4, Zenon DEF Nodes
      <4>2. \A p, f, q \in Nat : (p - 1) + (f + 1) + q = p + f + q /\ p + f + q \in Nat
        OBVIOUS
      <4> QED BY <1>2, <4>1, <4>2 DEF Nodes
    <3>6. Nodes(rx') = Nodes(rx) /\ Nodes(rx') <= Nodes(rx) /\ Len(rx'.frag) <= setup.queueSize
      BY <1>1, <1>2, <2>5, <3>4, <3>5
    <3> QED BY <2>3, <2>4, <3>3, <3>6
  <2>6. CASE ~(Len(rx.frag) < setup.queueSize)
    <3>1. rx' = [rx EXCEPT !.pool = rx.pool - 1]
      BY <1>2, <2>2, <2>6 DEF RxType
    <3>2. /\ rx' \in RxType /\ rx'.queue = rx.queue /\ rx'.read = rx.read
          /\ rx'.count = rx.count /\ rx'.index = rx.index /\ rx'.tid = rx.tid
          /\ rx'.dropped = rx.dropped /\ rx'.pool = rx.pool - 1 /\ rx'.frag = rx.frag
      BY <1>2, <2>1, <3>1 DEF RxType
    <3>3. Len(rx'.frag) = Len(rx.frag) /\ Len(rx'.queue) = Len(rx.queue)
      BY <1>2, <3>2
    <3>4. Nodes(rx') <= Nodes(rx)
      <4>1. Nodes(rx') = (rx.pool - 1) + Len(rx.frag) + Len(rx.queue)
        BY <3>2, <3>3, Zenon DEF Nodes
      <4>2. \A p, f, q \in Nat : (p - 1) + f + q <= p + f + q
        OBVIOUS
      <4> QED BY <1>2, <4>1, <4>2 DEF Nodes
    <3>6. ~PoolFits
      <4>1. SUFFICES ASSUME PoolFits PROVE FALSE
        OBVIOUS
      <4>2. setup.poolSize <= setup.queueSize
        BY <4>1 DEF PoolFits, Base
      <4>3. Nodes(rx) = rx.pool + Len(rx.frag) + Len(rx.queue)
        BY DEF Nodes
      <4> QED BY <1>1, <1>2, <2>1, <2>6, <4>2, <4>3, SMTT(30)
    <3> QED BY <1>2, <2>3, <2>4, <3>2, <3>4, <3>6
  <2> QED BY <2>5, <2>6
<1>4. CASE ~HasPlace
  <2>1. /\ rx' = rx /\ loaded' = loaded /\ events' = Append(events, "overrun")
        /\ stored' = stored
    BY <1>4 DEF Receive
  <2>2. overrun' \in BOOLEAN
    BY <1>4, Zenon DEF Receive
  <2>3. events' \in Seq({"received", "overrun"})
    BY <2>1 DEF Base
  <2>4. Nodes(rx) \in Nat
    BY <1>2 DEF Nodes
  <2> QED BY <1>2, <2>1, <2>2, <2>3, <2>4
<1> QED BY <1>3, <1>4

(* The oldest frame changes queues, or is lost with its node.               *)
LEMMA MoveFrameEffect ==
    ASSUME Base, rx.frag # <<>>
    PROVE  LET m == MoveFrame(rx)
               f == Head(rx.frag)
           IN  /\ f \in Frames /\ m \in RxType
               /\ m.frag = Tail(rx.frag) /\ m.count = rx.count /\ m.read = rx.read
               /\ m.index = rx.index /\ m.tid = rx.tid /\ m.dropped = rx.dropped
               /\ m.queue = IF Len(rx.queue) < setup.queueSize THEN Append(rx.queue, f)
                                                               ELSE rx.queue
               /\ Len(m.queue) > 0 /\ Len(m.queue) <= setup.queueSize
               /\ Nodes(m) <= Nodes(rx) /\ (PoolFits => Nodes(m) = Nodes(rx))
<1> DEFINE m == MoveFrame(rx)
           f == Head(rx.frag)
<1>1. setup.poolSize \in Nat /\ setup.queueSize \in Nat /\ setup.queueSize > 0
  BY SetupTypes
<1>2. /\ rx.pool \in Nat /\ rx.frag \in Seq(Frames) /\ Len(rx.frag) \in Nat
      /\ rx.queue \in Seq(Frames) /\ Len(rx.queue) \in Nat /\ rx \in RxType
      /\ Nodes(rx) <= setup.poolSize /\ Len(rx.queue) <= setup.queueSize
  BY RxTypes DEF Base
<1>3. /\ f \in Frames /\ Tail(rx.frag) \in Seq(Frames) /\ Len(Tail(rx.frag)) = Len(rx.frag) - 1
      /\ Len(rx.frag) > 0
  BY <1>2
<1>4. CASE Len(rx.queue) < setup.queueSize
  <2>1. Append(rx.queue, f) \in Seq(Frames) /\ Len(Append(rx.queue, f)) = Len(rx.queue) + 1
    BY <1>2, <1>3
  <2>2. m = [rx EXCEPT !.frag = Tail(rx.frag), !.queue = Append(rx.queue, f)]
    BY <1>4 DEF MoveFrame
  <2> HIDE DEF f, m
  <2>3. /\ m \in RxType /\ m.frag = Tail(rx.frag) /\ m.count = rx.count /\ m.read = rx.read
        /\ m.index = rx.index /\ m.tid = rx.tid /\ m.dropped = rx.dropped
        /\ m.queue = Append(rx.queue, f) /\ m.pool = rx.pool
    <3>1. Tail(rx.frag) \in Seq(Frames)
      BY <1>3
    <3> QED BY <1>2, <2>1, <2>2, <3>1 DEF RxType
  <2>4. Len(m.frag) = Len(rx.frag) - 1 /\ Len(m.queue) = Len(rx.queue) + 1
    BY <1>2, <1>3, <2>1, <2>3
  <2>5. Nodes(m) = Nodes(rx) /\ Nodes(rx) \in Nat
    <3>1. Nodes(m) = rx.pool + (Len(rx.frag) - 1) + (Len(rx.queue) + 1)
      BY <2>3, <2>4, Zenon DEF Nodes
    <3>2. \A p, k, q \in Nat : p + (k - 1) + (q + 1) = p + k + q /\ p + k + q \in Nat
      OBVIOUS
    <3> QED BY <1>2, <3>1, <3>2 DEF Nodes
  <2>6. /\ Nodes(m) <= Nodes(rx) /\ Nodes(m) = Nodes(rx)
        /\ Len(m.queue) > 0 /\ Len(m.queue) <= setup.queueSize
    BY <1>1, <1>2, <1>4, <2>4, <2>5
  <2> QED BY <1>3, <1>4, <2>3, <2>6 DEF f, m
<1>5. CASE ~(Len(rx.queue) < setup.queueSize)
  <2>1. m = [rx EXCEPT !.frag = Tail(rx.frag)]
    BY <1>2, <1>5 DEF MoveFrame, RxType
  <2> HIDE DEF f, m
  <2>2. /\ m \in RxType /\ m.frag = Tail(rx.frag) /\ m.count = rx.count /\ m.read = rx.read
        /\ m.index = rx.index /\ m.tid = rx.tid /\ m.dropped = rx.dropped
        /\ m.queue = rx.queue /\ m.pool = rx.pool
    <3>1. Tail(rx.frag) \in Seq(Frames)
      BY <1>3
    <3> QED BY <1>2, <2>1, <3>1 DEF RxType
  <2>3. Len(m.frag) = Len(rx.frag) - 1 /\ Len(m.queue) = Len(rx.queue)
    BY <1>2, <1>3, <2>2
  <2>4. Nodes(m) <= Nodes(rx)
    <3>1. Nodes(m) = rx.pool + (Len(rx.frag) - 1) + Len(rx.queue)
      BY <2>2, <2>3, Zenon DEF Nodes
    <3>2. \A p, k, q \in Nat : p + (k - 1) + q <= p + k + q
      OBVIOUS
    <3> QED BY <1>2, <3>1, <3>2 DEF Nodes
  <2>5. Nodes(m) <= Nodes(rx) /\ Len(m.queue) > 0 /\ Len(m.queue) <= setup.queueSize
    BY <1>1, <1>2, <1>5, <2>3, <2>4
  <2>6. ~PoolFits
    <3>1. SUFFICES ASSUME PoolFits PROVE FALSE
      OBVIOUS
    <3>2. setup.poolSize <= setup.queueSize
      BY <3>1 DEF PoolFits, Base
    <3>3. Nodes(rx) = rx.pool + Len(rx.frag) + Len(rx.queue)
      BY DEF Nodes
    <3> QED BY <1>1, <1>2, <1>3, <1>5, <3>2, <3>3
  <2> QED BY <1>3, <1>5, <2>2, <2>5, <2>6 DEF f, m
<1> QED BY <1>4, <1>5

(* One callback of the receiver.                                            *)
LEMMA RxCallbackEffect ==
    ASSUME Base, RxCallback
    PROVE  /\ rx' \in RxType
           /\ Len(rx'.frag) <= setup.queueSize /\ Len(rx'.queue) <= setup.queueSize
           /\ Nodes(rx') <= Nodes(rx) /\ (PoolFits => Nodes(rx') = Nodes(rx))
           /\ Announces(rx, rx')
           /\ \/ rx'.frag = rx.frag /\ Onward(rx, rx')
              \/ /\ rx.frag # <<>> /\ rx'.frag = Tail(rx.frag)
                 /\ Onward(MoveFrame(rx), rx')
<1>1. setup.queueSize \in Nat
  BY SetupTypes
<1>2. /\ rx \in RxType /\ rx.frag \in Seq(Frames) /\ Len(rx.frag) \in Nat /\ Len(rx.queue) \in Nat
      /\ Len(rx.frag) <= setup.queueSize /\ Len(rx.queue) <= setup.queueSize
      /\ Nodes(rx) \in Nat
  BY RxTypes, SMTT(30) DEF Base, Nodes
<1>3. CASE Head(events) = "received" /\ rx.frag # <<>>
  <2> DEFINE m == MoveFrame(rx)
             f == Head(rx.frag)
  <2>1. /\ f \in Frames /\ m \in RxType /\ m.frag = Tail(rx.frag) /\ m.count = rx.count
        /\ Len(m.queue) > 0 /\ Len(m.queue) <= setup.queueSize
        /\ Nodes(m) <= Nodes(rx) /\ (PoolFits => Nodes(m) = Nodes(rx))
    BY <1>3, MoveFrameEffect
  <2>2. rx' = ProcessFrame(m, f)
    BY <1>3 DEF RxCallback
  <2> HIDE DEF m, f
  <2>3. Keeps(m, rx') /\ Announces(m, rx') /\ Onward(m, rx')
    BY <2>1, <2>2, ProcessFrameKeeps, ProcessFrameCount, ProcessFrameOnward
  <2>4. /\ rx' \in RxType /\ rx'.frag = Tail(rx.frag)
        /\ Nodes(rx') = Nodes(m) /\ Len(rx'.queue) <= Len(m.queue)
    BY <2>1, <2>3 DEF Keeps
  <2>5. Len(rx'.frag) = Len(rx.frag) - 1
    BY <1>2, <1>3, <2>4
  <2>6. Len(rx'.frag) <= setup.queueSize
    BY <1>1, <1>2, <2>5
  <2>7. Len(rx'.queue) <= setup.queueSize
    <3>1. Len(rx'.queue) \in Nat /\ Len(m.queue) \in Nat
      BY <2>1, <2>4, RxTypes
    <3>2. \A a, b, c \in Nat : a <= b /\ b <= c => a <= c
      OBVIOUS
    <3> QED BY <1>1, <2>1, <2>4, <3>1, <3>2
  <2>8. Announces(rx, rx')
    BY <2>1, <2>3 DEF Announces
  <2> QED BY <1>3, <2>1, <2>3, <2>4, <2>6, <2>7, <2>8 DEF m
<1>4. ASSUME rx' = rx
      PROVE  /\ rx' \in RxType
             /\ Len(rx'.frag) <= setup.queueSize /\ Len(rx'.queue) <= setup.queueSize
             /\ Nodes(rx') <= Nodes(rx) /\ Nodes(rx') = Nodes(rx)
             /\ Announces(rx, rx') /\ rx'.frag = rx.frag /\ Onward(rx, rx')
  BY <1>2, <1>4 DEF Announces, Onward
<1>5. CASE Head(events) = "received" /\ rx.frag = <<>>
  <2>1. rx' = rx
    BY <1>5 DEF RxCallback
  <2> QED BY <1>4, <2>1
<1>6. CASE Head(events) = "overrun"
  <2> DEFINE s == ReadDone(rx, Len(rx.queue))
  <2>1. Keeps(rx, s) /\ s.count = rx.count /\ Onward(rx, s)
    BY <1>2, ReadDoneKeeps, ReadDoneCount, ReadDoneOnward
  <2>2. rx' = s \/ rx' = rx
    BY <1>6 DEF RxCallback
  <2> HIDE DEF s
  <2>3. CASE rx' = s
    <3>1. /\ rx' \in RxType /\ rx'.frag = rx.frag /\ Nodes(rx') = Nodes(rx)
          /\ Len(rx'.queue) <= Len(rx.queue)
      BY <2>1, <2>3 DEF Keeps
    <3>2. Len(rx'.queue) \in Nat
      BY <3>1, RxTypes
    <3>3. Len(rx'.queue) <= setup.queueSize
      BY <1>1, <1>2, <3>1, <3>2
    <3>4. Len(rx'.frag) <= setup.queueSize /\ Nodes(rx') <= Nodes(rx)
      BY <1>2, <3>1
    <3> QED BY <2>1, <2>3, <3>1, <3>3, <3>4 DEF Announces
  <2> QED BY <1>4, <2>2, <2>3
<1>7. Head(events) \in {"received", "overrun"}
  BY DEF RxCallback, Base
<1> QED BY <1>3, <1>5, <1>6, <1>7

LEMMA PollReadEffect ==
    ASSUME Base, PollRead
    PROVE  /\ rx' \in RxType /\ rx'.frag = rx.frag /\ Len(rx'.queue) <= Len(rx.queue)
           /\ Nodes(rx') = Nodes(rx) /\ rx'.count = rx.count /\ Onward(rx, rx')
<1> DEFINE s == FragRead(rx)
<1>1. rx \in RxType /\ rx.count \in Int
  BY DEF Base, RxType
<1>2. Keeps(rx, s) /\ Onward(rx, s)
  BY <1>1, FragReadKeeps, FragReadOnward
<1>3. rx' = [s EXCEPT !.count = rx.count]
  BY DEF PollRead
<1> HIDE DEF s
<1>4. s \in RxType /\ s.frag = rx.frag /\ Nodes(s) = Nodes(rx) /\ Len(s.queue) <= Len(rx.queue)
  BY <1>2 DEF Keeps
<1>5. /\ rx' \in RxType /\ rx'.frag = s.frag /\ rx'.queue = s.queue /\ rx'.pool = s.pool
      /\ rx'.read = s.read /\ rx'.count = rx.count
  BY <1>1, <1>3, <1>4 DEF RxType
<1>6. Nodes(rx') = Nodes(rx) /\ Len(rx'.queue) <= Len(rx.queue)
  BY <1>4, <1>5, Zenon DEF Nodes
<1>7. Onward(s, rx')
  BY <1>5, SameOnward
<1>8. Onward(rx, rx')
  BY <1>2, <1>7, OnwardTransitive
<1> QED BY <1>4, <1>5, <1>6, <1>8

LEMMA PollStoreCountEffect ==
    ASSUME Base, PollStoreCount
    PROVE  /\ rx' \in RxType /\ rx'.frag = rx.frag /\ rx'.queue = rx.queue
           /\ rx'.read = rx.read /\ Nodes(rx') = Nodes(rx) /\ rx'.count = loaded - 1
<1>1. rx \in RxType /\ loaded - 1 \in Int
  BY DEF Base
<1>2. rx' = [rx EXCEPT !.count = loaded - 1]
  BY DEF PollStoreCount
<1>3. /\ rx' \in RxType /\ rx'.frag = rx.frag /\ rx'.queue = rx.queue /\ rx'.pool = rx.pool
      /\ rx'.read = rx.read /\ rx'.count = loaded - 1
  BY <1>1, <1>2 DEF RxType
<1>4. Nodes(rx') = Nodes(rx)
  BY <1>3, Zenon DEF Nodes
<1> QED BY <1>3, <1>4

(* A call of wps_frag_send from fragment to fragment.                       *)
LEMMA FrameType ==
    ASSUME NEW num \in 0..MaxFragments - 1, NEW count, NEW id \in 0..MAX_TRANSACTION_ID - 1,
           NEW msg \in 1..NumMsgs
    PROVE  Frame(num, count, id, msg) \in Frames
BY DEF Frame, Frames, TransferType

LEMMA SendFragmentEffect ==
    ASSUME Base, SendFragment
    PROVE  \/ /\ sending \in Calls /\ sending.next < sending.count
              /\ LET frame == Frame(sending.next, sending.count, nextId, sending.msg)
                 IN  frame \in Frames /\ txq' = Append(txq, frame)
              /\ Len(txq) < TxQueueSize
              /\ sending' \in Calls /\ sending'.next = sending.next + 1
              /\ sending'.msg = sending.msg /\ sending'.count = sending.count
           \/ sending' = NotSending /\ txq' = txq /\ sending \in Calls
<1>1. sending \in Calls /\ sending.next < sending.count
  BY DEF Base, SendFragment
<1>2. CASE Len(txq) < TxQueueSize
  <2>1. sending.next \in 0..MaxFragments - 1 /\ sending.next + 1 \in 0..MaxFragments
    BY <1>1, WpsFragAssumption DEF Calls
  <2>2. Frame(sending.next, sending.count, nextId, sending.msg) \in Frames
    BY <1>1, <2>1, FrameType DEF Base, Calls
  <2>3. /\ txq' = Append(txq, Frame(sending.next, sending.count, nextId, sending.msg))
        /\ sending' = [sending EXCEPT !.next = @ + 1]
    BY <1>2 DEF SendFragment
  <2>4. /\ sending' \in Calls /\ sending'.next = sending.next + 1
        /\ sending'.msg = sending.msg /\ sending'.count = sending.count
    BY <1>1, <2>1, <2>3 DEF Calls
  <2> QED BY <1>1, <1>2, <2>2, <2>3, <2>4
<1>3. CASE ~(Len(txq) < TxQueueSize)
  BY <1>1, <1>3 DEF SendFragment
<1> QED BY <1>2, <1>3

LEMMA NodesNat ==
    ASSUME NEW r \in RxType
    PROVE  Nodes(r) \in Nat
<1>1. r.pool \in Nat /\ Len(r.frag) \in Nat /\ Len(r.queue) \in Nat
  BY DEF RxType
<1> QED BY <1>1 DEF Nodes

LEMMA BaseStep ==
    Base /\ [Next]_vars => Base' /\ (PoolFits => Nodes(rx') = Nodes(rx))
<1> SUFFICES ASSUME Base, [Next]_vars
             PROVE  Base' /\ (PoolFits => Nodes(rx') = Nodes(rx))
  OBVIOUS
<1>0. setup.queueSize \in Nat /\ setup.poolSize \in Nat /\ rx \in RxType
  BY SetupTypes DEF Base
<1>1. ASSUME NEW count \in 1..MaxFragments, NEW exact \in BOOLEAN, SendBegin(count, exact)
      PROVE  Base' /\ rx' = rx
  <2>1. sentCount + 1 \in 1..NumMsgs
    BY <1>1, WpsFragAssumption DEF SendBegin, Base
  <2>2. sending' \in Calls /\ sending'.next <= sending'.count
    BY <1>1, <2>1, WpsFragAssumption DEF SendBegin, Calls
  <2> QED BY <1>1, <2>1, <2>2 DEF SendBegin, receiverVars, Base
<1>2. CASE SendFragment
  <2>1. /\ setup' = setup /\ sentCount' = sentCount /\ nextId' = nextId
        /\ UNCHANGED receiverVars
    BY <1>2 DEF SendFragment
  <2>2. /\ txq' \in Seq(Frames)
        /\ sending' = NotSending \/ (sending' \in Calls /\ sending'.next <= sending'.count)
    <3>1. CASE sending' = NotSending /\ txq' = txq
      BY <3>1 DEF Base
    <3>2. CASE /\ sending \in Calls /\ sending.next < sending.count
               /\ LET frame == Frame(sending.next, sending.count, nextId, sending.msg)
                  IN  frame \in Frames /\ txq' = Append(txq, frame)
               /\ sending' \in Calls /\ sending'.next = sending.next + 1
               /\ sending'.msg = sending.msg /\ sending'.count = sending.count
      <4>1. sending'.next <= sending'.count
        BY <3>2 DEF Calls
      <4> QED BY <3>2, <4>1 DEF Base
    <3> QED BY <1>2, <3>1, <3>2, SendFragmentEffect
  <2> QED BY <2>1, <2>2 DEF Base, receiverVars
<1>3. CASE SendEnd
  <2>1. nextId' \in 0..MAX_TRANSACTION_ID - 1
    BY <1>3, WpsFragAssumption DEF SendEnd, Base
  <2> QED BY <1>3, <2>1 DEF SendEnd, receiverVars, Base
<1>4. CASE TxSuccess
  BY <1>4 DEF TxSuccess, receiverVars, Base
<1>5. ASSUME txq # <<>>, txq' = Tail(txq), Receive(Head(txq)),
             setup' = setup, sentCount' = sentCount, sending' = sending, nextId' = nextId
      PROVE  Base' /\ (PoolFits => Nodes(rx') = Nodes(rx))
  <2>1. Head(txq) \in Frames /\ txq' \in Seq(Frames)
    BY <1>5 DEF Base
  <2>2. /\ rx' \in RxType /\ rx'.queue = rx.queue
        /\ Len(rx'.frag) <= setup.queueSize
        /\ Nodes(rx') <= Nodes(rx) /\ (PoolFits => Nodes(rx') = Nodes(rx))
        /\ events' \in Seq({"received", "overrun"}) /\ overrun' \in BOOLEAN
        /\ loaded' = loaded
    BY <1>5, <2>1, ReceiveEffect
  <2>3. Nodes(rx') <= setup.poolSize
    <3>1. Nodes(rx) \in Nat /\ Nodes(rx') \in Nat
      BY <1>0, <2>2, NodesNat
    <3>2. Nodes(rx) <= setup.poolSize
      BY DEF Base
    <3> QED BY <1>0, <2>2, <3>1, <3>2
  <2> QED BY <1>5, <2>1, <2>2, <2>3 DEF Base
<1>6. CASE Deliver
  BY <1>5, <1>6 DEF Deliver
<1>7. CASE Expire
  <2>1. CASE Receive(Head(txq))
    BY <1>5, <1>7, <2>1 DEF Expire
  <2>2. CASE UNCHANGED receiverVars
    <3>1. txq' \in Seq(Frames)
      BY <1>7 DEF Expire, Base
    <3> QED BY <1>7, <2>2, <3>1 DEF Expire, receiverVars, Base
  <2> QED BY <1>7, <2>1, <2>2 DEF Expire
<1>8. ASSUME rx' \in RxType, Len(rx'.frag) <= setup.queueSize,
             Len(rx'.queue) <= setup.queueSize, Nodes(rx') <= Nodes(rx),
             events' \in Seq({"received", "overrun"}), overrun' \in BOOLEAN,
             loaded' \in Int, UNCHANGED <<setup, senderVars>>
      PROVE  Base'
  <2>1. Nodes(rx) \in Nat /\ Nodes(rx') \in Nat
    BY <1>0, <1>8, NodesNat
  <2>2. Nodes(rx') <= setup.poolSize
    <3>1. Nodes(rx) <= setup.poolSize
      BY DEF Base
    <3> QED BY <1>0, <1>8, <2>1, <3>1
  <2> QED BY <1>8, <2>2 DEF Base, senderVars
<1>9. CASE RxCallback
  <2>1. /\ rx' \in RxType
        /\ Len(rx'.frag) <= setup.queueSize /\ Len(rx'.queue) <= setup.queueSize
        /\ Nodes(rx') <= Nodes(rx) /\ (PoolFits => Nodes(rx') = Nodes(rx))
    BY <1>9, RxCallbackEffect
  <2>2. events' \in Seq({"received", "overrun"})
    BY <1>9 DEF RxCallback, Base
  <2>3. overrun' \in BOOLEAN
    <3>1. overrun' = overrun \/ overrun' = FALSE
      <4>1. Head(events) \in {"received", "overrun"}
        BY <1>9 DEF RxCallback, Base
      <4> QED BY <1>9, <4>1 DEF RxCallback
    <3> QED BY <3>1, Zenon DEF Base
  <2>4. loaded' \in Int /\ UNCHANGED <<setup, senderVars>>
    BY <1>9 DEF RxCallback, Base
  <2> QED BY <1>8, <2>1, <2>2, <2>3, <2>4
<1>10. ASSUME rx' \in RxType, rx'.frag = rx.frag, Len(rx'.queue) <= Len(rx.queue),
              Nodes(rx') = Nodes(rx)
       PROVE  /\ Len(rx'.frag) <= setup.queueSize /\ Len(rx'.queue) <= setup.queueSize
              /\ Nodes(rx') <= Nodes(rx)
  <2>1. Len(rx'.queue) \in Nat /\ Len(rx.queue) \in Nat /\ Nodes(rx) \in Nat
    BY <1>0, <1>10, RxTypes DEF Nodes
  <2>2. Len(rx.queue) <= setup.queueSize /\ Len(rx.frag) <= setup.queueSize
    BY DEF Base
  <2> QED BY <1>0, <1>10, <2>1, <2>2
<1>11. CASE PollRead
  <2>1. /\ rx' \in RxType /\ rx'.frag = rx.frag /\ Len(rx'.queue) <= Len(rx.queue)
        /\ Nodes(rx') = Nodes(rx)
    BY <1>11, PollReadEffect
  <2>2. loaded' \in Int
    BY <1>0, <1>11 DEF PollRead, RxType
  <2>3. /\ events' \in Seq({"received", "overrun"}) /\ overrun' \in BOOLEAN
        /\ UNCHANGED <<setup, senderVars>>
    BY <1>11 DEF PollRead, Base
  <2> QED BY <1>8, <1>10, <2>1, <2>2, <2>3
<1>12. CASE PollStoreCount
  <2>1. /\ rx' \in RxType /\ rx'.frag = rx.frag /\ rx'.queue = rx.queue
        /\ Nodes(rx') = Nodes(rx)
    BY <1>12, PollStoreCountEffect
  <2>2. Len(rx'.queue) <= Len(rx.queue)
    BY <1>0, <2>1, RxTypes
  <2>3. loaded' \in Int
    BY <1>12 DEF PollStoreCount, NotReading
  <2>4. /\ events' \in Seq({"received", "overrun"}) /\ overrun' \in BOOLEAN
        /\ UNCHANGED <<setup, senderVars>>
    BY <1>12 DEF PollStoreCount, Base
  <2> QED BY <1>8, <1>10, <2>1, <2>2, <2>3, <2>4
<1>13. CASE UNCHANGED vars
  BY <1>13 DEF vars, senderVars, receiverVars, Base
<1>14. rx' = rx => Nodes(rx') = Nodes(rx)
  OBVIOUS
<1>15. CASE SendFragment \/ SendEnd \/ TxSuccess \/ UNCHANGED vars
  <2>1. rx' = rx
    BY <1>15 DEF SendFragment, SendEnd, TxSuccess, vars, receiverVars
  <2> QED BY <1>2, <1>3, <1>4, <1>13, <1>14, <1>15, <2>1
<1>16. CASE RxCallback \/ PollRead \/ PollStoreCount
  <2>1. PoolFits => Nodes(rx') = Nodes(rx)
    BY <1>16, RxCallbackEffect, PollReadEffect, PollStoreCountEffect
  <2> QED BY <1>9, <1>11, <1>12, <1>16, <2>1
<1> QED BY <1>1, <1>6, <1>7, <1>14, <1>15, <1>16 DEF Next

(* A receiver whose pool serves one connection never loses a node and never *)
(* has one twice, whatever is lost, refused, flushed or read: RX stays      *)
(* possible for ever (wps_frag.c, wps_read_done, frag_read).                *)
THEOREM NodesAreConserved ==
    ASSUME PoolFits
    PROVE  Spec => []NodesConserved
<1> DEFINE NodeInv == Base /\ NodesConserved
<1>1. Init => NodeInv
  <2>1. Init => NodesConserved
    BY WpsFragAssumption DEF Init, NodesConserved, SetupType
  <2> QED BY <2>1, BaseInit
<1>2. NodeInv /\ [Next]_vars => NodeInv'
  <2> SUFFICES ASSUME Base, NodesConserved, [Next]_vars
               PROVE  Base' /\ NodesConserved'
    OBVIOUS
  <2>1. Base' /\ Nodes(rx') = Nodes(rx)
    BY BaseStep
  <2>2. setup' = setup
    BY DEF Next, SendBegin, SendFragment, SendEnd, TxSuccess, Deliver, Expire, RxCallback,
           PollRead, PollStoreCount, vars
  <2> QED BY <2>1, <2>2 DEF NodesConserved, Nodes
<1>3. NodeInv => NodesConserved
  OBVIOUS
<1> QED BY <1>1, <1>2, <1>3, PTL DEF Spec
-----------------------------------------------------------------------------
(* The order of everything on its way.  The frame that the sender cuts next *)
(* comes after all of them.                                                 *)
Upcoming ==
    IF sending = NotSending \/ sending.next = sending.count
      THEN [msg |-> sentCount + 1, num |-> 0]
      ELSE [msg |-> sending.msg, num |-> sending.next]

Later(g, h) == \A f \in Frames : Before(f, g) => Before(f, h)

Line(q, g) ==
    /\ \A i \in 1..Len(q) : Before(q[i], g) /\ FullIsFirst(q[i])
    /\ \A i, j \in 1..Len(q) : i < j => Before(q[i], q[j])

OrderInv ==
    /\ sending # NotSending => sending.msg = sentCount
    /\ InOrder(rx, Upcoming) /\ Line(rx.frag, Upcoming) /\ Line(txq, Upcoming)
    /\ \A i \in 1..Len(rx.frag) : InOrder(rx, rx.frag[i])
    /\ \A i \in 1..Len(txq) : InOrder(rx, txq[i])
    /\ \A i \in 1..Len(rx.frag), j \in 1..Len(txq) : Before(rx.frag[i], txq[j])

LEMMA LaterThanFrame ==
    ASSUME NEW f \in Frames, NEW m \in Nat, NEW n \in Nat,
           Before(f, [msg |-> m, num |-> n])
    PROVE  Later(f, [msg |-> m, num |-> n])
BY DEF Later, Before, Frames

LEMMA LaterPayload ==
    ASSUME NEW m \in Nat, NEW n \in Nat, NEW k \in Nat, NEW l \in Nat, m < k
    PROVE  Later([msg |-> m, num |-> n], [msg |-> k, num |-> l])
BY DEF Later, Before, Frames

LEMMA FirstOfRead ==
    ASSUME NEW r \in RxType, NEW g, NEW h, InOrder(r, g), Later(g, h)
    PROVE  InOrder(r, h)
<1>1. \A i \in 1..Len(r.queue) : r.queue[i] \in Frames
  BY DEF RxType
<1>2. \A i \in 1..Len(r.queue) : Before(r.queue[i], h)
  BY <1>1 DEF InOrder, Later
<1>3. \A i \in 1..Len(r.read) : Before(r.read[i][1], h)
  BY DEF InOrder, Later
<1> QED BY <1>2, <1>3 DEF InOrder

LEMMA LineLater ==
    ASSUME NEW q \in Seq(Frames), NEW g, NEW h, Line(q, g), Later(g, h)
    PROVE  Line(q, h)
<1>1. \A i \in 1..Len(q) : q[i] \in Frames
  OBVIOUS
<1> QED BY <1>1 DEF Line, Later

LEMMA AppendPlaces ==
    ASSUME NEW q \in Seq(Frames), NEW f \in Frames
    PROVE  /\ Append(q, f) \in Seq(Frames) /\ Len(Append(q, f)) = Len(q) + 1
           /\ \A i \in 1..Len(Append(q, f)) :
                 \/ i \in 1..Len(q) /\ Append(q, f)[i] = q[i]
                 \/ i = Len(q) + 1 /\ Append(q, f)[i] = f
OBVIOUS

LEMMA TailPlaces ==
    ASSUME NEW q \in Seq(Frames), q # <<>>
    PROVE  /\ Tail(q) \in Seq(Frames) /\ Len(Tail(q)) = Len(q) - 1 /\ 1 \in 1..Len(q)
           /\ Head(q) \in Frames /\ Head(q) = q[1]
           /\ \A i \in 1..Len(Tail(q)) : Tail(q)[i] = q[i + 1] /\ i + 1 \in 1..Len(q) /\ 1 < i + 1
OBVIOUS

LEMMA LineAppend ==
    ASSUME NEW q \in Seq(Frames), NEW f \in Frames, NEW g,
           Line(q, f), FullIsFirst(f), Before(f, g), Later(f, g)
    PROVE  Line(Append(q, f), g)
<1> DEFINE s == Append(q, f)
<1>1. /\ Len(q) \in Nat /\ Len(s) = Len(q) + 1
      /\ \A i \in 1..Len(s) : \/ i \in 1..Len(q) /\ s[i] = q[i]
                              \/ i = Len(q) + 1 /\ s[i] = f
  BY AppendPlaces
<1>2. Line(q, g)
  BY LineLater
<1> HIDE DEF s
<1>3. ASSUME NEW i \in 1..Len(s)
      PROVE  Before(s[i], g) /\ FullIsFirst(s[i])
  BY <1>1, <1>2 DEF Line
<1>4. ASSUME NEW i \in 1..Len(s), NEW j \in 1..Len(s), i < j
      PROVE  Before(s[i], s[j])
  <2>1. i \in 1..Len(q) /\ s[i] = q[i]
    BY <1>1, <1>4
  <2>2. CASE j \in 1..Len(q) /\ s[j] = q[j]
    BY <1>4, <2>1, <2>2 DEF Line
  <2>3. CASE s[j] = f
    BY <2>1, <2>3 DEF Line
  <2> QED BY <1>1, <2>2, <2>3
<1> QED BY <1>3, <1>4 DEF Line, s

LEMMA LineTail ==
    ASSUME NEW q \in Seq(Frames), q # <<>>, NEW g, Line(q, g)
    PROVE  /\ Line(Tail(q), g) /\ Before(Head(q), g) /\ FullIsFirst(Head(q))
           /\ \A i \in 1..Len(Tail(q)) : Before(Head(q), Tail(q)[i])
<1> DEFINE t == Tail(q)
           h == Head(q)
<1>1. /\ 1 \in 1..Len(q) /\ h = q[1]
      /\ \A i \in 1..Len(t) : t[i] = q[i + 1] /\ i + 1 \in 1..Len(q) /\ 1 < i + 1
  BY TailPlaces
<1>2. Before(h, g) /\ FullIsFirst(h)
  BY <1>1 DEF Line
<1> HIDE DEF t, h
<1>3. \A i \in 1..Len(t) : Before(h, t[i])
  BY <1>1 DEF Line
<1>4. \A i \in 1..Len(t) : Before(t[i], g) /\ FullIsFirst(t[i])
  BY <1>1 DEF Line
<1>5. ASSUME NEW i \in 1..Len(t), NEW j \in 1..Len(t), i < j
      PROVE  Before(t[i], t[j])
  <2>1. i + 1 < j + 1
    BY <1>5
  <2> QED BY <1>1, <2>1 DEF Line
<1> QED BY <1>2, <1>3, <1>4, <1>5 DEF Line, t, h

(* A frame joins the frames it comes after.                                 *)
LEMMA MoveFrameOrder ==
    ASSUME Base, rx.frag # <<>>, NEW g,
           InOrder(rx, Head(rx.frag)), FullIsFirst(Head(rx.frag)),
           InOrder(rx, g), Before(Head(rx.frag), g)
    PROVE  InOrder(MoveFrame(rx), g)
<1> DEFINE m == MoveFrame(rx)
           f == Head(rx.frag)
<1>1. /\ f \in Frames /\ m \in RxType /\ m.read = rx.read
      /\ m.queue = IF Len(rx.queue) < setup.queueSize THEN Append(rx.queue, f) ELSE rx.queue
  BY MoveFrameEffect
<1>2. rx.queue \in Seq(Frames) /\ Len(rx.queue) \in Nat
  BY RxTypes DEF Base
<1> HIDE DEF m, f
<1>3. CASE m.queue = rx.queue
  BY <1>1, <1>3, Zenon DEF InOrder, m
<1>4. CASE m.queue = Append(rx.queue, f)
  <2>1. /\ Len(m.queue) = Len(rx.queue) + 1
        /\ \A i \in 1..Len(m.queue) : \/ i \in 1..Len(rx.queue) /\ m.queue[i] = rx.queue[i]
                                      \/ i = Len(rx.queue) + 1 /\ m.queue[i] = f
    BY <1>1, <1>2, <1>4, AppendPlaces
  <2>2. \A i \in 1..Len(m.queue) : Before(m.queue[i], g) /\ FullIsFirst(m.queue[i])
    BY <2>1 DEF InOrder, f
  <2>3. ASSUME NEW i \in 1..Len(m.queue), NEW j \in 1..Len(m.queue), i < j
        PROVE  Before(m.queue[i], m.queue[j])
    <3>1. i \in 1..Len(rx.queue) /\ m.queue[i] = rx.queue[i]
      BY <1>2, <2>1, <2>3
    <3>2. Before(rx.queue[i], f)
      BY <3>1 DEF InOrder, f
    <3>3. j \in 1..Len(rx.queue) => Before(rx.queue[i], rx.queue[j])
      BY <2>3, <3>1 DEF InOrder
    <3> QED BY <2>1, <3>1, <3>2, <3>3
  <2>4. ASSUME NEW i \in 1..Len(m.read)
        PROVE  /\ m.read[i] # <<>> /\ m.read[i][1] \in Frames /\ m.read[i][1].num = 0
               /\ Before(m.read[i][1], g)
               /\ \A j \in 1..Len(m.queue) : Before(m.read[i][1], m.queue[j])
    <3>1. i \in 1..Len(rx.read) /\ m.read[i] = rx.read[i]
      BY <1>1
    <3>2. /\ rx.read[i] # <<>> /\ rx.read[i][1] \in Frames /\ rx.read[i][1].num = 0
          /\ Before(rx.read[i][1], g)
          /\ \A j \in 1..Len(rx.queue) : Before(rx.read[i][1], rx.queue[j])
      BY <3>1 DEF InOrder
    <3>3. Before(rx.read[i][1], f)
      BY <3>1 DEF InOrder, f
    <3> QED BY <2>1, <3>1, <3>2, <3>3
  <2>5. \A i, j \in 1..Len(m.read) : i < j => m.read[i][1].msg < m.read[j][1].msg
    BY <1>1 DEF InOrder
  <2> QED BY <2>2, <2>3, <2>4, <2>5 DEF InOrder, m
<1> QED BY <1>1, <1>3, <1>4

LEMMA OrderInit == Init => OrderInv
<1> SUFFICES ASSUME Init PROVE OrderInv
  OBVIOUS
<1>1. sending = NotSending /\ rx.frag = <<>> /\ txq = <<>> /\ rx.queue = <<>> /\ rx.read = <<>>
  BY DEF Init
<1>2. \A g : InOrder(rx, g)
  BY <1>1 DEF InOrder
<1>3. \A g : Line(rx.frag, g) /\ Line(txq, g)
  BY <1>1 DEF Line
<1> QED BY <1>1, <1>2, <1>3 DEF OrderInv

(* The receiver reads, flushes or empties its queue.                        *)
LEMMA OrderKeptByReceiver ==
    ASSUME OrderInv, rx'.frag = rx.frag, Onward(rx, rx'),
           UNCHANGED <<sentCount, sending, txq>>
    PROVE  OrderInv'
<1>1. InOrder(rx', Upcoming) /\ Upcoming' = Upcoming
  BY DEF OrderInv, Onward, Upcoming
<1>2. \A i \in 1..Len(rx.frag) : InOrder(rx', rx.frag[i])
  BY DEF OrderInv, Onward
<1>3. \A i \in 1..Len(txq) : InOrder(rx', txq[i])
  BY DEF OrderInv, Onward
<1> QED BY <1>1, <1>2, <1>3 DEF OrderInv

(* The receiver takes the oldest frame of the fragment queue.               *)
LEMMA OrderKeptByMove ==
    ASSUME Base, OrderInv, rx.frag # <<>>, rx'.frag = Tail(rx.frag),
           Onward(MoveFrame(rx), rx'), UNCHANGED <<sentCount, sending, txq>>
    PROVE  OrderInv'
<1> DEFINE f == Head(rx.frag)
           rest == Tail(rx.frag)
<1>1. rx.frag \in Seq(Frames)
  BY RxTypes DEF Base
<1>2. /\ 1 \in 1..Len(rx.frag) /\ f = rx.frag[1]
      /\ \A i \in 1..Len(rest) : rest[i] = rx.frag[i + 1] /\ i + 1 \in 1..Len(rx.frag)
  BY <1>1, TailPlaces
<1>3. /\ Line(rest, Upcoming) /\ Before(f, Upcoming) /\ FullIsFirst(f)
      /\ \A i \in 1..Len(rest) : Before(f, rest[i])
  BY <1>1, LineTail DEF OrderInv
<1>4. InOrder(rx, f)
  BY <1>2 DEF OrderInv
<1>5. ASSUME NEW g, InOrder(rx, g), Before(f, g)
      PROVE  InOrder(rx', g)
  <2>1. InOrder(MoveFrame(rx), g)
    BY <1>3, <1>4, <1>5, MoveFrameOrder
  <2> QED BY <2>1 DEF Onward
<1> HIDE DEF f, rest
<1>6. InOrder(rx', Upcoming) /\ Upcoming' = Upcoming
  BY <1>3, <1>5 DEF OrderInv, Upcoming
<1>7. \A i \in 1..Len(rest) : InOrder(rx', rest[i])
  BY <1>2, <1>3, <1>5 DEF OrderInv
<1>8. \A i \in 1..Len(txq) : InOrder(rx', txq[i])
  BY <1>2, <1>5 DEF OrderInv
<1>9. \A i \in 1..Len(rest), j \in 1..Len(txq) : Before(rest[i], txq[j])
  BY <1>2 DEF OrderInv
<1> QED BY <1>3, <1>6, <1>7, <1>8, <1>9 DEF OrderInv, rest

(* The oldest frame of the sender's queue arrives or is lost.               *)
LEMMA OrderKeptByConnection ==
    ASSUME Base, OrderInv, txq # <<>>, txq' = Tail(txq),
           rx'.queue = rx.queue, rx'.read = rx.read,
           rx'.frag = rx.frag \/ rx'.frag = Append(rx.frag, Head(txq)),
           UNCHANGED <<sentCount, sending>>
    PROVE  OrderInv'
<1> DEFINE f == Head(txq)
           rest == Tail(txq)
           g == Upcoming
<1>1. txq \in Seq(Frames) /\ rx.frag \in Seq(Frames) /\ Len(rx.frag) \in Nat
  BY RxTypes DEF Base
<1>2. /\ 1 \in 1..Len(txq) /\ f = txq[1] /\ f \in Frames
      /\ \A i \in 1..Len(rest) : rest[i] = txq[i + 1] /\ i + 1 \in 1..Len(txq)
  BY <1>1, TailPlaces
<1>3. /\ Line(rest, g) /\ Before(f, g) /\ FullIsFirst(f)
      /\ \A i \in 1..Len(rest) : Before(f, rest[i])
  BY <1>1, LineTail DEF OrderInv
<1>4. Onward(rx, rx') /\ Upcoming' = g /\ txq' = rest
  BY SameOnward DEF Upcoming
<1>5. Line(rx.frag, g)
  BY DEF OrderInv
<1> HIDE DEF f, rest, g
<1>6. InOrder(rx', g) /\ InOrder(rx', f)
  BY <1>2, <1>4 DEF OrderInv, Onward, g
<1>7. \A i \in 1..Len(rest) : InOrder(rx', rest[i])
  BY <1>2, <1>4 DEF OrderInv, Onward
<1>8. \A i \in 1..Len(rx.frag) : InOrder(rx', rx.frag[i])
  BY <1>4 DEF OrderInv, Onward
<1>9. \A i \in 1..Len(rx.frag), j \in 1..Len(rest) : Before(rx.frag[i], rest[j])
  BY <1>2 DEF OrderInv
<1>10. sending' # NotSending => sending'.msg = sentCount'
  BY DEF OrderInv
<1>11. CASE rx'.frag = rx.frag
  BY <1>3, <1>4, <1>5, <1>6, <1>7, <1>8, <1>9, <1>10, <1>11 DEF OrderInv
<1>12. CASE rx'.frag = Append(rx.frag, f)
  <2>1. /\ Len(rx'.frag) = Len(rx.frag) + 1
        /\ \A i \in 1..Len(rx'.frag) : \/ i \in 1..Len(rx.frag) /\ rx'.frag[i] = rx.frag[i]
                                       \/ i = Len(rx.frag) + 1 /\ rx'.frag[i] = f
    BY <1>1, <1>2, <1>12, AppendPlaces
  <2>2. Line(rx.frag, f)
    BY <1>2, <1>5 DEF Line, OrderInv
  <2>3. Line(rx'.frag, g)
    <3>1. \A i \in 1..Len(rx'.frag) : Before(rx'.frag[i], g) /\ FullIsFirst(rx'.frag[i])
      BY <1>3, <1>5, <2>1 DEF Line
    <3>2. ASSUME NEW i \in 1..Len(rx'.frag), NEW j \in 1..Len(rx'.frag), i < j
          PROVE  Before(rx'.frag[i], rx'.frag[j])
      <4>1. i \in 1..Len(rx.frag) /\ rx'.frag[i] = rx.frag[i]
        BY <1>1, <2>1, <3>2
      <4>2. Before(rx.frag[i], f)
        BY <2>2, <4>1 DEF Line
      <4>3. j \in 1..Len(rx.frag) => Before(rx.frag[i], rx.frag[j])
        BY <2>2, <3>2, <4>1 DEF Line
      <4> QED BY <2>1, <4>1, <4>2, <4>3
    <3> QED BY <3>1, <3>2 DEF Line
  <2>4. \A i \in 1..Len(rx'.frag) : InOrder(rx', rx'.frag[i])
    BY <1>6, <1>8, <2>1
  <2>5. \A i \in 1..Len(rx'.frag), j \in 1..Len(rest) : Before(rx'.frag[i], rest[j])
    BY <1>3, <1>9, <2>1
  <2> QED BY <1>3, <1>4, <1>6, <1>7, <1>10, <2>3, <2>4, <2>5 DEF OrderInv
<1> QED BY <1>11, <1>12 DEF f

(* The sender goes on to a later fragment or payload without cutting one.   *)
LEMMA OrderKeptBySender ==
    ASSUME Base, OrderInv, Later(Upcoming, Upcoming'),
           sending' # NotSending => sending'.msg = sentCount',
           UNCHANGED <<txq, rx>>
    PROVE  OrderInv'
<1>1. rx \in RxType /\ txq \in Seq(Frames) /\ rx.frag \in Seq(Frames)
  BY RxTypes DEF Base
<1>2. InOrder(rx, Upcoming') /\ Line(txq, Upcoming') /\ Line(rx.frag, Upcoming')
  BY <1>1, FirstOfRead, LineLater DEF OrderInv
<1> QED BY <1>2 DEF OrderInv

LEMMA FrameOrder ==
    ASSUME Base, OrderInv, SendFragment, sending' # NotSending
    PROVE  LET f == Frame(sending.next, sending.count, nextId, sending.msg)
           IN  /\ f \in Frames /\ txq' = Append(txq, f) /\ FullIsFirst(f)
               /\ Before(f, Upcoming') /\ Later(Upcoming, f) /\ Later(f, Upcoming')
               /\ sending'.msg = sentCount'
<1> DEFINE f == Frame(sending.next, sending.count, nextId, sending.msg)
<1>1. /\ sending \in Calls /\ sending.next < sending.count
      /\ f \in Frames /\ txq' = Append(txq, f)
      /\ sending' \in Calls /\ sending'.next = sending.next + 1
      /\ sending'.msg = sending.msg /\ sending'.count = sending.count
  BY SendFragmentEffect
<1>2. sending # NotSending /\ sentCount' = sentCount /\ sending.msg = sentCount
  BY DEF SendFragment, OrderInv
<1>3. /\ sentCount \in Nat /\ sending.next \in Nat /\ sending.count \in Nat
      /\ sending.count >= 1
  BY <1>1, WpsFragAssumption DEF Calls, Base
<1>4. /\ f.msg = sentCount /\ f.num = sending.next
      /\ f.type = TransferType(sending.next, sending.count)
  BY <1>2 DEF Frame
<1>5. Upcoming = [msg |-> sentCount, num |-> sending.next]
  BY <1>1, <1>2, <1>3 DEF Upcoming
<1>6. Upcoming' = IF sending.next + 1 = sending.count
                    THEN [msg |-> sentCount + 1, num |-> 0]
                    ELSE [msg |-> sentCount, num |-> sending.next + 1]
  BY <1>1, <1>2 DEF Upcoming
<1>7. FullIsFirst(f)
  BY <1>1, <1>3, <1>4 DEF FullIsFirst, TransferType
<1>8. sending.next + 1 # sending.count => f.type = "nonlast"
  BY <1>1, <1>3, <1>4 DEF TransferType
<1> HIDE DEF f
<1>9. Later(Upcoming, f)
  BY <1>4, <1>5 DEF Later, Before
<1>10. CASE sending.next + 1 = sending.count
  <2>1. Upcoming' = [msg |-> sentCount + 1, num |-> 0]
    BY <1>6, <1>10
  <2>2. Before(f, Upcoming')
    BY <1>3, <1>4, <2>1 DEF Before
  <2>3. Later(f, Upcoming')
    BY <1>1, <1>3, <2>1, <2>2, LaterThanFrame
  <2> QED BY <1>1, <1>2, <1>7, <1>9, <2>2, <2>3 DEF f
<1>11. CASE sending.next + 1 # sending.count
  <2>1. Upcoming' = [msg |-> sentCount, num |-> sending.next + 1]
    BY <1>6, <1>11
  <2>2. Before(f, Upcoming')
    BY <1>3, <1>4, <1>8, <1>11, <2>1 DEF Before
  <2>3. Later(f, Upcoming')
    BY <1>1, <1>3, <2>1, <2>2, LaterThanFrame
  <2> QED BY <1>1, <1>2, <1>7, <1>9, <2>2, <2>3 DEF f
<1> QED BY <1>10, <1>11

(* The sender queues the fragment everything else comes before.             *)
LEMMA OrderKeptByFragment ==
    ASSUME Base, OrderInv, SendFragment, sending' # NotSending
    PROVE  OrderInv'
<1> DEFINE f == Frame(sending.next, sending.count, nextId, sending.msg)
           g == Upcoming'
<1>1. /\ f \in Frames /\ txq' = Append(txq, f) /\ FullIsFirst(f)
      /\ Before(f, g) /\ Later(Upcoming, f) /\ Later(f, g)
      /\ sending'.msg = sentCount'
  BY FrameOrder
<1>2. rx' = rx
  BY DEF SendFragment, receiverVars
<1>3. rx \in RxType /\ txq \in Seq(Frames) /\ rx.frag \in Seq(Frames) /\ Len(txq) \in Nat
  BY RxTypes DEF Base
<1> HIDE DEF f, g
<1>4. InOrder(rx, f) /\ Line(txq, f) /\ Line(rx.frag, f)
  BY <1>1, <1>3, FirstOfRead, LineLater DEF OrderInv
<1>5. InOrder(rx, g) /\ Line(rx.frag, g) /\ Line(txq', g)
  BY <1>1, <1>3, <1>4, FirstOfRead, LineLater, LineAppend
<1>6. \A i \in 1..Len(txq') : \/ i \in 1..Len(txq) /\ txq'[i] = txq[i]
                              \/ i = Len(txq) + 1 /\ txq'[i] = f
  BY <1>1, <1>3, AppendPlaces
<1>7. \A i \in 1..Len(txq') : InOrder(rx, txq'[i])
  BY <1>4, <1>6 DEF OrderInv
<1>8. \A i \in 1..Len(rx.frag), j \in 1..Len(txq') : Before(rx.frag[i], txq'[j])
  BY <1>4, <1>6 DEF OrderInv, Line
<1> QED BY <1>1, <1>2, <1>5, <1>7, <1>8 DEF OrderInv, g

LEMMA OrderStep ==
    ASSUME Base, OrderInv, [Next]_vars
    PROVE  OrderInv'
<1>0. /\ sentCount \in Nat
      /\ sending # NotSending => sending.msg = sentCount
      /\ sending # NotSending => sending \in Calls
  BY WpsFragAssumption DEF Base, OrderInv
<1>1. ASSUME NEW count \in 1..MaxFragments, NEW exact \in BOOLEAN, SendBegin(count, exact)
      PROVE  OrderInv'
  <2>1. /\ sending = NotSending /\ sentCount' = sentCount + 1
        /\ sending' = [msg |-> sentCount + 1, count |-> count, next |-> 0]
        /\ txq' = txq /\ rx' = rx
    BY <1>1 DEF SendBegin, receiverVars
  <2>2. sending'.msg = sentCount' /\ sending'.next = 0 /\ sending'.count = count /\ count # 0
    BY <2>1, WpsFragAssumption
  <2>3. sending' # NotSending
    BY <1>0, <2>1 DEF NotSending
  <2>4. Upcoming' = [msg |-> sentCount + 1, num |-> 0]
    BY <2>1, <2>2, <2>3 DEF Upcoming
  <2>5. Upcoming = [msg |-> sentCount + 1, num |-> 0]
    BY <2>1 DEF Upcoming
  <2>6. Later(Upcoming, Upcoming')
    BY <2>4, <2>5 DEF Later
  <2> QED BY <2>1, <2>2, <2>6, OrderKeptBySender
<1>2. CASE SendFragment
  <2>1. CASE sending' # NotSending
    BY <1>2, <2>1, OrderKeptByFragment
  <2>2. CASE sending' = NotSending
    <3>1. /\ sending \in Calls /\ sending.next < sending.count /\ txq' = txq /\ rx' = rx
          /\ sentCount' = sentCount /\ sending # NotSending
      <4>1. sentCount' = sentCount /\ rx' = rx /\ sending # NotSending
        BY <1>2 DEF SendFragment, receiverVars
      <4>2. 0 \notin 1..NumMsgs /\ NotSending.msg = 0
        BY WpsFragAssumption DEF NotSending
      <4>3. sending' \notin Calls
        BY <2>2, <4>2 DEF Calls
      <4>4. sending \in Calls
        BY <1>0, <4>1
      <4> QED BY <1>2, <4>1, <4>3, <4>4, SendFragmentEffect DEF SendFragment
    <3>2. Upcoming = [msg |-> sentCount, num |-> sending.next] /\ sending.next \in Nat
      BY <1>0, <3>1, WpsFragAssumption DEF Upcoming, Calls
    <3>3. Upcoming' = [msg |-> sentCount + 1, num |-> 0]
      BY <2>2, <3>1 DEF Upcoming
    <3>4. Later(Upcoming, Upcoming')
      BY <1>0, <3>2, <3>3, LaterPayload
    <3> QED BY <2>2, <3>1, <3>4, OrderKeptBySender
  <2> QED BY <2>1, <2>2
<1>3. CASE SendEnd
  <2>1. /\ sending.next = sending.count /\ sending' = NotSending
        /\ txq' = txq /\ rx' = rx /\ sentCount' = sentCount
    BY <1>3 DEF SendEnd, receiverVars
  <2>2. Upcoming' = Upcoming
    BY <2>1 DEF Upcoming
  <2>3. Later(Upcoming, Upcoming')
    BY <2>2 DEF Later
  <2> QED BY <2>1, <2>3, OrderKeptBySender
<1>4. ASSUME UNCHANGED <<sentCount, sending, txq, rx>>
      PROVE  OrderInv'
  BY <1>4 DEF OrderInv, Upcoming
<1>5. CASE TxSuccess
  BY <1>4, <1>5 DEF TxSuccess, receiverVars
<1>6. ASSUME txq # <<>>, txq' = Tail(txq), Receive(Head(txq)), UNCHANGED <<sentCount, sending>>
      PROVE  OrderInv'
  <2>1. Head(txq) \in Frames
    BY <1>6 DEF Base
  <2>2. /\ rx'.queue = rx.queue /\ rx'.read = rx.read
        /\ rx'.frag = rx.frag \/ rx'.frag = Append(rx.frag, Head(txq))
    BY <1>6, <2>1, ReceiveEffect
  <2> QED BY <1>6, <2>2, OrderKeptByConnection
<1>7. CASE Deliver
  BY <1>6, <1>7 DEF Deliver
<1>8. CASE Expire
  <2>1. txq # <<>> /\ txq' = Tail(txq) /\ UNCHANGED <<sentCount, sending>>
    BY <1>8 DEF Expire
  <2>2. CASE Receive(Head(txq))
    BY <1>6, <2>1, <2>2
  <2>3. CASE UNCHANGED receiverVars
    BY <2>1, <2>3, OrderKeptByConnection DEF receiverVars
  <2> QED BY <1>8, <2>2, <2>3 DEF Expire
<1>9. CASE RxCallback
  <2>1. UNCHANGED <<sentCount, sending, txq>>
    BY <1>9 DEF RxCallback, senderVars
  <2> QED BY <1>9, <2>1, RxCallbackEffect, OrderKeptByReceiver, OrderKeptByMove
<1>10. CASE PollRead
  <2>1. UNCHANGED <<sentCount, sending, txq>>
    BY <1>10 DEF PollRead, senderVars
  <2> QED BY <1>10, <2>1, PollReadEffect, OrderKeptByReceiver
<1>11. CASE PollStoreCount
  <2>1. UNCHANGED <<sentCount, sending, txq>>
    BY <1>11 DEF PollStoreCount, senderVars
  <2>2. rx'.frag = rx.frag /\ Onward(rx, rx')
    BY <1>11, PollStoreCountEffect, SameOnward
  <2> QED BY <2>1, <2>2, OrderKeptByReceiver
<1>12. CASE UNCHANGED vars
  BY <1>4, <1>12 DEF vars, senderVars, receiverVars
<1> QED BY <1>1, <1>2, <1>3, <1>5, <1>7, <1>8, <1>9, <1>10, <1>11, <1>12 DEF Next

(* Whatever is lost, refused or thrown away, and however the two ends are   *)
(* set up, the application reads payloads in the order they were sent and   *)
(* none of them twice: a read starts with the first fragment of a payload   *)
(* and takes it out of the queue (wps_frag_read, frag_read).                *)
THEOREM ReadsInOrder == Spec => []ReadInOrder
<1>1. Init => Base /\ OrderInv
  BY BaseInit, OrderInit
<1>2. (Base /\ OrderInv) /\ [Next]_vars => (Base /\ OrderInv)'
  BY BaseStep, OrderStep
<1>3. Base /\ OrderInv => ReadInOrder
  <2> SUFFICES ASSUME Base, OrderInv PROVE ReadInOrder
    OBVIOUS
  <2>1. DOMAIN rx.read = 1..Len(rx.read)
    BY DEF Base, RxType
  <2> QED BY <2>1 DEF OrderInv, InOrder, ReadInOrder
<1> QED BY <1>1, <1>2, <1>3, PTL DEF Spec

-----------------------------------------------------------------------------
(* The sizes that Base leaves open: the sender's queues and counters, and   *)
(* the fragments that were stored.  A fragment of a payload is stored at    *)
(* most once because those on their way come after all that were stored.    *)
Sizes ==
    /\ Len(txq) <= TxQueueSize
    /\ meta \in Seq(1..MaxFragments) /\ Len(meta) <= setup.queueSize
    /\ remaining \in 0..MaxFragments /\ acks \in Nat /\ reports \in Nat
    /\ loaded \in Nat /\ rx.count \in Nat
    /\ accepted \in [1..NumMsgs -> 0..MaxFragments]

StoredUpTo(g, st) ==
    \A m \in 1..NumMsgs : /\ m > g.msg => st[m] = 0
                          /\ m = g.msg => st[m] <= g.num

Storing ==
    /\ stored \in [1..NumMsgs -> 0..MaxFragments]
    /\ StoredUpTo(Upcoming, stored)
    /\ \A i \in 1..Len(txq) : StoredUpTo(txq[i], stored)

LEMMA SizesInit == Init => Sizes
<1> SUFFICES ASSUME Init PROVE Sizes
  OBVIOUS
<1>1. setup.queueSize \in Nat /\ 0 \in 0..MaxFragments /\ TxQueueSize \in Nat
  BY WpsFragAssumption DEF Init, SetupType
<1>2. rx.count = 0
  BY DEF Init
<1>3. accepted \in [1..NumMsgs -> 0..MaxFragments]
  BY <1>1 DEF Init
<1>4. /\ Len(txq) <= TxQueueSize
      /\ meta \in Seq(1..MaxFragments) /\ Len(meta) <= setup.queueSize
      /\ remaining \in 0..MaxFragments /\ acks \in Nat /\ reports \in Nat
      /\ loaded \in Nat
  BY <1>1 DEF Init, NotReading
<1> QED BY <1>2, <1>3, <1>4 DEF Sizes

LEMMA SizesStep ==
    ASSUME Base, Sizes, [Next]_vars
    PROVE  Sizes'
<1>0. /\ setup.queueSize \in Nat /\ rx \in RxType /\ Len(txq) \in Nat /\ Len(meta) \in Nat
      /\ TxQueueSize \in Nat
  BY SetupTypes, WpsFragAssumption DEF Base, Sizes
<1>1. ASSUME NEW count \in 1..MaxFragments, NEW exact \in BOOLEAN, SendBegin(count, exact)
      PROVE  Sizes'
  BY <1>1 DEF SendBegin, receiverVars, Sizes
<1>2. CASE SendFragment
  <2>1. txq' \in Seq(Frames)
    BY <1>2, BaseStep DEF Next, Base
  <2>2. Len(txq') <= TxQueueSize
    BY <1>0, <1>2 DEF SendFragment, Sizes, Base
  <2>3. UNCHANGED <<setup, meta, remaining, acks, reports, accepted, receiverVars>>
    BY <1>2 DEF SendFragment
  <2> QED BY <2>2, <2>3 DEF receiverVars, Sizes
<1>3. CASE SendEnd
  <2> DEFINE recorded == IF sending.count = 1 THEN 1 ELSE sending.count - 1
  <2>1. sending \in Calls
    BY <1>3 DEF SendEnd, Base
  <2>2. recorded \in 1..MaxFragments /\ recorded \in 0..MaxFragments
    BY <2>1, WpsFragAssumption DEF Calls
  <2>3. /\ IF Len(meta) < setup.queueSize
             THEN /\ meta' = Append(meta, recorded)
                  /\ remaining' = IF remaining = 0 THEN recorded ELSE remaining
             ELSE UNCHANGED <<meta, remaining>>
        /\ accepted' = [accepted EXCEPT ![sending.msg] = sending.count]
        /\ UNCHANGED <<setup, txq, acks, reports, receiverVars>>
    BY <1>3 DEF SendEnd
  <2> HIDE DEF recorded
  <2>4. meta' \in Seq(1..MaxFragments) /\ Len(meta') <= setup.queueSize
    <3>1. meta \in Seq(1..MaxFragments) /\ Len(meta) <= setup.queueSize
      BY DEF Sizes
    <3>2. CASE Len(meta) < setup.queueSize
      <4>1. meta' = Append(meta, recorded)
        BY <2>3, <3>2
      <4>2. meta' \in Seq(1..MaxFragments) /\ Len(meta') = Len(meta) + 1
        BY <2>2, <3>1, <4>1
      <4> QED BY <1>0, <3>2, <4>2
    <3>3. CASE ~(Len(meta) < setup.queueSize)
      BY <2>3, <3>1, <3>3
    <3> QED BY <3>2, <3>3
  <2>5. remaining' \in 0..MaxFragments
    BY <2>2, <2>3 DEF Sizes
  <2>6. accepted' \in [1..NumMsgs -> 0..MaxFragments]
    <3>1. sending.msg \in 1..NumMsgs /\ sending.count \in 0..MaxFragments
      BY <2>1 DEF Calls
    <3> QED BY <2>3, <3>1 DEF Sizes
  <2> QED BY <2>3, <2>4, <2>5, <2>6 DEF receiverVars, Sizes
<1>4. CASE TxSuccess
  <2>1. acks' \in Nat
    BY <1>4 DEF TxSuccess, Sizes
  <2>2. reports' \in Nat /\ UNCHANGED <<setup, txq, accepted, receiverVars>>
    BY <1>4 DEF TxSuccess, Sizes
  <2>3. meta' \in Seq(1..MaxFragments) /\ Len(meta') <= setup.queueSize
    <3>1. meta' = meta \/ (meta # <<>> /\ meta' = Tail(meta))
      BY <1>4 DEF TxSuccess
    <3> QED BY <1>0, <3>1 DEF Sizes
  <2>4. remaining' \in 0..MaxFragments
    <3>1. \/ remaining > 0 /\ remaining' = remaining - 1
          \/ remaining' = remaining
          \/ Len(meta) > 1 /\ remaining' = meta[2]
      BY <1>4 DEF TxSuccess
    <3> QED BY <1>0, <3>1, WpsFragAssumption DEF Sizes
  <2> QED BY <2>1, <2>2, <2>3, <2>4 DEF receiverVars, Sizes
<1>5. ASSUME txq # <<>>, txq' = Tail(txq), rx'.count = rx.count, loaded' = loaded,
             acks' \in Nat, UNCHANGED <<setup, meta, remaining, reports, accepted>>
      PROVE  Sizes'
  <2>1. Len(txq') <= TxQueueSize
    BY <1>0, <1>5 DEF Base, Sizes
  <2> QED BY <1>5, <2>1 DEF Sizes
<1>6. ASSUME txq # <<>>, Receive(Head(txq))
      PROVE  rx'.count = rx.count /\ loaded' = loaded
  <2>1. Head(txq) \in Frames
    BY <1>6 DEF Base
  <2> QED BY <1>6, <2>1, ReceiveEffect
<1>7. CASE Deliver
  <2>1. acks' \in Nat
    BY <1>7 DEF Deliver, Sizes
  <2> QED BY <1>5, <1>6, <1>7, <2>1 DEF Deliver
<1>8. CASE Expire
  <2>1. acks' \in Nat
    BY <1>8 DEF Expire, Sizes
  <2>2. rx'.count = rx.count /\ loaded' = loaded
    BY <1>6, <1>8 DEF Expire, receiverVars
  <2> QED BY <1>5, <1>8, <2>1, <2>2 DEF Expire
<1>9. ASSUME rx'.count \in Nat, loaded' \in Nat, UNCHANGED <<setup, senderVars>>
      PROVE  Sizes'
  BY <1>9 DEF senderVars, Sizes
<1>10. CASE RxCallback
  <2>1. rx'.count \in Nat
    BY <1>10, RxCallbackEffect DEF Announces, Sizes
  <2> QED BY <1>9, <1>10, <2>1 DEF RxCallback, Sizes
<1>11. CASE PollRead
  <2>1. rx'.count \in Nat
    BY <1>11, PollReadEffect DEF Sizes
  <2> QED BY <1>9, <1>11, <2>1 DEF PollRead, Sizes
<1>12. CASE PollStoreCount
  <2>1. rx'.count \in Nat
    <3>1. rx'.count = loaded - 1 /\ loaded # 0
      BY <1>12, PollStoreCountEffect DEF PollStoreCount, NotReading
    <3> QED BY <3>1 DEF Sizes
  <2> QED BY <1>9, <1>12, <2>1 DEF PollStoreCount, NotReading
<1>13. CASE UNCHANGED vars
  BY <1>13 DEF vars, senderVars, receiverVars, Sizes
<1> QED BY <1>1, <1>2, <1>3, <1>4, <1>7, <1>8, <1>10, <1>11, <1>12, <1>13 DEF Next

LEMMA StoringInit == Init => Storing
<1> SUFFICES ASSUME Init PROVE Storing
  OBVIOUS
<1>1. /\ txq = <<>> /\ stored = [m \in 1..NumMsgs |-> 0]
      /\ sentCount = 0 /\ sending = NotSending /\ 0 \in 0..MaxFragments
  BY WpsFragAssumption DEF Init
<1>2. StoredUpTo(Upcoming, stored)
  BY <1>1 DEF StoredUpTo, Upcoming
<1> QED BY <1>1, <1>2 DEF Storing

(* One more fragment of a payload is stored.                                *)
LEMMA StoringAhead ==
    ASSUME Storing, NEW f \in Frames, StoredUpTo(f, stored),
           stored' = [stored EXCEPT ![f.msg] = @ + 1]
    PROVE  /\ stored' \in [1..NumMsgs -> 0..MaxFragments]
           /\ \A m \in 1..NumMsgs : stored'[m] = IF m = f.msg THEN stored[m] + 1 ELSE stored[m]
           /\ stored[f.msg] <= f.num
<1>1. f.msg \in 1..NumMsgs /\ f.num \in 0..MaxFragments - 1
  BY DEF Frames
<1>2. stored[f.msg] <= f.num /\ stored[f.msg] \in Nat
  BY <1>1 DEF StoredUpTo, Storing
<1>3. stored[f.msg] + 1 \in 0..MaxFragments
  BY <1>1, <1>2, WpsFragAssumption
<1> QED BY <1>1, <1>2, <1>3 DEF Storing

LEMMA StoringStep ==
    ASSUME Base, OrderInv, Storing, [Next]_vars
    PROVE  Storing'
<1>0. /\ sentCount \in Nat /\ (sending # NotSending => sending \in Calls)
      /\ (sending # NotSending => sending.msg = sentCount)
      /\ txq \in Seq(Frames)
  BY WpsFragAssumption DEF Base, OrderInv
<1>1. ASSUME NEW count \in 1..MaxFragments, NEW exact \in BOOLEAN, SendBegin(count, exact)
      PROVE  Storing'
  <2>1. /\ sending = NotSending /\ sentCount' = sentCount + 1
        /\ sending' = [msg |-> sentCount + 1, count |-> count, next |-> 0]
        /\ txq' = txq /\ stored' = stored
    BY <1>1 DEF SendBegin, receiverVars
  <2>2. sending' # NotSending /\ sending'.next # sending'.count
    BY <1>0, <2>1, WpsFragAssumption DEF NotSending
  <2>3. Upcoming' = [msg |-> sentCount + 1, num |-> 0]
    BY <2>1, <2>2 DEF Upcoming
  <2>4. Upcoming = [msg |-> sentCount + 1, num |-> 0]
    BY <2>1 DEF Upcoming
  <2> QED BY <2>1, <2>3, <2>4 DEF Storing, StoredUpTo
<1>2. CASE SendFragment
  <2>1. /\ sending \in Calls /\ sending # NotSending /\ sending.next < sending.count
        /\ stored' = stored /\ sentCount' = sentCount /\ sending.msg = sentCount
    BY <1>0, <1>2 DEF SendFragment, receiverVars
  <2>2. Upcoming = [msg |-> sentCount, num |-> sending.next] /\ sending.next \in Nat
    BY <2>1, WpsFragAssumption DEF Upcoming, Calls
  <2>3. /\ \A m \in 1..NumMsgs : stored[m] \in Nat
        /\ \A m \in 1..NumMsgs : m > sentCount => stored[m] = 0
        /\ \A m \in 1..NumMsgs : m = sentCount => stored[m] <= sending.next
    BY <2>2 DEF Storing, StoredUpTo
  <2>5. ASSUME sending' # NotSending, sending'.next # sending'.count
        PROVE  StoredUpTo(Upcoming', stored')
    <3>1. sending'.msg = sentCount /\ sending'.next = sending.next + 1
      BY <1>2, <2>1, <2>5, SendFragmentEffect
    <3>2. Upcoming' = [msg |-> sentCount, num |-> sending.next + 1]
      BY <2>5, <3>1 DEF Upcoming
    <3> QED BY <1>0, <2>1, <2>2, <2>3, <3>2 DEF StoredUpTo
  <2>6. StoredUpTo(Upcoming', stored')
    <3>1. CASE sending' = NotSending \/ sending'.next = sending'.count
      <4>1. Upcoming' = [msg |-> sentCount + 1, num |-> 0]
        BY <2>1, <3>1 DEF Upcoming
      <4> QED BY <1>0, <2>1, <2>3, <4>1 DEF StoredUpTo
    <3> QED BY <2>5, <3>1
  <2>7. ASSUME NEW i \in 1..Len(txq')
        PROVE  StoredUpTo(txq'[i], stored')
    <3> DEFINE f == Frame(sending.next, sending.count, nextId, sending.msg)
    <3>1. \/ txq' = txq
          \/ f \in Frames /\ txq' = Append(txq, f)
      BY <1>2, SendFragmentEffect
    <3>2. f.msg = sentCount /\ f.num = sending.next
      BY <2>1 DEF Frame
    <3> HIDE DEF f
    <3>3. (i \in 1..Len(txq) /\ txq'[i] = txq[i]) \/ txq'[i] = f
      BY <1>0, <2>7, <3>1, AppendPlaces
    <3>4. CASE i \in 1..Len(txq) /\ txq'[i] = txq[i]
      BY <2>1, <3>4 DEF Storing, StoredUpTo
    <3>5. CASE txq'[i] = f
      BY <2>1, <2>3, <3>2, <3>5 DEF StoredUpTo
    <3> QED BY <3>3, <3>4, <3>5
  <2>8. \A i \in 1..Len(txq') : StoredUpTo(txq'[i], stored')
    BY <2>7
  <2> QED BY <2>1, <2>6, <2>8 DEF Storing
<1>3. CASE SendEnd
  <2>1. /\ sending.next = sending.count /\ sending' = NotSending
        /\ txq' = txq /\ stored' = stored /\ sentCount' = sentCount
    BY <1>3 DEF SendEnd, receiverVars
  <2>2. Upcoming' = Upcoming
    BY <2>1 DEF Upcoming
  <2> QED BY <2>1, <2>2 DEF Storing, StoredUpTo
<1>4. ASSUME UNCHANGED <<sentCount, sending, txq, stored>>
      PROVE  Storing'
  BY <1>4 DEF Storing, Upcoming, StoredUpTo
<1>5. ASSUME txq # <<>>, txq' = Tail(txq),
             stored' = stored \/ stored' = [stored EXCEPT ![Head(txq).msg] = @ + 1],
             UNCHANGED <<sentCount, sending>>
      PROVE  Storing'
  <2> DEFINE f == Head(txq)
             rest == Tail(txq)
  <2>1. /\ 1 \in 1..Len(txq) /\ f = txq[1] /\ f \in Frames /\ rest \in Seq(Frames)
        /\ \A i \in 1..Len(rest) : rest[i] = txq[i + 1] /\ i + 1 \in 1..Len(txq)
    BY <1>0, <1>5, TailPlaces
  <2>2. Before(f, Upcoming) /\ \A i \in 1..Len(rest) : Before(f, rest[i])
    BY <1>0, <1>5, LineTail DEF OrderInv
  <2>3. Upcoming' = Upcoming /\ txq' = rest
    BY <1>5 DEF Upcoming
  <2>4. Upcoming.msg \in Nat /\ Upcoming.num \in Nat
    BY <1>0, WpsFragAssumption DEF Upcoming, Calls
  <2> HIDE DEF f, rest
  <2>5. CASE stored' = stored
    <3>2. StoredUpTo(Upcoming, stored)'
      BY <2>3, <2>5 DEF Storing, StoredUpTo
    <3>3. ASSUME NEW i \in 1..Len(rest)
          PROVE  StoredUpTo(rest[i], stored)
      BY <2>1, <3>3 DEF Storing
    <3>4. \A i \in 1..Len(txq') : StoredUpTo(txq'[i], stored')
      BY <2>3, <2>5, <3>3
    <3> QED BY <2>5, <3>2, <3>4 DEF Storing
  <2>6. CASE stored' = [stored EXCEPT ![f.msg] = @ + 1]
    <3>1. StoredUpTo(f, stored)
      BY <2>1 DEF Storing
    <3>2. /\ stored' \in [1..NumMsgs -> 0..MaxFragments]
          /\ \A m \in 1..NumMsgs : stored'[m] = IF m = f.msg THEN stored[m] + 1 ELSE stored[m]
          /\ stored[f.msg] <= f.num
      BY <2>1, <2>6, <3>1, StoringAhead
    <3>3. \A m \in 1..NumMsgs : stored[m] \in Nat
      BY DEF Storing
    <3>4. ASSUME NEW g, g.msg \in Nat, g.num \in Nat, StoredUpTo(g, stored), Before(f, g)
          PROVE  StoredUpTo(g, stored')
      <4>1. f.msg \in Nat /\ f.num \in Nat
        BY <2>1, WpsFragAssumption DEF Frames
      <4> QED BY <3>2, <3>3, <3>4, <4>1 DEF StoredUpTo, Before
    <3>5. \A i \in 1..Len(rest) : rest[i].msg \in Nat /\ rest[i].num \in Nat
      <4>1. \A i \in 1..Len(rest) : rest[i] \in Frames
        BY <2>1
      <4> QED BY <4>1, WpsFragAssumption DEF Frames
    <3>6. \A i \in 1..Len(rest) : StoredUpTo(rest[i], stored)
      BY <2>1 DEF Storing
    <3>7. StoredUpTo(Upcoming', stored')
      BY <2>2, <2>3, <2>4, <3>4 DEF Storing, StoredUpTo
    <3>8. \A i \in 1..Len(txq') : StoredUpTo(txq'[i], stored')
      BY <2>2, <2>3, <3>4, <3>5, <3>6 DEF StoredUpTo
    <3> QED BY <3>2, <3>7, <3>8 DEF Storing
  <2> QED BY <1>5, <2>5, <2>6 DEF f
<1>6. ASSUME txq # <<>>, Receive(Head(txq))
      PROVE  stored' = stored \/ stored' = [stored EXCEPT ![Head(txq).msg] = @ + 1]
  <2>1. Head(txq) \in Frames
    BY <1>6 DEF Base
  <2> QED BY <1>6, <2>1, ReceiveEffect
<1>7. CASE Deliver
  BY <1>5, <1>6, <1>7 DEF Deliver
<1>8. CASE Expire
  BY <1>5, <1>6, <1>8 DEF Expire, receiverVars
<1>9. CASE TxSuccess \/ RxCallback \/ PollRead \/ PollStoreCount \/ UNCHANGED vars
  BY <1>4, <1>9 DEF TxSuccess, RxCallback, PollRead, PollStoreCount, vars, senderVars, receiverVars
<1> QED BY <1>1, <1>2, <1>3, <1>7, <1>8, <1>9 DEF Next

(* Every value stays in its type, for every setup: no queue outgrows its    *)
(* size, the pool never has more nodes than it was given, no payload has    *)
(* more fragments stored than were cut, and a polling reader never          *)
(* decrements the count below zero (wps_frag.c).                            *)
THEOREM TypeCorrect == Spec => []TypeOK
<1> DEFINE Typed == Base /\ OrderInv /\ Sizes /\ Storing
<1>1. Init => Typed
  BY BaseInit, OrderInit, SizesInit, StoringInit
<1>2. Typed /\ [Next]_vars => Typed'
  BY BaseStep, OrderStep, SizesStep, StoringStep
<1>3. Typed => TypeOK
  <2> SUFFICES ASSUME Base, Sizes, Storing PROVE TypeOK
    OBVIOUS
  <2>1. sending \in [msg : 0..NumMsgs, count : 0..MaxFragments, next : 0..MaxFragments]
    BY WpsFragAssumption, SMTT(30) DEF Base, Calls, NotSending
  <2>2. rx.pool \in 0..setup.poolSize
    <3>1. Nodes(rx) <= setup.poolSize /\ setup.poolSize \in Nat
      BY SetupTypes DEF Base
    <3>2. rx.pool \in Nat /\ Len(rx.frag) \in Nat /\ Len(rx.queue) \in Nat
      BY RxTypes DEF Base
    <3> QED BY <3>1, <3>2 DEF Nodes
  <2>3. /\ rx.frag \in Seq(Frames) /\ rx.queue \in Seq(Frames) /\ rx.read \in Seq(Seq(Frames))
        /\ rx.index \in 0..MaxFragments /\ rx.tid \in 0..MAX_TRANSACTION_ID - 1
        /\ rx.dropped \in BOOLEAN
    BY Zenon DEF Base, RxType
  <2> QED BY <2>1, <2>2, <2>3, Zenon DEF Base, Sizes, Storing, TypeOK
<1> QED BY <1>1, <1>2, <1>3, PTL DEF Spec

-----------------------------------------------------------------------------
(* Payloads of at most two fragments, read in the callback, from a queue    *)
(* that can hold one, before the numbers of the transactions start again.   *)
ShortMode ==
    /\ MaxFragments <= 2 /\ NumMsgs <= MAX_TRANSACTION_ID
    /\ \A s \in Setups : ~s.polling /\ s.queueSize > 1

Sound(f) ==
    /\ f \in Frames /\ f.tid = f.msg - 1
    /\ \/ f.num = 0 /\ f.type \in {"full", "nonlast"}
       \/ f.num = 1 /\ f.type = "last"

Alone(r, f) == Len(r.queue) = 1 /\ r.queue[1] = f
Pair(r, q, f) == Len(r.queue) = 2 /\ r.queue[1] = q /\ r.queue[2] = f

(* What the operators of the receiver leave as it is.                       *)
SameExpectation(r, s) == s.index = r.index /\ s.tid = r.tid /\ s.dropped = r.dropped

LEMMA RestHasLast ==
    ASSUME NEW r \in RxType, NEW n \in 0..Len(r.queue)
    PROVE  /\ ReadDone(r, n) \in RxType /\ SameExpectation(r, ReadDone(r, n))
           /\ ReadDone(r, n).read = r.read
           /\ Len(ReadDone(r, n).queue) = Len(r.queue) - n
           /\ n < Len(r.queue) => ReadDone(r, n).queue[1] = r.queue[n + 1]
           /\ n = 0 => ReadDone(r, n).queue = r.queue
<1>1. r.queue \in Seq(Frames) /\ Len(r.queue) \in Nat
  BY DEF RxType
<1>2. ReadDone(r, n) \in RxType /\ Len(ReadDone(r, n).queue) = Len(r.queue) - n
  BY ReadDoneKeeps DEF Keeps
<1>3. /\ SameExpectation(r, ReadDone(r, n)) /\ ReadDone(r, n).read = r.read
      /\ ReadDone(r, n).queue = SubSeq(r.queue, n + 1, Len(r.queue))
  BY ReadDoneCount DEF SameExpectation
<1>4. n < Len(r.queue) => ReadDone(r, n).queue[1] = r.queue[n + 1]
  <2> DEFINE rest == SubSeq(r.queue, n + 1, Len(r.queue))
  <2>1. /\ Len(rest) = Len(r.queue) - n
        /\ \A i \in 1..Len(rest) : rest[i] = r.queue[n + i]
    BY <1>1, RestOfQueue
  <2>2. n < Len(r.queue) => 1 \in 1..Len(rest)
    BY <1>1, <2>1
  <2> HIDE DEF rest
  <2>3. n < Len(r.queue) => rest[1] = r.queue[n + 1]
    BY <2>1, <2>2
  <2> QED BY <1>3, <2>3 DEF rest
<1>5. n = 0 => ReadDone(r, n).queue = r.queue
  BY <1>1, <1>3
<1> QED BY <1>2, <1>3, <1>4, <1>5

(* The first of the places is the last place of all.                        *)
LEMMA OnlyPlace ==
    ASSUME NEW n \in Nat, NEW places, places = {n}
    PROVE  Min(places) = n /\ FirstOf(places) = n
<1>1. places \in SUBSET Nat /\ places # {}
  OBVIOUS
<1>2. Min(places) \in places
  BY <1>1, MinExists
<1> QED BY <1>1, <1>2 DEF FirstOf

(* Flushing the frames of the transaction leaves a frame of another one.    *)
LEMMA FlushLeavesFrame ==
    ASSUME NEW r \in RxType, NEW f, f.tid # r.tid,
           Alone(r, f) \/ \E q : Pair(r, q, f) /\ q.tid = r.tid
    PROVE  LET s == FlushLastTransaction(r)
           IN  /\ s \in RxType /\ Alone(s, f) /\ s.read = r.read
               /\ s.tid = f.tid /\ s.index = 1 /\ s.dropped = r.dropped
<1> DEFINE places == {i \in DOMAIN r.queue : r.queue[i].tid # r.tid}
           n == Len(r.queue)
           rest == FreeUntil(r, places)
<1>1. r.queue \in Seq(Frames) /\ n \in {1, 2} /\ DOMAIN r.queue = 1..n /\ r.queue[n] = f
  <2>1. r.queue \in Seq(Frames) /\ DOMAIN r.queue = 1..n
    BY DEF RxType
  <2>2. (n = 1 /\ r.queue[1] = f) \/ (n = 2 /\ r.queue[2] = f)
    BY DEF Alone, Pair
  <2> QED BY <2>1, <2>2
<1>2. places = {n}
  <2>1. CASE Alone(r, f)
    BY <1>1, <2>1 DEF Alone
  <2>2. ASSUME NEW q, Pair(r, q, f), q.tid = r.tid
        PROVE  places = {n}
    BY <1>1, <2>2 DEF Pair
  <2> QED BY <2>1, <2>2
<1>3. Min(places) = n /\ places # {}
  BY <1>1, <1>2, OnlyPlace
<1>4. rest = ReadDone(r, n - 1) /\ n - 1 \in 0..n
  BY <1>1, <1>3 DEF FreeUntil
<1>5. /\ rest \in RxType /\ SameExpectation(r, rest) /\ rest.read = r.read
      /\ Len(rest.queue) = 1 /\ rest.queue[1] = f
  <2>1. n - 1 < n /\ (n - 1) + 1 = n /\ n - (n - 1) = 1
    BY <1>1
  <2> QED BY <1>1, <1>4, <2>1, RestHasLast
<1>6. FlushLastTransaction(r) =
         IF rest.queue = <<>> THEN rest
         ELSE [rest EXCEPT !.tid = Head(rest.queue).tid, !.index = 1]
  BY DEF FlushLastTransaction
<1> HIDE DEF rest
<1>7. rest.queue # <<>> /\ Head(rest.queue) = f
  BY <1>5 DEF RxType
<1>8. f \in Frames /\ f.tid \in 0..MAX_TRANSACTION_ID - 1 /\ 1 \in 0..MaxFragments
  <2>1. n \in 1..n
    <3>1. \A k \in {1, 2} : k \in 1..k
      OBVIOUS
    <3> QED BY <1>1, <3>1
  <2>2. f \in Frames
    BY <1>1, <2>1
  <2> QED BY <2>2, WpsFragAssumption DEF Frames
<1>9. FlushLastTransaction(r) = [rest EXCEPT !.tid = f.tid, !.index = 1]
  BY <1>6, <1>7
<1> QED BY <1>5, <1>8, <1>9 DEF RxType, SameExpectation, Alone

(* A queue that is one whole payload is read and left empty.                *)
LEMMA FragReadWhole ==
    ASSUME NEW r \in RxType, NEW n \in 1..MaxFragments, Len(r.queue) = n,
           StartsPayload(r.queue[1]), r.queue[n].type # "nonlast",
           \A i \in 1..n - 1 : r.queue[i].type = "nonlast",
           r.queue[n].type = "full" => n = 1
    PROVE  LET s == FragRead(r)
           IN  /\ s \in RxType /\ SameExpectation(r, s) /\ Len(s.queue) = 0
               /\ s.read = Append(r.read, SubSeq(r.queue, 1, n))
<1> DEFINE ends == {i \in DOMAIN r.queue : r.queue[i].type # "nonlast"}
           end == FirstOf(ends)
           length == IF end = 0 THEN Len(r.queue) ELSE end
           counted == [r EXCEPT !.count = @ - 1]
           AbortAfter(k) == ReadErrorFlush(ReadDone(counted, k))
           s == FragRead(r)
<1>1. r.queue \in Seq(Frames) /\ DOMAIN r.queue = 1..n /\ r.queue # <<>> /\ n \in Nat
  BY WpsFragAssumption DEF RxType
<1>2. ends = {n}
  <2>1. \A i \in 1..n : i # n => i \in 1..n - 1
    BY <1>1
  <2> QED BY <1>1, <2>1
<1>3. end = n /\ n # 0
  BY <1>1, <1>2, OnlyPlace, WpsFragAssumption
<1>4. s = IF r.queue = <<>> THEN counted
          ELSE IF ~StartsPayload(Head(r.queue)) THEN AbortAfter(0)
          ELSE IF length > MaxFragments THEN AbortAfter(MaxFragments)
          ELSE IF end = 0 THEN ReadDone(counted, length)
          ELSE IF r.queue[end].type = "full" /\ end > 1 THEN AbortAfter(end - 1)
          ELSE [ReadDone(counted, end) EXCEPT !.read = Append(@, SubSeq(r.queue, 1, end))]
  BY DEF FragRead
<1>5. counted = Counted(r)
  BY DEF Counted
<1>6. Head(r.queue) = r.queue[1] /\ ~(n > MaxFragments) /\ ~(r.queue[n].type = "full" /\ n > 1)
  BY <1>1, WpsFragAssumption
<1> HIDE DEF ends, end, counted, s
<1>7. s = [ReadDone(counted, n) EXCEPT !.read = Append(@, SubSeq(r.queue, 1, n))]
  BY <1>1, <1>3, <1>4, <1>6
<1>8. s = FragRead(r)
  BY DEF s
<1>9. s \in RxType
  BY <1>8, FragReadKeeps DEF Keeps
<1>10. /\ Counted(r) \in RxType /\ Counted(r).queue = r.queue /\ Counted(r).read = r.read
       /\ SameExpectation(r, Counted(r))
  <2>1. SameExpectation(r, Counted(r))
    BY DEF Counted, RxType, SameExpectation
  <2> QED BY <2>1, CountedKeeps
<1>11. /\ ReadDone(counted, n) \in RxType /\ SameExpectation(r, ReadDone(counted, n))
       /\ ReadDone(counted, n).read = r.read /\ Len(ReadDone(counted, n).queue) = 0
  <2>1. n \in 0..Len(Counted(r).queue) /\ Len(Counted(r).queue) - n = 0
    BY <1>1, <1>10
  <2> QED BY <1>1, <1>5, <1>10, <2>1, RestHasLast DEF SameExpectation
<1> DEFINE done == ReadDone(counted, n)
<1> HIDE DEF done
<1>12. done \in RxType => /\ [done EXCEPT !.read = Append(@, SubSeq(r.queue, 1, n))].queue = done.queue
                          /\ [done EXCEPT !.read = Append(@, SubSeq(r.queue, 1, n))].index = done.index
                          /\ [done EXCEPT !.read = Append(@, SubSeq(r.queue, 1, n))].tid = done.tid
                          /\ [done EXCEPT !.read = Append(@, SubSeq(r.queue, 1, n))].dropped = done.dropped
                          /\ [done EXCEPT !.read = Append(@, SubSeq(r.queue, 1, n))].read
                                = Append(done.read, SubSeq(r.queue, 1, n))
  BY DEF RxType
<1>13. SameExpectation(r, s) /\ Len(s.queue) = 0 /\ s.read = Append(r.read, SubSeq(r.queue, 1, n))
  BY <1>7, <1>11, <1>12 DEF done, SameExpectation
<1> QED BY <1>8, <1>9, <1>13

(* A last fragment on its own is thrown away.                               *)
LEMMA FragReadLast ==
    ASSUME NEW r \in RxType, NEW f, Alone(r, f), f.type = "last"
    PROVE  LET s == FragRead(r)
           IN  s \in RxType /\ SameExpectation(r, s) /\ Len(s.queue) = 0 /\ s.read = r.read
<1> DEFINE counted == [r EXCEPT !.count = @ - 1]
           done == ReadDone(counted, 0)
<1>1. r.queue \in Seq(Frames) /\ r.queue # <<>> /\ Head(r.queue) = f
  BY DEF RxType, Alone
<1>2. FragRead(r) = ReadErrorFlush(done)
  BY <1>1 DEF FragRead, StartsPayload
<1>3. counted = Counted(r)
  BY DEF Counted
<1>4. /\ Counted(r) \in RxType /\ Counted(r).queue = r.queue /\ Counted(r).read = r.read
      /\ SameExpectation(r, Counted(r))
  <2>1. SameExpectation(r, Counted(r))
    BY DEF Counted, RxType, SameExpectation
  <2> QED BY <2>1, CountedKeeps
<1>5. done \in RxType /\ SameExpectation(r, done) /\ done.queue = r.queue /\ done.read = r.read
  <2>1. 0 \in 0..Len(r.queue)
    BY <1>1
  <2> QED BY <1>3, <1>4, <2>1, RestHasLast DEF SameExpectation
<1> HIDE DEF done
<1>6. {i \in DOMAIN done.queue : done.queue[i].type = "last"} = {1}
  BY <1>1, <1>5 DEF Alone
<1>7. FirstOf({i \in DOMAIN done.queue : done.queue[i].type = "last"}) = 1
  BY <1>6, OnlyPlace
<1>8. ReadErrorFlush(done) = ReadDone(done, 1)
  BY <1>7 DEF ReadErrorFlush
<1>9. 1 \in 0..Len(done.queue) /\ Len(done.queue) = 1
  BY <1>1, <1>5 DEF Alone
<1>10. /\ ReadDone(done, 1) \in RxType /\ SameExpectation(done, ReadDone(done, 1))
       /\ ReadDone(done, 1).read = done.read /\ Len(ReadDone(done, 1).queue) = 0
  <2>1. Len(done.queue) - 1 = 0
    BY <1>9
  <2> QED BY <1>5, <1>9, <2>1, RestHasLast
<1> QED BY <1>2, <1>5, <1>8, <1>10 DEF SameExpectation

ReadsWhole(r, s) == \E piece \in Seq(Frames) : IsWhole(piece) /\ s.read = Append(r.read, piece)

(* It is the payload k that was read.                                       *)
Returns(r, s, k) == \E piece \in Seq(Frames) : piece[1].msg = k /\ s.read = Append(r.read, piece)

LEMMA NotifyReceivedWhole ==
    ASSUME ~setup.polling, NEW r \in RxType, NEW n \in 1..MaxFragments, Len(r.queue) = n,
           StartsPayload(r.queue[1]), r.queue[n].type # "nonlast",
           \A i \in 1..n - 1 : r.queue[i].type = "nonlast",
           r.queue[n].type = "full" => n = 1,
           \A i \in 1..n : r.queue[i].num = i - 1 /\ r.queue[i].msg = r.queue[1].msg
    PROVE  LET s == NotifyReceived(r)
           IN  /\ s \in RxType /\ SameExpectation(r, s) /\ Len(s.queue) = 0
               /\ ReadsWhole(r, s) /\ Returns(r, s, r.queue[1].msg)
<1> DEFINE counted == [r EXCEPT !.count = @ + 1]
           s == NotifyReceived(r)
           piece == SubSeq(r.queue, 1, n)
<1>1. s = FragRead(counted)
  BY DEF NotifyReceived
<1>2. /\ counted \in RxType /\ counted.queue = r.queue /\ counted.read = r.read
      /\ SameExpectation(r, counted)
  <2>1. r.count + 1 \in Int
    BY DEF RxType
  <2> QED BY <2>1 DEF RxType, SameExpectation
<1> HIDE DEF counted, s
<1>3. /\ FragRead(counted) \in RxType /\ SameExpectation(counted, FragRead(counted))
      /\ Len(FragRead(counted).queue) = 0
      /\ FragRead(counted).read = Append(counted.read, SubSeq(counted.queue, 1, n))
  <2>1. /\ Len(counted.queue) = n /\ StartsPayload(counted.queue[1])
        /\ counted.queue[n].type # "nonlast"
        /\ \A i \in 1..n - 1 : counted.queue[i].type = "nonlast"
        /\ counted.queue[n].type = "full" => n = 1
    BY <1>2, Zenon
  <2> QED BY <1>2, <2>1, FragReadWhole, Zenon
<1>4. /\ piece \in Seq(Frames) /\ Len(piece) = n /\ DOMAIN piece = 1..n
      /\ \A i \in 1..n : piece[i] = r.queue[i]
  <2>1. r.queue \in Seq(Frames) /\ n \in Nat
    BY WpsFragAssumption DEF RxType
  <2>2. \A i \in 1..n : r.queue[i] \in Frames
    BY <2>1
  <2>3. Len(piece) = n /\ \A i \in 1..n : piece[i] = r.queue[1 + i - 1]
    BY <2>1, <2>2, SubSeqProperties
  <2>4. piece \in Seq(Frames)
    BY <2>1, <2>2, SubSeqProperties
  <2>5. \A i \in 1..n : 1 + i - 1 = i
    BY <2>1
  <2> QED BY <2>1, <2>3, <2>4, <2>5
<1>5. 1 \in 1..n /\ n \in 1..n
  BY WpsFragAssumption
<1> HIDE DEF piece
<1>6. IsWhole(piece)
  <2>1. Last(piece).type # "nonlast"
    BY <1>4, <1>5 DEF Last
  <2> QED BY <1>4, <1>5, <2>1, ZenonT(30) DEF IsWhole
<1>7. s.read = Append(r.read, piece)
  BY <1>1, <1>2, <1>3 DEF piece
<1>8. ReadsWhole(r, s)
  BY <1>4, <1>6, <1>7 DEF ReadsWhole
<1>9. Returns(r, s, r.queue[1].msg)
  <2>1. piece[1].msg = r.queue[1].msg
    BY <1>4, <1>5
  <2> QED BY <1>4, <1>7, <2>1 DEF Returns
<1> QED BY <1>1, <1>2, <1>3, <1>8, <1>9 DEF SameExpectation, s

LEMMA NotifyReceivedLast ==
    ASSUME ~setup.polling, NEW r \in RxType, NEW f, Alone(r, f), f.type = "last"
    PROVE  LET s == NotifyReceived(r)
           IN  s \in RxType /\ SameExpectation(r, s) /\ Len(s.queue) = 0 /\ s.read = r.read
<1> DEFINE counted == [r EXCEPT !.count = @ + 1]
<1>1. NotifyReceived(r) = FragRead(counted)
  BY DEF NotifyReceived
<1>2. /\ counted \in RxType /\ Alone(counted, f) /\ counted.read = r.read
      /\ SameExpectation(r, counted)
  <2>1. r.count + 1 \in Int
    BY DEF RxType
  <2> QED BY <2>1 DEF RxType, SameExpectation, Alone
<1> HIDE DEF counted
<1> QED BY <1>1, <1>2, FragReadLast DEF SameExpectation

(* A hole found by a frame on its own: a last fragment is thrown away, a    *)
(* first one starts over.                                                   *)
Fails(r, f, s) ==
    /\ s \in RxType /\ s.read = r.read
    /\ \/ f.type = "last" /\ s.dropped = TRUE /\ Len(s.queue) = 0 /\ s.index = 0 /\ s.tid = r.tid
       \/ f.type = "nonlast" /\ s.dropped = FALSE /\ Alone(s, f) /\ s.index = 1 /\ s.tid = f.tid

LEMMA FailShort ==
    ASSUME NEW r \in RxType, NEW f, NEW id, Alone(r, f),
           f.type = "last" \/ (f.type = "nonlast" /\ f.num = 0 /\ r.tid # id)
    PROVE  Fails(r, f, ReadProcessFail(r, id))
<1> DEFINE starts == {i \in DOMAIN r.queue :
                        \/ r.queue[i].type = "full"
                        \/ r.queue[i].type = "nonlast" /\ r.queue[i].num = 0 /\ r.tid # id}
           failed == [r EXCEPT !.dropped = TRUE, !.index = 0]
           rest == FreeUntil(failed, starts)
           s == ReadProcessFail(r, id)
<1>1. /\ r.queue \in Seq(Frames) /\ DOMAIN r.queue = 1..1 /\ r.queue[1] = f /\ f \in Frames
      /\ Len(r.queue) = 1
  BY DEF Alone, RxType
<1>2. /\ failed \in RxType /\ failed.queue = r.queue /\ failed.read = r.read
      /\ failed.dropped = TRUE /\ failed.index = 0 /\ failed.tid = r.tid
  <2>1. 0 \in 0..MaxFragments
    BY WpsFragAssumption
  <2> QED BY <2>1 DEF RxType
<1>3. s = IF rest.queue = <<>> THEN rest
          ELSE IF Head(rest.queue).type = "full" THEN NotifyReceived(rest)
          ELSE [rest EXCEPT !.dropped = FALSE, !.tid = Head(rest.queue).tid, !.index = 1]
  BY DEF ReadProcessFail
<1>4. 0 \in 0..Len(failed.queue) /\ 1 \in 0..Len(failed.queue)
  BY <1>1, <1>2
<1>5. CASE f.type = "last"
  <2>1. starts = {}
    BY <1>1, <1>5
  <2>2. rest = ReadDone(failed, 1)
    BY <1>1, <1>2, <2>1 DEF FreeUntil
  <2> HIDE DEF failed, starts, rest
  <2>3. /\ rest \in RxType /\ SameExpectation(failed, rest) /\ rest.read = r.read
        /\ Len(rest.queue) = 0
    <3>1. Len(failed.queue) - 1 = 0
      BY <1>1, <1>2
    <3> QED BY <1>2, <1>4, <2>2, <3>1, RestHasLast
  <2>4. rest.queue = <<>>
    BY <2>3 DEF RxType
  <2> QED BY <1>2, <1>3, <1>5, <2>3, <2>4 DEF SameExpectation, Fails
<1>6. CASE f.type = "nonlast" /\ f.num = 0 /\ r.tid # id
  <2>1. starts = {1}
    BY <1>1, <1>6
  <2>2. rest = ReadDone(failed, 0)
    <3>1. Min(starts) = 1 /\ starts # {}
      BY <2>1, OnlyPlace
    <3> QED BY <3>1 DEF FreeUntil
  <2> HIDE DEF failed, starts, rest
  <2>3. /\ rest \in RxType /\ rest.read = r.read /\ rest.queue = r.queue
    BY <1>2, <1>4, <2>2, RestHasLast
  <2>4. rest.queue # <<>> /\ Head(rest.queue) = f
    BY <1>1, <2>3
  <2>5. s = [rest EXCEPT !.dropped = FALSE, !.tid = f.tid, !.index = 1]
    BY <1>3, <1>6, <2>4
  <2>6. f.tid \in 0..MAX_TRANSACTION_ID - 1 /\ 1 \in 0..MaxFragments
    BY <1>1, WpsFragAssumption DEF Frames
  <2>7. /\ s \in RxType /\ s.queue = rest.queue /\ s.read = rest.read
        /\ s.dropped = FALSE /\ s.index = 1 /\ s.tid = f.tid
    BY <2>3, <2>5, <2>6 DEF RxType
  <2> QED BY <1>1, <1>6, <2>3, <2>7 DEF Alone, Fails
<1> QED BY <1>5, <1>6

LEMMA FailLast ==
    ASSUME NEW r \in RxType, NEW f, NEW id, Alone(r, f), f.type = "last"
    PROVE  LET s == ReadProcessFail(r, id)
           IN  /\ s \in RxType /\ Len(s.queue) = 0 /\ s.read = r.read
               /\ s.dropped = TRUE /\ s.index = 0 /\ s.tid = r.tid
<1> DEFINE s == ReadProcessFail(r, id)
<1>1. Fails(r, f, s)
  BY FailShort
<1> HIDE DEF s
<1>2. /\ s \in RxType /\ Len(s.queue) = 0 /\ s.read = r.read
      /\ s.dropped = TRUE /\ s.index = 0 /\ s.tid = r.tid
  BY <1>1 DEF Fails
<1> QED BY <1>2 DEF s

-----------------------------------------------------------------------------
(* Between two callbacks the receiver waits for nothing, or for the rest of *)
(* the transaction of the only frame in its queue.                          *)
Settled(r) ==
    /\ r.index \in {0, 1}
    /\ r.dropped => Len(r.queue) = 0 /\ r.index = 0
    /\ \/ Len(r.queue) = 0
       \/ /\ Len(r.queue) = 1 /\ r.queue[1].type # "full"
          /\ r.index = 1 /\ r.tid = r.queue[1].tid

(* The transaction it has begun or given up does not start again.           *)
StartsNew(r, g) == r.dropped \/ r.index = 1 => ~(g.num = 0 /\ g.msg - 1 = r.tid)

(* A frame has just joined a settled receiver's queue.                      *)
Arrives(m, f) ==
    /\ m \in RxType /\ Sound(f) /\ m.index \in {0, 1} /\ StartsNew(m, f)
    /\ \/ Alone(m, f) /\ (m.dropped => m.index = 0)
       \/ \E q : /\ Pair(m, q, f) /\ Sound(q) /\ Before(q, f) /\ q.type # "full"
                 /\ m.index = 1 /\ m.tid = q.tid /\ ~m.dropped

(* The receiver has the first fragment of payload k and expects the other.  *)
Waits(r, k) ==
    /\ Len(r.queue) = 1 /\ r.queue[1].msg = k
    /\ ~r.dropped /\ r.index = 1 /\ r.tid = k - 1

Settles(m, f, s) ==
    /\ s \in RxType /\ Settled(s)
    /\ Len(s.queue) = 1 => s.queue[1] = f
    /\ s.dropped \/ s.index = 1 =>
          s.tid = f.tid \/ (s.tid = m.tid /\ (m.dropped \/ m.index = 1))
    /\ s.read = m.read \/ ReadsWhole(m, s)

LEMMA EmptySettles ==
    ASSUME NEW m, NEW f, NEW s \in RxType, Len(s.queue) = 0, s.index \in {0, 1},
           s.dropped => s.index = 0,
           s.dropped \/ s.index = 1 =>
              s.tid = f.tid \/ (s.tid = m.tid /\ (m.dropped \/ m.index = 1)),
           s.read = m.read \/ ReadsWhole(m, s)
    PROVE  Settles(m, f, s)
BY DEF Settles, Settled

LEMMA AloneSettles ==
    ASSUME NEW m, NEW f, NEW s \in RxType, Alone(s, f), s.index = 1, s.tid = f.tid,
           ~s.dropped, f.type # "full", s.read = m.read
    PROVE  Settles(m, f, s)
BY DEF Settles, Settled, Alone

LEMMA FullSettles ==
    ASSUME ~setup.polling, NEW m, NEW f, Arrives(m, f), f.type = "full"
    PROVE  LET s == ProcessFull([m EXCEPT !.dropped = FALSE])
           IN  Settles(m, f, s) /\ Returns(m, s, f.msg)
<1> DEFINE clear == [m EXCEPT !.dropped = FALSE]
           ready == IF clear.index # 0 THEN FlushLastTransaction(clear) ELSE clear
           s == ProcessFull(clear)
<1>1. /\ clear \in RxType /\ clear.queue = m.queue /\ clear.read = m.read
      /\ clear.dropped = FALSE /\ clear.index = m.index /\ clear.tid = m.tid
  BY DEF Arrives, RxType
<1>2. s = NotifyReceived(ready)
  BY DEF ProcessFull
<1>3. f.num = 0 /\ f.tid = f.msg - 1
  BY DEF Arrives, Sound
<1> HIDE DEF clear, s
<1>4. /\ ready \in RxType /\ Alone(ready, f) /\ ready.read = m.read /\ ready.dropped = FALSE
      /\ ready.index \in {0, 1} /\ (ready.index = 1 => ready.tid = f.tid)
  <2>1. CASE m.index = 0
    BY <1>1, <2>1 DEF Arrives, Alone
  <2>2. CASE m.index = 1
    <3>1. f.tid # clear.tid
      BY <1>1, <1>3, <2>2 DEF Arrives, StartsNew
    <3>2. Alone(clear, f) \/ \E q : Pair(clear, q, f) /\ q.tid = clear.tid
      BY <1>1 DEF Arrives, Alone, Pair
    <3>3. ready = FlushLastTransaction(clear)
      BY <1>1, <2>2
    <3> QED BY <1>1, <3>1, <3>2, <3>3, FlushLeavesFrame
  <2> QED BY <2>1, <2>2 DEF Arrives
<1> HIDE DEF ready
<1>5. /\ s \in RxType /\ SameExpectation(ready, s) /\ Len(s.queue) = 0
      /\ ReadsWhole(ready, s) /\ Returns(ready, s, ready.queue[1].msg)
  <2>1. 1 \in 1..MaxFragments
    BY WpsFragAssumption
  <2>2. /\ Len(ready.queue) = 1 /\ StartsPayload(ready.queue[1])
        /\ ready.queue[1].type = "full" /\ ready.queue[1].num = 0
    BY <1>3, <1>4 DEF Alone, StartsPayload
  <2>3. \A i \in 1..1 : ready.queue[i].num = i - 1 /\ ready.queue[i].msg = ready.queue[1].msg
    BY <2>2
  <2>4. \A i \in 1..1 - 1 : ready.queue[i].type = "nonlast"
    OBVIOUS
  <2> QED BY <1>2, <1>4, <2>1, <2>2, <2>3, <2>4, NotifyReceivedWhole
<1>6. ReadsWhole(m, s)
  BY <1>4, <1>5 DEF ReadsWhole
<1>7. Settles(m, f, s)
  BY <1>4, <1>5, <1>6, EmptySettles DEF SameExpectation
<1>8. Returns(m, s, f.msg)
  BY <1>4, <1>5 DEF Returns, Alone
<1> QED BY <1>7, <1>8 DEF s, clear

LEMMA DroppedSettles ==
    ASSUME NEW m, NEW f, Arrives(m, f), f.type # "full", m.dropped
    PROVE  /\ f.tid # m.tid => Settles(m, f, ReadProcessFail(m, f.tid))
           /\ f.tid = m.tid => f.num # m.index /\ Settles(m, f, ReadDone(m, 1))
           /\ f.type = "nonlast" => f.tid # m.tid /\ Waits(ReadProcessFail(m, f.tid), f.msg)
<1>1. m \in RxType /\ Alone(m, f) /\ m.index = 0 /\ f.tid = f.msg - 1
  BY DEF Arrives, Sound
<1>2. (f.type = "nonlast" /\ f.num = 0) \/ (f.type = "last" /\ f.num = 1)
  BY DEF Arrives, Sound
<1>3. ASSUME f.tid # m.tid
      PROVE  Settles(m, f, ReadProcessFail(m, f.tid))
  <2> DEFINE s == ReadProcessFail(m, f.tid)
  <2>1. CASE f.type = "last"
    <3>1. /\ s \in RxType /\ Len(s.queue) = 0 /\ s.read = m.read
          /\ s.dropped = TRUE /\ s.index = 0 /\ s.tid = m.tid
      BY <1>1, <2>1, FailLast, Zenon
    <3> HIDE DEF s
    <3>2. Settles(m, f, s)
      BY <3>1, EmptySettles
    <3> QED BY <3>2 DEF s
  <2>2. CASE f.type = "nonlast" /\ f.num = 0
    <3>1. /\ s \in RxType /\ Alone(s, f) /\ s.read = m.read
          /\ ~s.dropped /\ s.index = 1 /\ s.tid = f.tid
      <4>1. Fails(m, f, s)
        BY <1>1, <1>3, <2>2, FailShort
      <4> HIDE DEF s
      <4> QED BY <2>2, <4>1 DEF Fails
    <3> HIDE DEF s
    <3>2. Settles(m, f, s)
      BY <2>2, <3>1, AloneSettles
    <3> QED BY <3>2 DEF s
  <2> QED BY <1>2, <2>1, <2>2
<1>4. ASSUME f.tid = m.tid
      PROVE  f.num # m.index /\ Settles(m, f, ReadDone(m, 1))
  <2> DEFINE s == ReadDone(m, 1)
  <2>1. f.num # m.index
    BY <1>1, <1>4 DEF Arrives, StartsNew
  <2>2. 1 \in 0..Len(m.queue) /\ Len(m.queue) - 1 = 0
    BY <1>1 DEF Alone
  <2>3. s \in RxType /\ SameExpectation(m, s) /\ s.read = m.read /\ Len(s.queue) = 0
    BY <1>1, <2>2, RestHasLast
  <2> HIDE DEF s
  <2>4. Settles(m, f, s)
    BY <1>1, <2>3, EmptySettles DEF SameExpectation
  <2> QED BY <2>1, <2>4 DEF s
<1>5. ASSUME f.type = "nonlast"
      PROVE  f.tid # m.tid /\ Waits(ReadProcessFail(m, f.tid), f.msg)
  <2>1. f.num = 0
    BY <1>2, <1>5
  <2>2. f.tid # m.tid
    BY <1>1, <2>1 DEF Arrives, StartsNew
  <2>3. Fails(m, f, ReadProcessFail(m, f.tid))
    BY <1>1, <1>5, <2>1, <2>2, FailShort
  <2> QED BY <1>1, <1>5, <2>2, <2>3 DEF Fails, Waits, Alone
<1> QED BY <1>3, <1>4, <1>5

LEMMA NonLastSettles ==
    ASSUME NEW m, NEW f, Arrives(m, f), f.type = "nonlast", ~m.dropped
    PROVE  Settles(m, f, ProcessNonLast(m, f)) /\ Waits(ProcessNonLast(m, f), f.msg)
<1>1. m \in RxType /\ f.num = 0 /\ f.tid = f.msg - 1 /\ f \in Frames
  BY DEF Arrives, Sound
<1>2. CASE m.index = 0
  <2> DEFINE s == [m EXCEPT !.tid = f.tid, !.index = @ + 1]
  <2>1. ProcessNonLast(m, f) = s
    BY <1>1, <1>2 DEF ProcessNonLast
  <2>2. f.tid \in 0..MAX_TRANSACTION_ID - 1 /\ 1 \in 0..MaxFragments
    BY <1>1, WpsFragAssumption DEF Frames
  <2>3. s = [m EXCEPT !.tid = f.tid, !.index = 1]
    BY <1>2
  <2> HIDE DEF s
  <2>4. /\ s \in RxType /\ s.queue = m.queue /\ s.read = m.read
        /\ s.dropped = m.dropped /\ s.index = 1 /\ s.tid = f.tid
    BY <1>1, <2>2, <2>3 DEF RxType
  <2>5. Alone(m, f)
    BY <1>2 DEF Arrives
  <2>6. Alone(s, f)
    BY <2>4, <2>5 DEF Alone
  <2>7. Settles(m, f, s)
    BY <2>4, <2>6, AloneSettles
  <2>8. Waits(s, f.msg)
    BY <1>1, <2>4, <2>6 DEF Waits, Alone
  <2> QED BY <2>1, <2>7, <2>8
<1>3. CASE m.index = 1
  <2>1. f.tid # m.tid
    BY <1>1, <1>3 DEF Arrives, StartsNew
  <2>2. ProcessNonLast(m, f) = FlushLastTransaction(m)
    BY <1>1, <1>3, <2>1 DEF ProcessNonLast
  <2>3. Alone(m, f) \/ \E q : Pair(m, q, f) /\ q.tid = m.tid
    BY DEF Arrives
  <2>4. /\ FlushLastTransaction(m) \in RxType /\ Alone(FlushLastTransaction(m), f)
        /\ FlushLastTransaction(m).read = m.read /\ FlushLastTransaction(m).tid = f.tid
        /\ FlushLastTransaction(m).index = 1 /\ FlushLastTransaction(m).dropped = m.dropped
    BY <1>1, <2>1, <2>3, FlushLeavesFrame
  <2>5. Settles(m, f, FlushLastTransaction(m))
    BY <2>4, AloneSettles
  <2>6. Waits(FlushLastTransaction(m), f.msg)
    BY <1>1, <2>4 DEF Waits, Alone
  <2> QED BY <2>2, <2>5, <2>6
<1> QED BY <1>2, <1>3 DEF Arrives

LEMMA LastSettles ==
    ASSUME ~setup.polling, NEW m, NEW f, Arrives(m, f), f.type = "last", ~m.dropped
    PROVE  /\ Settles(m, f, ProcessLast(m, f))
           /\ m.index = 1 /\ m.tid = f.msg - 1 /\ Len(m.queue) = 2
                => Returns(m, ProcessLast(m, f), f.msg)
<1>1. m \in RxType /\ f.num = 1 /\ f.tid = f.msg - 1 /\ f \in Frames
  BY DEF Arrives, Sound
<1>2. CASE f.num = m.index /\ f.tid = m.tid
  <2> DEFINE ended == [m EXCEPT !.index = 0]
             s == NotifyReceived(ended)
  <2>1. ProcessLast(m, f) = s
    BY <1>2 DEF ProcessLast
  <2>2. 0 \in 0..MaxFragments
    BY WpsFragAssumption
  <2>3. /\ ended \in RxType /\ ended.queue = m.queue /\ ended.read = m.read
        /\ ended.dropped = m.dropped /\ ended.index = 0 /\ ended.tid = m.tid
    BY <1>1, <2>2 DEF RxType
  <2> HIDE DEF ended
  <2>4. /\ s \in RxType /\ SameExpectation(ended, s) /\ Len(s.queue) = 0
        /\ s.read = ended.read \/ ReadsWhole(ended, s)
        /\ Len(m.queue) = 2 => Returns(ended, s, f.msg)
    <3>1. CASE Alone(m, f)
      <4>1. Alone(ended, f) /\ Len(m.queue) # 2
        BY <2>3, <3>1 DEF Alone
      <4> QED BY <2>3, <4>1, NotifyReceivedLast
    <3>2. ASSUME NEW q, Pair(m, q, f), Sound(q), Before(q, f), q.type # "full", m.tid = q.tid
          PROVE  /\ s \in RxType /\ SameExpectation(ended, s) /\ Len(s.queue) = 0
                 /\ ReadsWhole(ended, s) /\ Returns(ended, s, f.msg)
      <4>1. q.msg = f.msg /\ q.num = 0 /\ q.type = "nonlast"
        <5>1. q.msg - 1 = f.msg - 1 /\ q.msg \in Nat /\ f.msg \in Nat
          BY <1>1, <1>2, <3>2, WpsFragAssumption DEF Sound, Frames
        <5>2. q.msg = f.msg
          BY <5>1
        <5>3. q.type = "nonlast"
          BY <5>1, <5>2, <3>2 DEF Before
        <5> QED BY <3>2, <5>2, <5>3 DEF Sound
      <4>2. 2 \in 1..MaxFragments
        BY <1>1, WpsFragAssumption DEF Frames
      <4>3. Len(ended.queue) = 2 /\ ended.queue[1] = q /\ ended.queue[2] = f
        BY <2>3, <3>2 DEF Pair
      <4>4. StartsPayload(ended.queue[1])
        BY <4>1, <4>3 DEF StartsPayload
      <4>5. \A i \in 1..2 - 1 : ended.queue[i].type = "nonlast"
        BY <4>1, <4>3
      <4>6. \A i \in 1..2 : ended.queue[i].num = i - 1 /\ ended.queue[i].msg = ended.queue[1].msg
        BY <1>1, <4>1, <4>3
      <4>7. ended.queue[1].msg = f.msg
        BY <4>1, <4>3
      <4> QED BY <2>3, <4>2, <4>3, <4>4, <4>5, <4>6, <4>7, NotifyReceivedWhole
    <3> QED BY <3>1, <3>2 DEF Arrives
  <2> HIDE DEF s
  <2>5. s.read = m.read \/ ReadsWhole(m, s)
    BY <2>3, <2>4 DEF ReadsWhole
  <2>6. Len(m.queue) = 2 => Returns(m, s, f.msg)
    BY <2>3, <2>4 DEF Returns
  <2>7. Settles(m, f, s)
    BY <2>3, <2>4, <2>5, EmptySettles DEF SameExpectation
  <2> QED BY <2>1, <2>6, <2>7
<1>3. CASE f.tid # m.tid
  <2>1. ProcessLast(m, f) = FlushLastTransaction(m)
    BY <1>3 DEF ProcessLast
  <2>2. Alone(m, f) \/ \E q : Pair(m, q, f) /\ q.tid = m.tid
    BY DEF Arrives
  <2>3. /\ FlushLastTransaction(m) \in RxType /\ Alone(FlushLastTransaction(m), f)
        /\ FlushLastTransaction(m).read = m.read /\ FlushLastTransaction(m).tid = f.tid
        /\ FlushLastTransaction(m).index = 1 /\ FlushLastTransaction(m).dropped = m.dropped
    BY <1>1, <1>3, <2>2, FlushLeavesFrame
  <2>4. m.tid # f.msg - 1
    BY <1>1, <1>3
  <2> QED BY <2>1, <2>3, <2>4, AloneSettles
<1>4. CASE f.num # m.index /\ f.tid = m.tid
  <2> DEFINE s == ReadProcessFail(m, f.tid)
  <2>1. ProcessLast(m, f) = s
    BY <1>4 DEF ProcessLast
  <2>2. m \in RxType /\ m.index = 0 /\ Alone(m, f)
    BY <1>1, <1>4 DEF Arrives
  <2>3. /\ s \in RxType /\ Len(s.queue) = 0 /\ s.read = m.read
        /\ s.dropped = TRUE /\ s.index = 0 /\ s.tid = m.tid
    BY <2>2, FailLast, Zenon
  <2> HIDE DEF s
  <2>4. Settles(m, f, s) /\ m.index # 1
    BY <1>1, <1>4, <2>3, EmptySettles
  <2> QED BY <2>1, <2>4
<1> QED BY <1>2, <1>3, <1>4

(* A full frame is read, a first fragment is waited upon, and a last one    *)
(* that was waited for completes its payload.                               *)
Serves(m, f, s) ==
    /\ f.type = "full" => Returns(m, s, f.msg)
    /\ f.type = "nonlast" => Waits(s, f.msg)
    /\ f.type = "last" /\ ~m.dropped /\ m.index = 1 /\ m.tid = f.msg - 1 /\ Len(m.queue) = 2
         => Returns(m, s, f.msg)

LEMMA ProcessFrameSettles ==
    ASSUME ~setup.polling, NEW m, NEW f, Arrives(m, f)
    PROVE  Settles(m, f, ProcessFrame(m, f)) /\ Serves(m, f, ProcessFrame(m, f))
<1>1. f.type \in {"full", "nonlast", "last"} /\ m.dropped \in BOOLEAN
  BY DEF Arrives, Sound, RxType
<1>2. CASE f.type = "full"
  <2>1. ProcessFrame(m, f) = ProcessFull([m EXCEPT !.dropped = FALSE])
    BY <1>2 DEF ProcessFrame
  <2> QED BY <1>2, <2>1, FullSettles DEF Serves
<1>3. CASE f.type # "full" /\ m.dropped
  <2>1. CASE f.tid # m.tid
    <3>1. ProcessFrame(m, f) = ReadProcessFail(m, f.tid)
      BY <1>3, <2>1 DEF ProcessFrame
    <3> QED BY <1>3, <2>1, <3>1, DroppedSettles DEF Serves
  <2>2. CASE f.tid = m.tid
    <3>1. /\ f.num # m.index /\ Settles(m, f, ReadDone(m, 1))
          /\ f.type # "nonlast"
      BY <1>3, <2>2, DroppedSettles
    <3>2. ProcessFrame(m, f) = ReadDone(m, 1)
      BY <1>3, <2>2, <3>1 DEF ProcessFrame
    <3> QED BY <1>3, <3>1, <3>2 DEF Serves
  <2> QED BY <2>1, <2>2
<1>4. CASE f.type = "nonlast" /\ ~m.dropped
  <2>1. ProcessFrame(m, f) = ProcessNonLast(m, f)
    BY <1>4 DEF ProcessFrame
  <2> QED BY <1>4, <2>1, NonLastSettles DEF Serves
<1>5. CASE f.type = "last" /\ ~m.dropped
  <2>1. ProcessFrame(m, f) = ProcessLast(m, f)
    BY <1>5 DEF ProcessFrame
  <2> QED BY <1>5, <2>1, LastSettles DEF Serves
<1> QED BY <1>1, <1>2, <1>3, <1>4, <1>5

-----------------------------------------------------------------------------
(* Everything on its way is ahead of the transaction the receiver has begun *)
(* or given up.                                                             *)
Ahead(r, g) ==
    r.dropped \/ r.index = 1 => g.msg - 1 > r.tid \/ (g.msg - 1 = r.tid /\ g.num > 0)

Awaits(r, q) == \A i \in 1..Len(q) : Sound(q[i]) /\ Ahead(r, q[i])

AllWhole == \A i \in DOMAIN rx.read : IsWhole(rx.read[i])

ShortInv ==
    /\ Settled(rx) /\ Ahead(rx, Upcoming)
    /\ \A i \in 1..Len(rx.queue) : Sound(rx.queue[i])
    /\ Awaits(rx, rx.frag) /\ Awaits(rx, txq)
    /\ sending # NotSending => /\ nextId = sentCount - 1
                               /\ Len(txq) + sending.count <= TxQueueSize + sending.next
    /\ sending = NotSending /\ sentCount < NumMsgs => nextId = sentCount
    /\ AllWhole

LEMMA ReceiverNumbers ==
    ASSUME NEW r \in RxType
    PROVE  r.tid \in Nat /\ r.index \in Nat
BY WpsFragAssumption DEF RxType

LEMMA SoundNumbers ==
    ASSUME NEW f, Sound(f)
    PROVE  f \in Frames /\ f.tid \in Nat /\ f.msg \in Nat /\ f.num \in Nat /\ f.tid = f.msg - 1
BY WpsFragAssumption DEF Sound, Frames

LEMMA AheadStartsNew ==
    ASSUME NEW r \in RxType, NEW f, Sound(f), Ahead(r, f)
    PROVE  StartsNew(r, f)
BY ReceiverNumbers, SoundNumbers DEF Ahead, StartsNew

LEMMA AheadLater ==
    ASSUME NEW r \in RxType, NEW m \in Nat, NEW n \in Nat, NEW k \in Nat, NEW l \in Nat,
           Ahead(r, [msg |-> m, num |-> n]), m < k \/ (m = k /\ n <= l)
    PROVE  Ahead(r, [msg |-> k, num |-> l])
BY ReceiverNumbers DEF Ahead

LEMMA AheadSame ==
    ASSUME NEW r, NEW s, NEW g, SameExpectation(r, s), Ahead(r, g)
    PROVE  Ahead(s, g)
BY DEF Ahead, SameExpectation

LEMMA AwaitsSame ==
    ASSUME NEW r, NEW s, NEW q, SameExpectation(r, s), Awaits(r, q)
    PROVE  Awaits(s, q)
BY AheadSame DEF Awaits

(* What comes after a frame is ahead of it once the frame is looked at.     *)
LEMMA AheadOfSettled ==
    ASSUME NEW m \in RxType, NEW f, NEW s, Sound(f), Settles(m, f, s), NEW g,
           g.msg \in Nat, g.num \in Nat, Before(f, g), Ahead(m, g)
    PROVE  Ahead(s, g)
<1> SUFFICES ASSUME s.dropped \/ s.index = 1
             PROVE  g.msg - 1 > s.tid \/ (g.msg - 1 = s.tid /\ g.num > 0)
  BY DEF Ahead
<1>1. s.tid = f.tid \/ (s.tid = m.tid /\ (m.dropped \/ m.index = 1))
  BY DEF Settles
<1>2. CASE s.tid = f.tid
  BY <1>2, SoundNumbers DEF Before
<1>3. CASE s.tid = m.tid /\ (m.dropped \/ m.index = 1)
  BY <1>3 DEF Ahead
<1> QED BY <1>1, <1>2, <1>3

LEMMA WholeNext ==
    ASSUME Base, AllWhole, rx'.read = rx.read \/ ReadsWhole(rx, rx')
    PROVE  AllWhole'
<1>1. rx.read \in Seq(Seq(Frames))
  BY DEF Base, RxType
<1>2. CASE rx'.read = rx.read
  BY <1>2 DEF AllWhole
<1>3. ASSUME NEW piece \in Seq(Frames), IsWhole(piece), rx'.read = Append(rx.read, piece)
      PROVE  AllWhole'
  <2>1. ASSUME NEW i \in DOMAIN rx'.read
        PROVE  rx'.read[i] = piece \/ (i \in DOMAIN rx.read /\ rx'.read[i] = rx.read[i])
    BY <1>1, <1>3, <2>1
  <2>2. \A i \in DOMAIN rx'.read : IsWhole(rx'.read[i])
    BY <1>3, <2>1 DEF AllWhole
  <2> QED BY <2>2 DEF AllWhole, IsWhole
<1> QED BY <1>2, <1>3 DEF ReadsWhole

LEMMA ShortSetup ==
    ASSUME ShortMode, Base
    PROVE  ~setup.polling /\ setup.queueSize \in Nat /\ setup.queueSize > 1
BY SetupTypes DEF ShortMode, Base

LEMMA ShortInit ==
    ASSUME ShortMode, Init
    PROVE  ShortInv
<1>1. /\ rx.frag = <<>> /\ rx.queue = <<>> /\ rx.read = <<>> /\ rx.index = 0
      /\ rx.dropped = FALSE /\ txq = <<>> /\ sending = NotSending
      /\ sentCount = 0 /\ nextId = 0
  BY DEF Init
<1>2. Settled(rx) /\ \A g : Ahead(rx, g)
  BY <1>1 DEF Settled, Ahead
<1>3. Awaits(rx, rx.frag) /\ Awaits(rx, txq)
  BY <1>1 DEF Awaits
<1>4. AllWhole
  BY <1>1 DEF AllWhole
<1> QED BY <1>1, <1>2, <1>3, <1>4 DEF ShortInv

(* The receiver looks at the oldest frame of the fragment queue.            *)
LEMMA ShortArrival ==
    ASSUME ShortMode, Base, OrderInv, ShortInv, rx.frag # <<>>
    PROVE  LET m == MoveFrame(rx)
               f == Head(rx.frag)
           IN  /\ Arrives(m, f) /\ SameExpectation(rx, m) /\ m.read = rx.read
               /\ m.frag = Tail(rx.frag)
<1> DEFINE m == MoveFrame(rx)
           f == Head(rx.frag)
<1>1. /\ rx \in RxType /\ rx.frag \in Seq(Frames) /\ rx.queue \in Seq(Frames)
      /\ Len(rx.queue) \in Nat
  BY RxTypes DEF Base
<1>2. 1 \in 1..Len(rx.frag) /\ f = rx.frag[1]
  BY <1>1, TailPlaces
<1>3. Sound(f) /\ Ahead(rx, f) /\ InOrder(rx, f)
  BY <1>2 DEF ShortInv, Awaits, OrderInv
<1>4. Settled(rx)
  BY DEF ShortInv
<1>5. Len(rx.queue) < setup.queueSize
  <2>1. Len(rx.queue) = 0 \/ Len(rx.queue) = 1
    BY <1>4 DEF Settled
  <2>2. \A n \in Nat, size \in Nat : size > 1 /\ (n = 0 \/ n = 1) => n < size
    OBVIOUS
  <2> QED BY <1>1, <2>1, <2>2, ShortSetup
<1>6. /\ m \in RxType /\ m.read = rx.read /\ m.frag = Tail(rx.frag)
      /\ m.index = rx.index /\ m.tid = rx.tid /\ m.dropped = rx.dropped
      /\ m.queue = Append(rx.queue, f)
  BY <1>5, MoveFrameEffect
<1> HIDE DEF m, f
<1>7. SameExpectation(rx, m)
  BY <1>6 DEF SameExpectation
<1>8. StartsNew(m, f)
  <2>1. Ahead(m, f)
    BY <1>3, <1>7, AheadSame
  <2> QED BY <1>3, <1>6, <2>1, AheadStartsNew
<1>9. /\ Len(m.queue) = Len(rx.queue) + 1
      /\ \A i \in 1..Len(m.queue) : \/ i \in 1..Len(rx.queue) /\ m.queue[i] = rx.queue[i]
                                    \/ i = Len(rx.queue) + 1 /\ m.queue[i] = f
  <2>1. f \in Frames
    BY <1>3, SoundNumbers
  <2> QED BY <1>1, <1>6, <2>1, AppendPlaces
<1>10. CASE Len(rx.queue) = 0
  <2>1. Len(m.queue) = 1 /\ 1 \in 1..Len(m.queue)
    BY <1>9, <1>10
  <2>2. Alone(m, f)
    BY <1>9, <1>10, <2>1 DEF Alone
  <2>3. m.index \in {0, 1} /\ (m.dropped => m.index = 0)
    BY <1>4, <1>6 DEF Settled
  <2> QED BY <1>3, <1>6, <1>7, <1>8, <2>2, <2>3 DEF Arrives, m, f
<1>11. CASE Len(rx.queue) # 0
  <2> DEFINE q == rx.queue[1]
  <2>1. /\ Len(rx.queue) = 1 /\ q.type # "full" /\ rx.index = 1 /\ rx.tid = q.tid
        /\ ~rx.dropped
    BY <1>4, <1>11 DEF Settled
  <2>2. 1 \in 1..Len(rx.queue)
    BY <2>1
  <2>3. Sound(q) /\ Before(q, f)
    BY <1>3, <2>2 DEF ShortInv, InOrder
  <2>4. Pair(m, q, f)
    <3>1. Len(m.queue) = 2 /\ 1 \in 1..Len(m.queue) /\ 2 \in 1..Len(m.queue)
      BY <1>9, <2>1
    <3> QED BY <1>9, <2>1, <3>1 DEF Pair
  <2> HIDE DEF q
  <2>5. m.index = 1 /\ m.tid = q.tid /\ ~m.dropped /\ m.index \in {0, 1}
    BY <1>6, <2>1
  <2> QED BY <1>3, <1>6, <1>7, <1>8, <2>1, <2>3, <2>4, <2>5 DEF Arrives, m, f
<1> QED BY <1>10, <1>11

LEMMA UpcomingNumbers ==
    ASSUME Base
    PROVE  /\ Upcoming.msg \in Nat /\ Upcoming.num \in Nat
           /\ Upcoming = [msg |-> Upcoming.msg, num |-> Upcoming.num]
BY WpsFragAssumption DEF Upcoming, Base, Calls

LEMMA ShortKeptByMove ==
    ASSUME ShortMode, Base, OrderInv, ShortInv, rx.frag # <<>>,
           rx' = ProcessFrame(MoveFrame(rx), Head(rx.frag)),
           UNCHANGED <<sentCount, sending, nextId, txq>>
    PROVE  ShortInv'
<1> DEFINE m == MoveFrame(rx)
           f == Head(rx.frag)
           rest == Tail(rx.frag)
<1>1. /\ Arrives(m, f) /\ SameExpectation(rx, m) /\ m.read = rx.read
      /\ m.frag = rest
  BY ShortArrival
<1>2. rx' = ProcessFrame(m, f)
  OBVIOUS
<1>3. rx.frag \in Seq(Frames)
  BY RxTypes DEF Base
<1>4. /\ 1 \in 1..Len(rx.frag) /\ f = rx.frag[1] /\ rest \in Seq(Frames)
      /\ \A i \in 1..Len(rest) : rest[i] = rx.frag[i + 1] /\ i + 1 \in 1..Len(rx.frag)
  BY <1>3, TailPlaces
<1>5. Before(f, Upcoming) /\ \A i \in 1..Len(rest) : Before(f, rest[i])
  BY <1>3, LineTail DEF OrderInv
<1> HIDE DEF m, f, rest
<1>6. Settles(m, f, rx')
  BY <1>1, <1>2, ShortSetup, ProcessFrameSettles
<1>7. m \in RxType /\ Sound(f)
  BY <1>1 DEF Arrives
<1>8. rx'.frag = rest
  <2>1. Keeps(m, rx')
    <3>1. f \in Frames
      BY <1>7, SoundNumbers
    <3>2. Len(m.queue) > 0
      BY <1>1 DEF Arrives, Alone, Pair
    <3> QED BY <1>2, <1>7, <3>1, <3>2, ProcessFrameKeeps
  <2> QED BY <1>1, <2>1 DEF Keeps
<1>9. ASSUME NEW g, g.msg \in Nat, g.num \in Nat, Before(f, g), Ahead(rx, g)
      PROVE  Ahead(rx', g)
  <2>1. Ahead(m, g)
    BY <1>1, <1>9, AheadSame
  <2> QED BY <1>6, <1>7, <1>9, <2>1, AheadOfSettled
<1>10. Ahead(rx', Upcoming)
  BY <1>5, <1>9, UpcomingNumbers DEF ShortInv
<1>11. Awaits(rx', rest)
  <2>1. ASSUME NEW i \in 1..Len(rest)
        PROVE  Sound(rest[i]) /\ Ahead(rx', rest[i])
    <3>1. Sound(rest[i]) /\ Ahead(rx, rest[i])
      BY <1>4 DEF ShortInv, Awaits
    <3>2. rest[i].msg \in Nat /\ rest[i].num \in Nat
      BY <3>1, SoundNumbers
    <3> QED BY <1>5, <1>9, <3>1, <3>2
  <2> QED BY <2>1 DEF Awaits
<1>12. Awaits(rx', txq)
  <2>1. ASSUME NEW i \in 1..Len(txq)
        PROVE  Sound(txq[i]) /\ Ahead(rx', txq[i])
    <3>1. Sound(txq[i]) /\ Ahead(rx, txq[i])
      BY DEF ShortInv, Awaits
    <3>2. txq[i].msg \in Nat /\ txq[i].num \in Nat
      BY <3>1, SoundNumbers
    <3>3. Before(f, txq[i])
      BY <1>4 DEF OrderInv
    <3> QED BY <1>9, <3>1, <3>2, <3>3
  <2> QED BY <2>1 DEF Awaits
<1>13. Settled(rx')
  BY <1>6 DEF Settles
<1>14. \A i \in 1..Len(rx'.queue) : Sound(rx'.queue[i])
  BY <1>6, <1>7, <1>13 DEF Settles, Settled
<1>15. AllWhole'
  <2>1. rx'.read = rx.read \/ ReadsWhole(rx, rx')
    BY <1>1, <1>6 DEF Settles, ReadsWhole
  <2> QED BY <2>1, WholeNext DEF ShortInv
<1>16. Upcoming' = Upcoming
  BY DEF Upcoming
<1> QED BY <1>8, <1>10, <1>11, <1>12, <1>13, <1>14, <1>15, <1>16 DEF ShortInv

(* The receiver empties its queue, or nothing happens to it.                *)
LEMMA ShortKeptByReceiver ==
    ASSUME Base, ShortInv, rx'.frag = rx.frag, rx'.read = rx.read,
           rx'.queue = rx.queue \/ Len(rx'.queue) = 0,
           SameExpectation(rx, rx'), UNCHANGED <<sentCount, sending, nextId, txq>>
    PROVE  ShortInv'
<1>1. Settled(rx') /\ \A i \in 1..Len(rx'.queue) : Sound(rx'.queue[i])
  BY DEF ShortInv, Settled, SameExpectation
<1>2. Ahead(rx', Upcoming) /\ Awaits(rx', rx.frag) /\ Awaits(rx', txq)
  BY AheadSame, AwaitsSame DEF ShortInv
<1>3. AllWhole'
  BY DEF ShortInv, AllWhole
<1>4. Upcoming' = Upcoming
  BY DEF Upcoming
<1> QED BY <1>1, <1>2, <1>3, <1>4 DEF ShortInv

(* The oldest frame of the sender's queue arrives or is lost.               *)
LEMMA ShortKeptByConnection ==
    ASSUME Base, ShortInv, txq # <<>>, txq' = Tail(txq),
           rx'.queue = rx.queue, rx'.read = rx.read, SameExpectation(rx, rx'),
           rx'.frag = rx.frag \/ rx'.frag = Append(rx.frag, Head(txq)),
           UNCHANGED <<sentCount, sending, nextId>>
    PROVE  ShortInv'
<1> DEFINE f == Head(txq)
           rest == Tail(txq)
<1>1. txq \in Seq(Frames) /\ rx.frag \in Seq(Frames) /\ Len(txq) \in Nat
  BY RxTypes DEF Base
<1>2. /\ 1 \in 1..Len(txq) /\ f = txq[1] /\ f \in Frames /\ Len(rest) = Len(txq) - 1
      /\ \A i \in 1..Len(rest) : rest[i] = txq[i + 1] /\ i + 1 \in 1..Len(txq)
  BY <1>1, TailPlaces
<1>3. txq' = rest /\ Upcoming' = Upcoming
  BY DEF Upcoming
<1> HIDE DEF f, rest
<1>4. Sound(f) /\ Ahead(rx', f)
  BY <1>2, AheadSame DEF ShortInv, Awaits
<1>5. Awaits(rx', rest)
  <2>1. Awaits(rx, rest)
    BY <1>2 DEF ShortInv, Awaits
  <2> QED BY <2>1, AwaitsSame
<1>6. Awaits(rx', rx'.frag)
  <2>1. Awaits(rx', rx.frag)
    BY AwaitsSame DEF ShortInv
  <2>2. CASE rx'.frag = rx.frag
    BY <2>1, <2>2
  <2>3. CASE rx'.frag = Append(rx.frag, f)
    <3>1. \A i \in 1..Len(rx'.frag) : \/ i \in 1..Len(rx.frag) /\ rx'.frag[i] = rx.frag[i]
                                      \/ i = Len(rx.frag) + 1 /\ rx'.frag[i] = f
      BY <1>1, <1>2, <2>3, AppendPlaces
    <3> QED BY <1>4, <2>1, <3>1 DEF Awaits
  <2> QED BY <2>2, <2>3 DEF f
<1>7. Settled(rx') /\ \A i \in 1..Len(rx'.queue) : Sound(rx'.queue[i])
  BY DEF ShortInv, Settled, SameExpectation
<1>8. Ahead(rx', Upcoming)
  BY AheadSame DEF ShortInv
<1>9. AllWhole'
  BY DEF ShortInv, AllWhole
<1>10. sending # NotSending => /\ nextId = sentCount - 1
                               /\ Len(rest) + sending.count <= TxQueueSize + sending.next
  <2> SUFFICES ASSUME sending # NotSending
               PROVE  /\ nextId = sentCount - 1
                      /\ Len(rest) + sending.count <= TxQueueSize + sending.next
    OBVIOUS
  <2>1. nextId = sentCount - 1 /\ Len(txq) + sending.count <= TxQueueSize + sending.next
    BY DEF ShortInv
  <2>2. sending.count \in Nat /\ sending.next \in Nat /\ TxQueueSize \in Nat
    BY WpsFragAssumption DEF Base, Calls
  <2>3. \A l, c, t, n \in Nat : l + c <= t + n => l - 1 + c <= t + n
    OBVIOUS
  <2> QED BY <1>1, <1>2, <2>1, <2>2, <2>3
<1> QED BY <1>3, <1>5, <1>6, <1>7, <1>8, <1>9, <1>10 DEF ShortInv

(* The sender goes on without cutting a fragment.                           *)
LEMMA ShortKeptBySender ==
    ASSUME ShortInv, UNCHANGED <<txq, rx>>, Ahead(rx, Upcoming'),
           sending' # NotSending => /\ nextId' = sentCount' - 1
                                    /\ Len(txq) + sending'.count <= TxQueueSize + sending'.next,
           sending' = NotSending /\ sentCount' < NumMsgs => nextId' = sentCount'
    PROVE  ShortInv'
<1>1. AllWhole'
  BY DEF ShortInv, AllWhole
<1> QED BY <1>1 DEF ShortInv

LEMMA ShortKeptByFragment ==
    ASSUME ShortMode, Base, OrderInv, ShortInv, SendFragment
    PROVE  ShortInv'
<1> DEFINE f == Frame(sending.next, sending.count, nextId, sending.msg)
<1>1. /\ sending # NotSending /\ sending \in Calls /\ sending.next < sending.count
      /\ sending.msg = sentCount
      /\ UNCHANGED <<setup, sentCount, nextId, receiverVars>>
  BY DEF SendFragment, OrderInv, Base
<1>2. /\ nextId = sentCount - 1
      /\ Len(txq) + sending.count <= TxQueueSize + sending.next
  BY <1>1 DEF ShortInv
<1>3. /\ sentCount \in Nat /\ sending.next \in Nat /\ sending.count \in 1..2
      /\ TxQueueSize \in Nat /\ txq \in Seq(Frames) /\ Len(txq) \in Nat
      /\ rx \in RxType
  BY <1>1, WpsFragAssumption DEF Base, Calls, ShortMode
<1>4. Len(txq) < TxQueueSize
  BY <1>1, <1>2, <1>3
<1>5. /\ txq' = Append(txq, f) /\ sending' = [sending EXCEPT !.next = @ + 1]
  BY <1>4 DEF SendFragment
<1>6. /\ sending'.msg = sentCount /\ sending'.count = sending.count
      /\ sending'.next = sending.next + 1 /\ sending' # NotSending
  <2>1. sending'.msg = sentCount /\ sending'.count = sending.count
        /\ sending'.next = sending.next + 1
    BY <1>1, <1>5 DEF Calls
  <2>2. sending'.count # NotSending.count
    BY <1>3, <2>1 DEF NotSending
  <2> QED BY <2>1, <2>2
<1>7. /\ f.msg = sentCount /\ f.num = sending.next /\ f.tid = nextId
      /\ f.type = TransferType(sending.next, sending.count) /\ f \in Frames
  <2>1. f \in Frames
    BY <1>1, <1>4, <1>6, SendFragmentEffect
  <2> QED BY <1>1, <2>1 DEF Frame
<1> HIDE DEF f
<1>8. Sound(f)
  <2>1. f.tid = f.msg - 1
    BY <1>2, <1>7
  <2>2. CASE sending.count = 1
    <3>1. f.num = 0 /\ f.type = "full"
      BY <1>1, <1>3, <1>7, <2>2 DEF TransferType
    <3> QED BY <1>7, <2>1, <3>1 DEF Sound
  <2>3. CASE sending.count = 2 /\ sending.next = 0
    <3>1. f.num = 0 /\ f.type = "nonlast"
      BY <1>7, <2>3 DEF TransferType
    <3> QED BY <1>7, <2>1, <3>1 DEF Sound
  <2>4. CASE sending.count = 2 /\ sending.next = 1
    <3>1. f.num = 1 /\ f.type = "last"
      BY <1>7, <2>4 DEF TransferType
    <3> QED BY <1>7, <2>1, <3>1 DEF Sound
  <2> QED BY <1>1, <1>3, <2>2, <2>3, <2>4
<1>9. Upcoming = [msg |-> sentCount, num |-> sending.next]
  BY <1>1, <1>3 DEF Upcoming
<1>10. Ahead(rx, f)
  BY <1>7, <1>9 DEF ShortInv, Ahead
<1>11. Ahead(rx, Upcoming')
  <2>1. Ahead(rx, [msg |-> sentCount, num |-> sending.next])
    BY <1>9 DEF ShortInv
  <2>2. CASE sending.next + 1 = sending.count
    <3>1. Upcoming' = [msg |-> sentCount + 1, num |-> 0]
      BY <1>1, <1>6, <2>2 DEF Upcoming
    <3> QED BY <1>3, <2>1, <3>1, AheadLater
  <2>3. CASE sending.next + 1 # sending.count
    <3>1. Upcoming' = [msg |-> sentCount, num |-> sending.next + 1]
      BY <1>6, <2>3 DEF Upcoming
    <3> QED BY <1>3, <2>1, <3>1, AheadLater
  <2> QED BY <2>2, <2>3
<1>12. Awaits(rx, txq')
  <2>1. \A i \in 1..Len(txq') : \/ i \in 1..Len(txq) /\ txq'[i] = txq[i]
                                \/ i = Len(txq) + 1 /\ txq'[i] = f
    BY <1>3, <1>5, <1>7, AppendPlaces DEF f
  <2> QED BY <1>8, <1>10, <2>1 DEF ShortInv, Awaits
<1>13. Len(txq') + sending'.count <= TxQueueSize + sending'.next
  <2>1. Len(txq') = Len(txq) + 1
    BY <1>3, <1>5, <1>7, AppendPlaces DEF f
  <2>2. \A l, c, t, n \in Nat : l + c <= t + n => l + 1 + c <= t + (n + 1)
    OBVIOUS
  <2>3. sending.count \in Nat
    BY <1>3
  <2> QED BY <1>2, <1>3, <1>6, <2>1, <2>2, <2>3
<1>14. rx' = rx
  BY <1>1 DEF receiverVars
<1>15. AllWhole'
  BY <1>14 DEF ShortInv, AllWhole
<1>16. nextId' = sentCount' - 1
  BY <1>1, <1>2
<1> QED BY <1>6, <1>11, <1>12, <1>13, <1>14, <1>15, <1>16 DEF ShortInv

LEMMA ShortStep ==
    ASSUME ShortMode, Base, OrderInv, ShortInv, [Next]_vars
    PROVE  ShortInv'
<1>0. /\ sentCount \in Nat /\ TxQueueSize \in Nat /\ NumMsgs \in Nat /\ Len(txq) \in Nat
      /\ ~setup.polling
  BY WpsFragAssumption, ShortSetup DEF Base
<1>1. ASSUME NEW count \in 1..MaxFragments, NEW exact \in BOOLEAN, SendBegin(count, exact)
      PROVE  ShortInv'
  <2>1. /\ sending = NotSending /\ sentCount < NumMsgs /\ sentCount' = sentCount + 1
        /\ sending' = [msg |-> sentCount + 1, count |-> count, next |-> 0]
        /\ nextId' = nextId /\ txq' = txq /\ rx' = rx
        /\ TxQueueSize - Len(txq) >= Predicted(count, exact)
        /\ exact => count > 2
    BY <1>1 DEF SendBegin, receiverVars
  <2>2. count \in 1..2
    BY WpsFragAssumption DEF ShortMode
  <2>3. Predicted(count, exact) = count
    BY <2>1, <2>2 DEF Predicted
  <2>4. Len(txq) + count <= TxQueueSize + 0
    BY <1>0, <2>1, <2>2, <2>3
  <2>5. nextId' = sentCount' - 1
    BY <1>0, <2>1 DEF ShortInv
  <2>6. Upcoming' = Upcoming
    <3>1. sending' # NotSending /\ sending'.next # sending'.count
      BY <1>0, <2>1, <2>2 DEF NotSending
    <3> QED BY <2>1, <3>1 DEF Upcoming
  <2>7. sending'.count = count /\ sending'.next = 0 /\ sending' # NotSending
    BY <1>0, <2>1 DEF NotSending
  <2>8. Ahead(rx, Upcoming')
    BY <2>6 DEF ShortInv
  <2> QED BY <2>1, <2>4, <2>5, <2>7, <2>8, ShortKeptBySender
<1>2. CASE SendFragment
  BY <1>2, ShortKeptByFragment
<1>3. CASE SendEnd
  <2>1. /\ sending # NotSending /\ sending.next = sending.count /\ sending' = NotSending
        /\ txq' = txq /\ rx' = rx /\ sentCount' = sentCount
        /\ nextId' = (nextId + 1) % MAX_TRANSACTION_ID
    BY <1>3 DEF SendEnd, receiverVars
  <2>2. Ahead(rx, Upcoming')
    <3>1. Upcoming' = Upcoming
      BY <2>1 DEF Upcoming
    <3> QED BY <3>1 DEF ShortInv
  <2>3. nextId + 1 = sentCount
    BY <1>0, <2>1 DEF ShortInv
  <2>4. sentCount' < NumMsgs => nextId' = sentCount'
    <3>1. \A a \in Nat, b \in Nat \ {0} : a < b => a % b = a
      OBVIOUS
    <3>2. sentCount < NumMsgs => sentCount < MAX_TRANSACTION_ID
      BY <1>0, WpsFragAssumption DEF ShortMode
    <3> QED BY <1>0, <2>1, <2>3, <3>1, <3>2, WpsFragAssumption
  <2> QED BY <2>1, <2>2, <2>4, ShortKeptBySender
<1>4. ASSUME UNCHANGED <<sentCount, sending, nextId, txq, rx>>
      PROVE  ShortInv'
  BY <1>4, ShortKeptByReceiver DEF SameExpectation
<1>5. CASE TxSuccess
  BY <1>4, <1>5 DEF TxSuccess, receiverVars
<1>6. ASSUME txq # <<>>, txq' = Tail(txq), Receive(Head(txq)),
             UNCHANGED <<sentCount, sending, nextId>>
      PROVE  ShortInv'
  <2>1. Head(txq) \in Frames
    BY <1>6 DEF Base
  <2>2. /\ rx'.queue = rx.queue /\ rx'.read = rx.read /\ SameExpectation(rx, rx')
        /\ rx'.frag = rx.frag \/ rx'.frag = Append(rx.frag, Head(txq))
    BY <1>6, <2>1, ReceiveEffect DEF SameExpectation
  <2> QED BY <1>6, <2>2, ShortKeptByConnection
<1>7. CASE Deliver
  BY <1>6, <1>7 DEF Deliver
<1>8. CASE Expire
  <2>1. txq # <<>> /\ txq' = Tail(txq) /\ UNCHANGED <<sentCount, sending, nextId>>
    BY <1>8 DEF Expire
  <2>2. CASE Receive(Head(txq))
    BY <1>6, <2>1, <2>2
  <2>3. CASE UNCHANGED receiverVars
    BY <2>1, <2>3, ShortKeptByConnection DEF receiverVars, SameExpectation
  <2> QED BY <1>8, <2>2, <2>3 DEF Expire
<1>9. CASE RxCallback
  <2>1. UNCHANGED <<sentCount, sending, nextId, txq>>
    BY <1>9 DEF RxCallback, senderVars
  <2>2. CASE Head(events) = "received" /\ rx.frag # <<>>
    <3>1. rx' = ProcessFrame(MoveFrame(rx), Head(rx.frag))
      BY <1>9, <2>2 DEF RxCallback
    <3> QED BY <2>1, <2>2, <3>1, ShortKeptByMove
  <2>3. CASE Head(events) = "received" /\ rx.frag = <<>>
    <3>1. rx' = rx
      BY <1>9, <2>3 DEF RxCallback
    <3> QED BY <1>4, <2>1, <3>1
  <2>4. CASE Head(events) = "overrun"
    <3>1. rx' = ReadDone(rx, Len(rx.queue)) \/ rx' = rx
      BY <1>9, <2>4 DEF RxCallback
    <3>2. CASE rx' = ReadDone(rx, Len(rx.queue))
      <4>1. rx \in RxType /\ Len(rx.queue) \in 0..Len(rx.queue) /\ Len(rx.queue) - Len(rx.queue) = 0
        BY RxTypes DEF Base
      <4>2. /\ SameExpectation(rx, rx') /\ rx'.read = rx.read /\ Len(rx'.queue) = 0
        BY <3>2, <4>1, RestHasLast
      <4>3. rx'.frag = rx.frag
        BY <3>2, <4>1, ReadDoneKeeps DEF Keeps
      <4> QED BY <2>1, <4>2, <4>3, ShortKeptByReceiver
    <3> QED BY <1>4, <2>1, <3>1, <3>2
  <2>5. Head(events) \in {"received", "overrun"}
    BY <1>9 DEF RxCallback, Base
  <2> QED BY <2>2, <2>3, <2>4, <2>5
<1>10. CASE PollRead
  BY <1>0, <1>10 DEF PollRead
<1>11. CASE PollStoreCount
  <2>1. UNCHANGED <<sentCount, sending, nextId, txq>>
    BY <1>11 DEF PollStoreCount, senderVars
  <2>2. rx'.frag = rx.frag /\ rx'.queue = rx.queue /\ rx'.read = rx.read
    BY <1>11, PollStoreCountEffect
  <2>3. SameExpectation(rx, rx')
    <3>1. rx' = [rx EXCEPT !.count = loaded - 1] /\ rx \in RxType
      BY <1>11 DEF PollStoreCount, Base
    <3> QED BY <3>1 DEF RxType, SameExpectation
  <2> QED BY <2>1, <2>2, <2>3, ShortKeptByReceiver
<1>12. CASE UNCHANGED vars
  BY <1>4, <1>12 DEF vars, senderVars, receiverVars
<1> QED BY <1>1, <1>2, <1>3, <1>5, <1>7, <1>8, <1>9, <1>10, <1>11, <1>12 DEF Next

(* Payloads of at most two fragments are never assembled wrongly, for any   *)
(* sizes of the queues and the pool and whatever is lost: the fragments of  *)
(* a transaction that has a hole leave the queue before the next one is     *)
(* whole.  TLC finds a wrong payload with three fragments, with a reader    *)
(* that polls a short queue, and with more payloads than transaction        *)
(* numbers; a queue of one entry holds no payload of two fragments          *)
(* (wps_frag_read_process).                                                 *)
THEOREM ShortPayloadsIntact ==
    ASSUME ShortMode
    PROVE  Spec => []Intact
<1> DEFINE Inv == Base /\ OrderInv /\ ShortInv
<1>1. Init => Inv
  BY BaseInit, OrderInit, ShortInit
<1>2. Inv /\ [Next]_vars => Inv'
  BY BaseStep, OrderStep, ShortStep
<1>3. Inv => Intact
  BY DEF ShortInv, AllWhole, Intact
<1> QED BY <1>1, <1>2, <1>3, PTL DEF Spec

-----------------------------------------------------------------------------
(* Every stored frame is announced by one callback, in order: h[i] is the   *)
(* place of the callback that will take the frame at i in the fragment      *)
(* queue q.  A pool with more nodes than the fragment queue can hold would  *)
(* announce frames that the queue refused.                                  *)
Events == {"received", "overrun"}

Announced(q, e, h) ==
    /\ \A i \in 1..Len(q) : h[i] \in 1..Len(e) /\ e[h[i]] = "received"
    /\ \A i, j \in 1..Len(q) : i < j => h[i] < h[j]
    /\ \A p \in 1..Len(e) : e[p] = "received" => \E i \in 1..Len(q) : h[i] = p

LEMMA EventPlaces ==
    ASSUME NEW e \in Seq(Events), NEW x \in Events
    PROVE  /\ Len(Append(e, x)) = Len(e) + 1 /\ Len(e) \in Nat
           /\ Append(e, x)[Len(e) + 1] = x
           /\ \A p \in 1..Len(e) : Append(e, x)[p] = e[p]
OBVIOUS

LEMMA EventTail ==
    ASSUME NEW e \in Seq(Events), e # <<>>
    PROVE  /\ Tail(e) \in Seq(Events) /\ Len(Tail(e)) = Len(e) - 1
           /\ Len(e) \in Nat /\ 1 \in 1..Len(e) /\ Head(e) = e[1] /\ Head(e) \in Events
           /\ \A p \in 1..Len(Tail(e)) : Tail(e)[p] = e[p + 1] /\ p + 1 \in 1..Len(e)
OBVIOUS

(* A frame is stored and announced.                                         *)
LEMMA AnnouncedStored ==
    ASSUME NEW q \in Seq(Frames), NEW f \in Frames, NEW e \in Seq(Events),
           NEW h \in [Nat -> Int], Announced(q, e, h)
    PROVE  LET g == [h EXCEPT ![Len(q) + 1] = Len(e) + 1]
           IN  /\ g \in [Nat -> Int] /\ g[Len(q) + 1] = Len(e) + 1
               /\ \A i \in 1..Len(q) : g[i] = h[i]
               /\ Announced(Append(q, f), Append(e, "received"), g)
<1> DEFINE g == [h EXCEPT ![Len(q) + 1] = Len(e) + 1]
           r == Append(q, f)
           d == Append(e, "received")
<1>1. /\ Len(q) \in Nat /\ Len(e) \in Nat /\ Len(r) = Len(q) + 1
  BY AppendPlaces
<1>2. /\ Len(d) = Len(e) + 1 /\ d[Len(e) + 1] = "received"
      /\ \A p \in 1..Len(e) : d[p] = e[p]
  BY EventPlaces DEF Events
<1>3. /\ g \in [Nat -> Int] /\ g[Len(q) + 1] = Len(e) + 1
      /\ \A i \in 1..Len(q) : g[i] = h[i]
  BY <1>1
<1> HIDE DEF g, r, d
<1>4. \A i \in 1..Len(r) : i \in 1..Len(q) \/ i = Len(q) + 1
  BY <1>1
<1>5. \A i \in 1..Len(r) : g[i] \in 1..Len(d) /\ d[g[i]] = "received"
  <2>1. \A i \in 1..Len(q) : h[i] \in 1..Len(e) /\ e[h[i]] = "received"
    BY DEF Announced
  <2>2. Len(e) + 1 \in 1..Len(d) /\ 1..Len(e) \subseteq 1..Len(d)
    BY <1>1, <1>2
  <2> QED BY <1>2, <1>3, <1>4, <2>1, <2>2
<1>6. \A i, j \in 1..Len(r) : i < j => g[i] < g[j]
  <2> SUFFICES ASSUME NEW i \in 1..Len(r), NEW j \in 1..Len(r), i < j
               PROVE  g[i] < g[j]
    OBVIOUS
  <2>1. i \in 1..Len(q)
    BY <1>1
  <2>2. CASE j \in 1..Len(q)
    BY <1>3, <2>1, <2>2 DEF Announced
  <2>3. CASE j = Len(q) + 1
    <3>1. h[i] \in 1..Len(e)
      BY <2>1 DEF Announced
    <3>2. g[i] = h[i] /\ g[j] = Len(e) + 1
      BY <1>3, <2>1, <2>3, Zenon
    <3> QED BY <1>1, <3>1, <3>2
  <2> QED BY <1>4, <2>2, <2>3
<1>7. ASSUME NEW p \in 1..Len(d), d[p] = "received"
      PROVE  \E i \in 1..Len(r) : g[i] = p
  <2>1. CASE p \in 1..Len(e)
    <3>1. PICK i \in 1..Len(q) : h[i] = p
      BY <1>2, <1>7, <2>1 DEF Announced
    <3>2. i \in 1..Len(r)
      BY <1>1
    <3> QED BY <1>3, <3>1, <3>2
  <2>2. CASE p = Len(e) + 1
    <3>1. Len(q) + 1 \in 1..Len(r)
      BY <1>1
    <3> QED BY <1>3, <2>2, <3>1, Zenon
  <2>3. p \in 1..Len(e) \/ p = Len(e) + 1
    <3>1. p \in 1..Len(e) + 1
      BY <1>2
    <3> QED BY <1>1, <3>1
  <2> QED BY <2>1, <2>2, <2>3, Zenon
<1>8. Announced(r, d, g)
  BY <1>5, <1>6, <1>7 DEF Announced
<1> QED BY <1>3, <1>8 DEF g, r, d

(* A frame is refused: the callback announces no frame.                     *)
LEMMA AnnouncedRefused ==
    ASSUME NEW q, NEW e \in Seq(Events), NEW h, Announced(q, e, h)
    PROVE  Announced(q, Append(e, "overrun"), h)
<1> DEFINE d == Append(e, "overrun")
<1>1. /\ Len(d) = Len(e) + 1 /\ d[Len(e) + 1] = "overrun" /\ Len(e) \in Nat
      /\ \A p \in 1..Len(e) : d[p] = e[p]
  BY EventPlaces DEF Events
<1> HIDE DEF d
<1>2. /\ 1..Len(e) \subseteq 1..Len(d)
      /\ \A p \in 1..Len(d) : p \in 1..Len(e) \/ p = Len(e) + 1
  BY <1>1
<1>3. \A i \in 1..Len(q) : h[i] \in 1..Len(d) /\ d[h[i]] = "received"
  BY <1>1, <1>2 DEF Announced
<1>4. \A p \in 1..Len(d) : d[p] = "received" => \E i \in 1..Len(q) : h[i] = p
  BY <1>1, <1>2 DEF Announced
<1> QED BY <1>3, <1>4 DEF Announced, d

(* The callback of the oldest frame runs.                                   *)
LEMMA AnnouncedTaken ==
    ASSUME NEW q \in Seq(Frames), NEW e \in Seq(Events), NEW h \in [Nat -> Int],
           Announced(q, e, h), e # <<>>, Head(e) = "received"
    PROVE  LET g == [i \in Nat |-> h[i + 1] - 1]
           IN  /\ q # <<>> /\ h[1] = 1 /\ g \in [Nat -> Int]
               /\ Announced(Tail(q), Tail(e), g)
<1> DEFINE g == [i \in Nat |-> h[i + 1] - 1]
           r == Tail(q)
           d == Tail(e)
<1>1. /\ Len(d) = Len(e) - 1 /\ Len(e) \in Nat /\ 1 \in 1..Len(e) /\ e[1] = "received"
      /\ \A p \in 1..Len(d) : d[p] = e[p + 1] /\ p + 1 \in 1..Len(e)
  BY EventTail
<1>2. PICK i \in 1..Len(q) : h[i] = 1
  BY <1>1 DEF Announced
<1>3. q # <<>> /\ Len(q) \in Nat /\ 1 \in 1..Len(q)
  BY <1>2
<1>4. h[1] = 1
  <2>1. h[1] \in 1..Len(e) /\ (1 < i => h[1] < h[i])
    BY <1>2, <1>3 DEF Announced
  <2> QED BY <1>2, <1>3, <2>1
<1>5. /\ Len(r) = Len(q) - 1
      /\ \A k \in 1..Len(r) : k + 1 \in 1..Len(q) /\ 1 < k + 1
  BY <1>3, TailPlaces
<1>6. g \in [Nat -> Int] /\ \A k \in 1..Len(r) : g[k] = h[k + 1] - 1
  <2>1. ASSUME NEW k \in Nat
        PROVE  g[k] = h[k + 1] - 1 /\ g[k] \in Int
    <3>1. h[k + 1] \in Int
      OBVIOUS
    <3> QED BY <3>1
  <2>2. g \in [Nat -> Int]
    BY <2>1
  <2>3. \A k \in 1..Len(r) : k \in Nat
    BY <1>3, <1>5
  <2> QED BY <2>1, <2>2, <2>3
<1> HIDE DEF g, r, d
<1>7. ASSUME NEW k \in 1..Len(r)
      PROVE  g[k] \in 1..Len(d) /\ d[g[k]] = "received"
  <2>1. h[k + 1] \in 1..Len(e) /\ e[h[k + 1]] = "received" /\ h[1] < h[k + 1]
    BY <1>3, <1>5 DEF Announced
  <2>2. g[k] \in 1..Len(d) /\ g[k] + 1 = h[k + 1]
    <3>1. \A x \in Int, n \in Nat : x \in 1..n /\ 1 < x => x - 1 \in 1..n - 1 /\ (x - 1) + 1 = x
      OBVIOUS
    <3>2. h[k + 1] \in Int /\ 1 < h[k + 1]
      BY <1>4, <2>1
    <3> QED BY <1>1, <1>6, <2>1, <3>1, <3>2
  <2> QED BY <1>1, <2>1, <2>2
<1>8. ASSUME NEW k \in 1..Len(r), NEW l \in 1..Len(r), k < l
      PROVE  g[k] < g[l]
  <2>1. h[k + 1] < h[l + 1] /\ h[k + 1] \in Int /\ h[l + 1] \in Int
    <3>1. k + 1 \in 1..Len(q) /\ l + 1 \in 1..Len(q) /\ k + 1 < l + 1
      BY <1>5, <1>8
    <3>2. k + 1 \in Nat /\ l + 1 \in Nat
      BY <3>1
    <3> QED BY <3>1, <3>2 DEF Announced
  <2>2. \A x, y \in Int : x < y => x - 1 < y - 1
    OBVIOUS
  <2> QED BY <1>6, <2>1, <2>2
<1>9. ASSUME NEW p \in 1..Len(d), d[p] = "received"
      PROVE  \E k \in 1..Len(r) : g[k] = p
  <2>1. e[p + 1] = "received" /\ p + 1 \in 1..Len(e)
    BY <1>1, <1>9
  <2>2. PICK j \in 1..Len(q) : h[j] = p + 1
    BY <2>1 DEF Announced
  <2>3. j # 1
    BY <1>4, <2>2
  <2>4. j - 1 \in 1..Len(r) /\ (j - 1) + 1 = j
    BY <1>3, <1>5, <2>3
  <2>5. g[j - 1] = p
    <3>1. g[j - 1] = (p + 1) - 1
      BY <1>6, <2>2, <2>4
    <3> QED BY <3>1
  <2> QED BY <2>4, <2>5
<1>10. Announced(r, d, g)
  BY <1>7, <1>8, <1>9 DEF Announced
<1> QED BY <1>3, <1>4, <1>6, <1>10 DEF g, r, d

(* A callback runs that announces no frame.                                 *)
LEMMA AnnouncedSkipped ==
    ASSUME NEW q \in Seq(Frames), NEW e \in Seq(Events), NEW h \in [Nat -> Int],
           Announced(q, e, h), e # <<>>, Head(e) = "overrun"
    PROVE  LET g == [i \in Nat |-> h[i] - 1]
           IN  /\ g \in [Nat -> Int] /\ Announced(q, Tail(e), g)
               /\ \A i \in 1..Len(q) : h[i] > 1 /\ g[i] = h[i] - 1
<1> DEFINE g == [i \in Nat |-> h[i] - 1]
           d == Tail(e)
<1>1. /\ Len(d) = Len(e) - 1 /\ Len(e) \in Nat /\ e[1] = "overrun"
      /\ \A p \in 1..Len(d) : d[p] = e[p + 1] /\ p + 1 \in 1..Len(e)
  BY EventTail
<1>2. \A i \in 1..Len(q) : h[i] \in 1..Len(e) /\ h[i] > 1
  <2>1. \A i \in 1..Len(q) : h[i] \in 1..Len(e) /\ h[i] # 1
    BY <1>1 DEF Announced
  <2> QED BY <1>1, <2>1
<1>3. g \in [Nat -> Int] /\ \A i \in 1..Len(q) : g[i] = h[i] - 1
  OBVIOUS
<1> HIDE DEF g, d
<1>4. ASSUME NEW i \in 1..Len(q)
      PROVE  g[i] \in 1..Len(d) /\ d[g[i]] = "received"
  <2>1. h[i] \in 1..Len(e) /\ e[h[i]] = "received"
    BY DEF Announced
  <2>2. g[i] \in 1..Len(d) /\ g[i] + 1 = h[i]
    <3>1. \A x \in Int, n \in Nat : x \in 1..n /\ 1 < x => x - 1 \in 1..n - 1 /\ (x - 1) + 1 = x
      OBVIOUS
    <3>2. h[i] \in Int /\ 1 < h[i]
      BY <1>2
    <3> QED BY <1>1, <1>3, <2>1, <3>1, <3>2
  <2> QED BY <1>1, <2>1, <2>2
<1>5. ASSUME NEW i \in 1..Len(q), NEW j \in 1..Len(q), i < j
      PROVE  g[i] < g[j]
  <2>1. h[i] < h[j] /\ h[i] \in Int /\ h[j] \in Int
    BY <1>2, <1>5 DEF Announced
  <2> QED BY <1>3, <2>1
<1>6. ASSUME NEW p \in 1..Len(d), d[p] = "received"
      PROVE  \E i \in 1..Len(q) : g[i] = p
  <2>1. e[p + 1] = "received" /\ p + 1 \in 1..Len(e)
    BY <1>1, <1>6
  <2>2. PICK i \in 1..Len(q) : h[i] = p + 1
    BY <2>1 DEF Announced
  <2>3. g[i] = p
    BY <1>3, <2>2
  <2> QED BY <2>3
<1>7. Announced(q, d, g)
  BY <1>4, <1>5, <1>6 DEF Announced
<1> QED BY <1>2, <1>3, <1>7 DEF g, d

(* How many fragments payload m has, once it is being sent.                 *)
Count(m) == IF sending # NotSending /\ sending.msg = m THEN sending.count ELSE accepted[m]

(* Its second fragment is on its way to the receiver.                       *)
Coming(m) ==
    \/ Upcoming.msg = m /\ Upcoming.num = 1
    \/ \E i \in 1..Len(txq) : txq[i].msg = m /\ txq[i].num = 1

CountsAgree ==
    /\ \A i \in 1..Len(txq) : txq[i].type = "full" <=> Count(txq[i].msg) = 1
    /\ \A m \in 1..NumMsgs :
          accepted[m] # 0 => m <= sentCount /\ (sending # NotSending => m # sentCount)

HasRead(r, m) == \E i \in 1..Len(r.read) : r.read[i][1].msg = m

Holds(q, i, m, num) == i \in 1..Len(q) /\ q[i].msg = m /\ q[i].num = num

(* What the receiver still has to do for a payload: a full frame to read,   *)
(* the last fragment of the payload it waits for, both fragments taken by   *)
(* two callbacks in a row, or the first fragment with nothing after it.     *)
FullDue(q, m) == \E i \in 1..Len(q) : q[i].msg = m /\ q[i].type = "full"
LastDue(r, h, m) == Waits(r, m) /\ Holds(r.frag, 1, m, 1) /\ h[1] = 1
PairDue(q, h, m) ==
    \E i \in 1..Len(q) : Holds(q, i, m, 0) /\ Holds(q, i + 1, m, 1) /\ h[i + 1] = h[i] + 1
HalfDue(r, e, h, m) ==
    \/ r.frag = <<>> /\ e = <<>> /\ Waits(r, m)
    \/ Holds(r.frag, Len(r.frag), m, 0) /\ h[Len(r.frag)] = Len(e)

(* No payload is forgotten: one that is stored whole is read or due, and so *)
(* is the first half of one whose second half may still come.               *)
Due(h, m) ==
    /\ Count(m) = 1 /\ stored[m] = 1 => HasRead(rx, m) \/ FullDue(rx.frag, m)
    /\ stored[m] = 2 => HasRead(rx, m) \/ LastDue(rx, h, m) \/ PairDue(rx.frag, h, m)
    /\ stored[m] = 1 /\ Coming(m) => HalfDue(rx, events, h, m)

DueInv ==
    \E h \in [Nat -> Int] :
        Announced(rx.frag, events, h) /\ \A m \in 1..NumMsgs : Due(h, m)

ServeInv == CountsAgree /\ DueInv

LEMMA ServeInit ==
    ASSUME ShortMode, Init
    PROVE  ServeInv
<1>1. /\ rx.frag = <<>> /\ rx.read = <<>> /\ events = <<>> /\ txq = <<>>
      /\ sending = NotSending /\ accepted = [m \in 1..NumMsgs |-> 0]
      /\ stored = [m \in 1..NumMsgs |-> 0]
  BY DEF Init
<1>2. CountsAgree
  BY <1>1 DEF CountsAgree
<1>3. [i \in Nat |-> 0] \in [Nat -> Int] /\ Announced(rx.frag, events, [i \in Nat |-> 0])
  BY <1>1 DEF Announced
<1>4. \A m \in 1..NumMsgs : Due([i \in Nat |-> 0], m)
  BY <1>1 DEF Due
<1> QED BY <1>2, <1>3, <1>4 DEF ServeInv, DueInv

(* The sender goes on: what is counted or coming now, of what is stored,    *)
(* was so before.                                                           *)
LEMMA DueKeptBySender ==
    ASSUME DueInv, UNCHANGED <<rx, events, stored>>,
           \A m \in 1..NumMsgs :
              /\ Count(m)' = 1 => Count(m) = 1 \/ stored[m] = 0
              /\ Coming(m)' => Coming(m) \/ stored[m] = 0
    PROVE  DueInv'
<1>1. PICK h \in [Nat -> Int] :
         Announced(rx.frag, events, h) /\ \A m \in 1..NumMsgs : Due(h, m)
  BY DEF DueInv
<1>2. ASSUME NEW m \in 1..NumMsgs
      PROVE  Due(h, m)'
  BY <1>1 DEF Due
<1> QED BY <1>1, <1>2 DEF DueInv

(* Nothing that has been stored is of the payload being cut.                *)
LEMMA UpcomingNotStored ==
    ASSUME Base, Storing, NEW m \in 1..NumMsgs, Upcoming.num = 0,
           m >= Upcoming.msg
    PROVE  stored[m] = 0
<1>1. Upcoming.msg \in Nat /\ stored[m] \in Nat
  BY UpcomingNumbers DEF Storing
<1> QED BY <1>1 DEF Storing, StoredUpTo

LEMMA ServeBegin ==
    ASSUME ShortMode, Base, OrderInv, Sizes, Storing, ServeInv,
           NEW count \in 1..MaxFragments, NEW exact \in BOOLEAN, SendBegin(count, exact)
    PROVE  ServeInv'
<1>1. /\ sending = NotSending /\ sentCount' = sentCount + 1 /\ sentCount \in Nat
      /\ sending' = [msg |-> sentCount + 1, count |-> count, next |-> 0]
      /\ UNCHANGED <<txq, accepted, rx, events, stored>>
  BY WpsFragAssumption DEF SendBegin, receiverVars, Base
<1>2. sending' # NotSending /\ sending'.next # sending'.count /\ count \in Nat
  BY <1>1, WpsFragAssumption DEF NotSending
<1>3. Upcoming = [msg |-> sentCount + 1, num |-> 0] /\ Upcoming' = Upcoming
  BY <1>1, <1>2 DEF Upcoming
<1>4. \A m \in 1..NumMsgs : m # sentCount + 1 => Count(m)' = Count(m)
  BY <1>1 DEF Count
<1>5. \A m \in 1..NumMsgs : Coming(m)' = Coming(m)
  BY <1>1, <1>3 DEF Coming
<1>6. DueInv'
  <2>1. stored[sentCount + 1] = 0 \/ sentCount + 1 \notin 1..NumMsgs
    BY <1>1, <1>3, UpcomingNotStored
  <2> QED BY <1>1, <1>4, <1>5, <2>1, DueKeptBySender DEF ServeInv
<1>7. CountsAgree'
  <2>1. ASSUME NEW i \in 1..Len(txq)
        PROVE  txq[i].msg \in 1..NumMsgs /\ txq[i].msg # sentCount + 1
    <3>1. txq[i] \in Frames /\ Before(txq[i], Upcoming)
      BY DEF Base, OrderInv, Line
    <3> QED BY <1>1, <1>3, <3>1, WpsFragAssumption DEF Before, Frames
  <2>2. \A i \in 1..Len(txq) : Count(txq[i].msg)' = Count(txq[i].msg)
    BY <1>1, <1>4, <2>1 DEF Count
  <2>3. \A i \in 1..Len(txq') : (txq[i].type = "full" <=> Count(txq[i].msg) = 1)'
    BY <1>1, <2>2 DEF ServeInv, CountsAgree
  <2>4. ASSUME NEW m \in 1..NumMsgs, accepted'[m] # 0
        PROVE  m <= sentCount' /\ m # sentCount'
    <3>1. m <= sentCount
      BY <1>1, <2>4 DEF ServeInv, CountsAgree
    <3> QED BY <1>1, <3>1
  <2> QED BY <2>3, <2>4 DEF CountsAgree
<1> QED BY <1>6, <1>7 DEF ServeInv

LEMMA ServeFragment ==
    ASSUME ShortMode, Base, OrderInv, ShortInv, Storing, ServeInv, SendFragment
    PROVE  ServeInv'
<1> DEFINE f == Frame(sending.next, sending.count, nextId, sending.msg)
<1>1. /\ sending # NotSending /\ sending \in Calls /\ sending.next < sending.count
      /\ sending.msg = sentCount
      /\ UNCHANGED <<sentCount, accepted, rx, events, stored>>
  BY DEF SendFragment, OrderInv, Base, receiverVars
<1>2. /\ sending.msg \in 1..NumMsgs /\ sending.next \in Nat /\ sending.count \in 1..2
      /\ TxQueueSize \in Nat /\ txq \in Seq(Frames) /\ Len(txq) \in Nat
  BY <1>1, WpsFragAssumption DEF Base, Calls, ShortMode
<1>3. Len(txq) < TxQueueSize
  BY <1>1, <1>2 DEF ShortInv
<1>4. /\ txq' = Append(txq, f) /\ sending' = [sending EXCEPT !.next = @ + 1]
  BY <1>3 DEF SendFragment
<1>5. /\ sending'.msg = sending.msg /\ sending'.count = sending.count
      /\ sending'.next = sending.next + 1 /\ sending' # NotSending
  <2>1. sending'.msg = sending.msg /\ sending'.count = sending.count
        /\ sending'.next = sending.next + 1
    BY <1>1, <1>4 DEF Calls
  <2>2. sending'.count # NotSending.count
    BY <1>2, <2>1 DEF NotSending
  <2> QED BY <2>1, <2>2
<1>6. f \in Frames /\ f.msg = sending.msg /\ f.num = sending.next
      /\ f.type = TransferType(sending.next, sending.count)
  <2>1. f \in Frames
    BY <1>1, <1>3, <1>5, SendFragmentEffect
  <2> QED BY <2>1 DEF Frame
<1> HIDE DEF f
<1>7. /\ Len(txq') = Len(txq) + 1 /\ txq'[Len(txq) + 1] = f
      /\ \A i \in 1..Len(txq') : \/ i \in 1..Len(txq) /\ txq'[i] = txq[i]
                                 \/ i = Len(txq) + 1 /\ txq'[i] = f
  BY <1>2, <1>4, <1>6, AppendPlaces
<1>8. \A m \in 1..NumMsgs : Count(m)' = Count(m)
  BY <1>1, <1>5 DEF Count
<1>9. Upcoming = [msg |-> sending.msg, num |-> sending.next]
  BY <1>1, <1>2 DEF Upcoming
<1>10. ASSUME NEW m \in 1..NumMsgs, Coming(m)', ~Coming(m)
       PROVE  stored[m] = 0
  <2>1. CASE Upcoming'.msg = m /\ Upcoming'.num = 1
    <3>1. sending'.next # sending'.count /\ m = sending.msg /\ sending.next = 0
      BY <1>1, <1>2, <1>5, <2>1 DEF Upcoming
    <3> QED BY <1>2, <1>9, <3>1, UpcomingNotStored
  <2>2. ASSUME NEW i \in 1..Len(txq'), txq'[i].msg = m, txq'[i].num = 1
        PROVE  Coming(m)
    <3>1. CASE i \in 1..Len(txq) /\ txq'[i] = txq[i]
      BY <2>2, <3>1 DEF Coming
    <3>2. CASE txq'[i] = f
      BY <1>6, <1>9, <2>2, <3>2 DEF Coming
    <3> QED BY <1>7, <3>1, <3>2
  <2> QED BY <1>10, <2>1, <2>2 DEF Coming
<1>11. DueInv'
  BY <1>1, <1>8, <1>10, DueKeptBySender DEF ServeInv
<1>12. CountsAgree'
  <2>1. ASSUME NEW i \in 1..Len(txq')
        PROVE  (txq[i].type = "full" <=> Count(txq[i].msg) = 1)'
    <3>1. CASE i \in 1..Len(txq) /\ txq'[i] = txq[i]
      <4>1. txq[i].type = "full" <=> Count(txq[i].msg) = 1
        BY <3>1 DEF ServeInv, CountsAgree
      <4> QED BY <1>1, <1>5, <3>1, <4>1 DEF Count
    <3>2. CASE txq'[i] = f
      <4>1. f.type = "full" <=> sending.count = 1
        BY <1>1, <1>2, <1>6 DEF TransferType
      <4> QED BY <1>5, <1>6, <3>2, <4>1 DEF Count
    <3> QED BY <1>7, <3>1, <3>2
  <2>2. \A m \in 1..NumMsgs :
           (accepted[m] # 0 => m <= sentCount /\ (sending # NotSending => m # sentCount))'
    BY <1>1 DEF ServeInv, CountsAgree
  <2> QED BY <2>1, <2>2 DEF CountsAgree
<1> QED BY <1>11, <1>12 DEF ServeInv

LEMMA ServeEnd ==
    ASSUME Base, OrderInv, Sizes, ServeInv, SendEnd
    PROVE  ServeInv'
<1>1. /\ sending # NotSending /\ sending \in Calls /\ sending.next = sending.count
      /\ sending.msg = sentCount /\ sending' = NotSending
      /\ accepted' = [accepted EXCEPT ![sending.msg] = sending.count]
      /\ UNCHANGED <<sentCount, txq, rx, events, stored>>
  BY DEF SendEnd, OrderInv, Base, receiverVars
<1>2. /\ sending.msg \in 1..NumMsgs /\ accepted \in [1..NumMsgs -> 0..MaxFragments]
      /\ sentCount \in Nat
  BY <1>1, WpsFragAssumption DEF Calls, Sizes, Base
<1>3. \A m \in 1..NumMsgs : Count(m)' = Count(m)
  BY <1>1, <1>2 DEF Count
<1>4. Upcoming' = Upcoming
  BY <1>1 DEF Upcoming
<1>5. \A m \in 1..NumMsgs : Coming(m)' = Coming(m)
  BY <1>1, <1>4 DEF Coming
<1>6. DueInv'
  BY <1>1, <1>3, <1>5, DueKeptBySender DEF ServeInv
<1>7. CountsAgree'
  <2>1. \A i \in 1..Len(txq) : txq[i].msg \in 1..NumMsgs
    <3>1. \A i \in 1..Len(txq) : txq[i] \in Frames
      BY DEF Base
    <3> QED BY <3>1 DEF Frames
  <2>2. \A i \in 1..Len(txq) : Count(txq[i].msg)' = Count(txq[i].msg)
    BY <1>1, <1>2, <2>1 DEF Count
  <2>3. \A i \in 1..Len(txq') : (txq[i].type = "full" <=> Count(txq[i].msg) = 1)'
    BY <1>1, <2>2 DEF ServeInv, CountsAgree
  <2>4. ASSUME NEW m \in 1..NumMsgs, accepted'[m] # 0
        PROVE  m <= sentCount'
    BY <1>1, <1>2, <2>4 DEF ServeInv, CountsAgree
  <2> QED BY <1>1, <2>3, <2>4 DEF CountsAgree
<1> QED BY <1>6, <1>7 DEF ServeInv

-----------------------------------------------------------------------------
(* The oldest frame leaves the sender's queue.  A payload whose second      *)
(* fragment is behind it has nothing stored but what that frame is of.      *)
LEMMA ComingBehind ==
    ASSUME Base, OrderInv, Storing, txq # <<>>, txq' = Tail(txq),
           UNCHANGED <<sentCount, sending>>, NEW m \in 1..NumMsgs, Coming(m)'
    PROVE  /\ Coming(m) /\ stored[m] = 0
           /\ m = Head(txq).msg => Head(txq).num = 0 /\ Head(txq).type = "nonlast"
<1> DEFINE f == Head(txq)
           rest == Tail(txq)
<1>1. /\ f \in Frames /\ f = txq[1] /\ 1 \in 1..Len(txq) /\ Line(rest, Upcoming)
      /\ \A i \in 1..Len(rest) : rest[i] = txq[i + 1] /\ i + 1 \in 1..Len(txq)
      /\ Before(f, Upcoming)
      /\ \A i \in 1..Len(rest) : Before(f, rest[i])
  BY TailPlaces, LineTail DEF Base, OrderInv
<1>2. Upcoming' = Upcoming
  BY DEF Upcoming
<1>3. f.msg \in 1..NumMsgs /\ f.num \in Nat /\ stored[m] \in Nat
  BY <1>1, WpsFragAssumption DEF Frames, Storing
<1> HIDE DEF f, rest
<1>4. PICK g : g.msg = m /\ g.num = 1 /\ Before(f, g)
               /\ (g = Upcoming \/ \E i \in 1..Len(rest) : g = rest[i])
  BY <1>1, <1>2 DEF Coming, rest
<1>5. Coming(m)
  <2>1. CASE g = Upcoming
    BY <1>4, <2>1 DEF Coming
  <2>2. ASSUME NEW i \in 1..Len(rest), g = rest[i]
        PROVE  Coming(m)
    BY <1>1, <1>4, <2>2 DEF Coming
  <2> QED BY <1>4, <2>1, <2>2
<1>6. m > f.msg \/ (m = f.msg /\ f.num = 0 /\ f.type = "nonlast")
  BY <1>3, <1>4 DEF Before
<1>7. StoredUpTo(f, stored)
  BY <1>1 DEF Storing
<1>8. stored[m] = 0
  BY <1>3, <1>6, <1>7 DEF StoredUpTo
<1>9. m = f.msg => f.num = 0 /\ f.type = "nonlast"
  BY <1>3, <1>6
<1> QED BY <1>5, <1>8, <1>9 DEF f

LEMMA CountsKeptByConnection ==
    ASSUME CountsAgree, txq \in Seq(Frames), txq # <<>>, txq' = Tail(txq),
           UNCHANGED <<sentCount, sending, accepted>>
    PROVE  CountsAgree'
<1>1. \A i \in 1..Len(txq') : txq'[i] = txq[i + 1] /\ i + 1 \in 1..Len(txq)
  BY TailPlaces
<1>2. \A m : Count(m)' = Count(m)
  BY DEF Count
<1> QED BY <1>1, <1>2 DEF CountsAgree

(* The frame is lost, or refused by a receiver that has no place for it.    *)
LEMMA DueKeptByLoss ==
    ASSUME Base, OrderInv, Storing, ServeInv, txq # <<>>, txq' = Tail(txq),
           UNCHANGED <<sentCount, sending, accepted, stored, rx>>,
           events' = events \/ events' = Append(events, "overrun")
    PROVE  DueInv'
<1>1. PICK h \in [Nat -> Int] :
         Announced(rx.frag, events, h) /\ \A m \in 1..NumMsgs : Due(h, m)
  BY DEF ServeInv, DueInv
<1>2. Announced(rx.frag, events', h)
  BY <1>1, AnnouncedRefused DEF Base, Events
<1>3. ASSUME NEW m \in 1..NumMsgs
      PROVE  Due(h, m)'
  <2>1. Count(m)' = Count(m)
    BY DEF Count
  <2>2. ~(stored[m] = 1 /\ Coming(m)')
    BY ComingBehind
  <2> QED BY <1>1, <2>1, <2>2 DEF Due
<1> QED BY <1>1, <1>2, <1>3 DEF DueInv

(* A frame that the connection does not refuse has its place in the         *)
(* fragment queue: there are no more nodes than places.                     *)
LEMMA ReceiveCases ==
    ASSUME PoolFits, Base, NEW frame \in Frames, Receive(frame)
    PROVE  \/ /\ rx'.frag = Append(rx.frag, frame) /\ events' = Append(events, "received")
              /\ stored' = [stored EXCEPT ![frame.msg] = @ + 1]
           \/ rx' = rx /\ events' = Append(events, "overrun") /\ stored' = stored
<1>1. CASE HasPlace
  <2>1. Len(rx.frag) < setup.queueSize
    <3>1. /\ setup.poolSize \in Nat /\ setup.queueSize \in Nat
          /\ setup.poolSize <= setup.queueSize
      BY SetupTypes DEF PoolFits, Base
    <3>2. /\ rx.pool \in Nat /\ Len(rx.frag) \in Nat /\ Len(rx.queue) \in Nat
          /\ rx.pool + Len(rx.frag) + Len(rx.queue) <= setup.poolSize
      BY RxTypes DEF Base, Nodes
    <3>3. rx.pool > 0
      BY <1>1 DEF HasPlace
    <3> QED BY <3>1, <3>2, <3>3
  <2>2. rx'.frag = Append(rx.frag, frame)
    <3>1. rx' = [rx EXCEPT !.pool = @ - 1, !.frag = Append(@, frame)] /\ rx \in RxType
      BY <1>1, <2>1 DEF Receive, Base
    <3> QED BY <3>1 DEF RxType
  <2> QED BY <1>1, <2>2 DEF Receive
<1>2. CASE ~HasPlace
  BY <1>2 DEF Receive
<1> QED BY <1>1, <1>2

LEMMA AppendedFrame ==
    ASSUME NEW q \in Seq(Frames), NEW f \in Frames
    PROVE  /\ Len(Append(q, f)) = Len(q) + 1 /\ Append(q, f)[Len(q) + 1] = f
           /\ \A i \in 1..Len(q) : i \in 1..Len(Append(q, f)) /\ Append(q, f)[i] = q[i]
OBVIOUS

(* The frame is stored: it is due with the callback that was queued for it. *)
LEMMA DueKeptByStore ==
    ASSUME Base, OrderInv, Storing, ShortInv, ServeInv, txq # <<>>, txq' = Tail(txq),
           UNCHANGED <<sentCount, sending, accepted>>,
           rx'.frag = Append(rx.frag, Head(txq)), events' = Append(events, "received"),
           rx'.queue = rx.queue, rx'.read = rx.read, SameExpectation(rx, rx'),
           stored' = [stored EXCEPT ![Head(txq).msg] = @ + 1]
    PROVE  DueInv'
<1> DEFINE n == Len(rx.frag)
<1>1. PICK h \in [Nat -> Int] :
         Announced(rx.frag, events, h) /\ \A m \in 1..NumMsgs : Due(h, m)
  BY DEF ServeInv, DueInv
<1>2. /\ rx.frag \in Seq(Frames) /\ n \in Nat /\ txq \in Seq(Frames)
      /\ events \in Seq(Events) /\ Len(events) \in Nat
  BY RxTypes, SMTT(30) DEF Base, Events
<1>3. PICK f \in Frames : f = Head(txq) /\ f = txq[1] /\ 1 \in 1..Len(txq)
  BY <1>2, TailPlaces
<1>4. /\ Sound(f) /\ FullIsFirst(f) /\ StoredUpTo(f, stored)
      /\ f.type = "full" <=> Count(f.msg) = 1
  BY <1>3 DEF ShortInv, Awaits, OrderInv, Line, Storing, ServeInv, CountsAgree
<1>5. f.msg \in 1..NumMsgs /\ f.num \in {0, 1}
  BY <1>3, <1>4 DEF Frames, Sound
<1>6. /\ \A m \in 1..NumMsgs : stored'[m] = IF m = f.msg THEN stored[m] + 1 ELSE stored[m]
      /\ stored[f.msg] \in Nat /\ stored[f.msg] <= f.num
  <2>1. \A m \in 1..NumMsgs : stored'[m] = IF m = f.msg THEN stored[m] + 1 ELSE stored[m]
    BY <1>3, <1>4, StoringAhead
  <2>2. stored[f.msg] \in Nat
    BY <1>5 DEF Storing
  <2> QED BY <1>3, <1>4, <2>1, <2>2, StoringAhead
<1>7. PICK g \in [Nat -> Int] :
         /\ g[n + 1] = Len(events) + 1 /\ \A i \in 1..n : g[i] = h[i]
         /\ Announced(rx'.frag, events', g)
  <2>1. Announced(rx.frag, events, h)
    BY <1>1
  <2>2. LET g == [h EXCEPT ![Len(rx.frag) + 1] = Len(events) + 1]
        IN  /\ g \in [Nat -> Int] /\ g[Len(rx.frag) + 1] = Len(events) + 1
            /\ \A i \in 1..Len(rx.frag) : g[i] = h[i]
            /\ Announced(Append(rx.frag, f), Append(events, "received"), g)
    BY <1>2, <2>1, AnnouncedStored, Zenon
  <2> QED BY <1>3, <2>2
<1> HIDE DEF n
<1>8. /\ Len(rx'.frag) = n + 1 /\ rx'.frag[n + 1] = f
      /\ \A i \in 1..n : i \in 1..Len(rx'.frag) /\ rx'.frag[i] = rx.frag[i]
  <2>1. rx'.frag = Append(rx.frag, f)
    BY <1>3
  <2>2. /\ Len(Append(rx.frag, f)) = Len(rx.frag) + 1
        /\ Append(rx.frag, f)[Len(rx.frag) + 1] = f
        /\ \A i \in 1..Len(rx.frag) : /\ i \in 1..Len(Append(rx.frag, f))
                                      /\ Append(rx.frag, f)[i] = rx.frag[i]
    BY <1>2, AppendedFrame, Zenon
  <2> QED BY <2>1, <2>2, Zenon DEF n
<1>9. ASSUME NEW i, NEW m, NEW num, Holds(rx.frag, i, m, num)
      PROVE  Holds(rx'.frag, i, m, num) /\ g[i] = h[i] /\ rx'.frag[i] = rx.frag[i]
  BY <1>7, <1>8, <1>9 DEF Holds, n
<1>10. \A m : Count(m)' = Count(m) /\ (HasRead(rx', m) <=> HasRead(rx, m))
              /\ (Waits(rx', m) <=> Waits(rx, m))
  BY DEF Count, HasRead, Waits, SameExpectation
<1>11. \A m : FullDue(rx.frag, m) => FullDue(rx'.frag, m)
  BY <1>8 DEF FullDue, n
<1>12. \A m : LastDue(rx, h, m) => LastDue(rx', g, m)
  BY <1>9, <1>10 DEF LastDue
<1>13. \A m : PairDue(rx.frag, h, m) => PairDue(rx'.frag, g, m)
  <2> SUFFICES ASSUME NEW m, PairDue(rx.frag, h, m) PROVE PairDue(rx'.frag, g, m)
    OBVIOUS
  <2>1. PICK i \in 1..Len(rx.frag) :
           Holds(rx.frag, i, m, 0) /\ Holds(rx.frag, i + 1, m, 1) /\ h[i + 1] = h[i] + 1
    BY DEF PairDue
  <2>2. /\ Holds(rx'.frag, i, m, 0) /\ Holds(rx'.frag, i + 1, m, 1)
        /\ g[i + 1] = h[i + 1] /\ g[i] = h[i]
    BY <1>9, <2>1
  <2> QED BY <2>1, <2>2 DEF PairDue, Holds
<1>14. ASSUME NEW m \in 1..NumMsgs, m # f.msg
       PROVE  Due(g, m)'
  <2>1. Due(h, m) /\ stored'[m] = stored[m]
    BY <1>1, <1>6, <1>14
  <2>2. Coming(m)' => stored[m] = 0
    BY ComingBehind, Zenon
  <2> QED BY <1>10, <1>11, <1>12, <1>13, <2>1, <2>2 DEF Due
<1>15. ASSUME NEW m \in 1..NumMsgs, m = f.msg
       PROVE  Due(g, m)'
  <2>1. stored'[m] = stored[m] + 1 /\ Due(h, m)
    BY <1>1, <1>6, <1>15
  <2>2. Holds(rx'.frag, n + 1, m, f.num) /\ f = rx'.frag[n + 1]
    <3>1. n + 1 \in 1..n + 1
      BY <1>2
    <3> QED BY <1>8, <1>15, <3>1 DEF Holds
  <2>3. CASE f.num = 0
    <3>1. stored'[m] = 1
      BY <1>6, <1>15, <2>1, <2>3, SMTT(30)
    <3>2. Count(m)' = 1 => FullDue(rx'.frag, m)
      BY <1>4, <1>10, <1>15, <2>2 DEF FullDue, Holds
    <3>3. HalfDue(rx', events', g, m)
      <4>1. Len(rx'.frag) = n + 1 /\ g[n + 1] = Len(events')
        BY <1>2, <1>7, <1>8, EventPlaces DEF Events
      <4> QED BY <2>2, <2>3, <4>1 DEF HalfDue
    <3> QED BY <3>1, <3>2, <3>3, SMTT(30) DEF Due
  <2>4. CASE f.num = 1 /\ stored[m] = 0
    <3>1. stored'[m] = 1 /\ f.type # "full"
      BY <1>4, <2>1, <2>4, SMTT(30) DEF FullIsFirst
    <3>2. Count(m)' # 1
      BY <1>4, <1>10, <1>15, <3>1
    <3>3. ~Coming(m)'
      BY <1>3, <1>15, <2>4, ComingBehind, SMTT(30)
    <3> QED BY <3>1, <3>2, <3>3 DEF Due
  <2>5. CASE f.num = 1 /\ stored[m] = 1
    <3>1. stored'[m] = 2 /\ Coming(m)
      BY <1>3, <1>15, <2>1, <2>5, SMTT(30) DEF Coming
    <3>2. HalfDue(rx, events, h, m)
      BY <2>1, <2>5, <3>1 DEF Due
    <3>3. CASE rx.frag = <<>> /\ events = <<>> /\ Waits(rx, m)
      <4>1. n = 0 /\ Len(events) = 0
        BY <3>3 DEF n
      <4>2. LastDue(rx', g, m)
        BY <1>7, <1>10, <2>2, <2>5, <3>3, <4>1 DEF LastDue
      <4> QED BY <3>1, <4>2 DEF Due
    <3>4. CASE Holds(rx.frag, n, m, 0) /\ h[n] = Len(events)
      <4>1. Holds(rx'.frag, n, m, 0) /\ g[n] = Len(events)
        BY <1>9, <3>4
      <4>2. Holds(rx'.frag, n + 1, m, 1) /\ g[n + 1] = g[n] + 1
        BY <1>7, <2>2, <2>5, <4>1, Zenon
      <4>3. PairDue(rx'.frag, g, m)
        BY <4>1, <4>2, Zenon DEF PairDue, Holds
      <4> QED BY <3>1, <4>3, SMTT(30) DEF Due
    <3> QED BY <3>2, <3>3, <3>4 DEF HalfDue, n
  <2>6. f.num = 0 \/ (f.num = 1 /\ (stored[m] = 0 \/ stored[m] = 1))
    <3>1. stored[m] \in Nat /\ stored[m] <= f.num
      BY <1>6, <1>15
    <3>2. \A x \in Nat : x <= 1 => x = 0 \/ x = 1
      OBVIOUS
    <3> QED BY <1>5, <3>1, <3>2, Zenon
  <2> QED BY <2>3, <2>4, <2>5, <2>6, Zenon
<1>16. \A m \in 1..NumMsgs : Due(g, m)'
  BY <1>14, <1>15
<1> QED BY <1>7, <1>16 DEF DueInv

LEMMA ServeConnection ==
    ASSUME PoolFits, Base, OrderInv, Storing, ShortInv, ServeInv, txq # <<>>,
           txq' = Tail(txq), UNCHANGED <<sentCount, sending, accepted>>,
           Receive(Head(txq)) \/ UNCHANGED receiverVars
    PROVE  ServeInv'
<1>1. txq \in Seq(Frames) /\ Head(txq) \in Frames
  BY DEF Base
<1>2. CountsAgree'
  BY <1>1, CountsKeptByConnection DEF ServeInv
<1>3. CASE Receive(Head(txq))
  <2>1. rx'.queue = rx.queue /\ rx'.read = rx.read /\ SameExpectation(rx, rx')
    BY <1>1, <1>3, ReceiveEffect DEF SameExpectation
  <2>2. DueInv'
    BY <1>1, <1>3, <2>1, ReceiveCases, DueKeptByStore, DueKeptByLoss
  <2> QED BY <1>2, <2>2 DEF ServeInv
<1>4. CASE UNCHANGED receiverVars
  <2>1. DueInv'
    BY <1>4, DueKeptByLoss DEF receiverVars
  <2> QED BY <1>2, <2>1 DEF ServeInv
<1> QED BY <1>3, <1>4

-----------------------------------------------------------------------------
(* The receiver looks at a frame: a full one is read, a first fragment      *)
(* makes it wait, the last one it waited for completes the payload.         *)
LEMMA FrameServed ==
    ASSUME ShortMode, Base, OrderInv, ShortInv, RxCallback, Head(events) = "received",
           rx.frag # <<>>
    PROVE  LET f == Head(rx.frag)
           IN  /\ f \in Frames /\ Sound(f) /\ rx'.frag = Tail(rx.frag)
               /\ \A m : HasRead(rx, m) => HasRead(rx', m)
               /\ f.type = "full" => HasRead(rx', f.msg)
               /\ f.type = "nonlast" => Waits(rx', f.msg)
               /\ f.type = "last" /\ Waits(rx, f.msg) => HasRead(rx', f.msg)
<1> DEFINE moved == MoveFrame(rx)
           f == Head(rx.frag)
<1>1. /\ Arrives(moved, f) /\ SameExpectation(rx, moved) /\ moved.read = rx.read
      /\ moved.frag = Tail(rx.frag)
  BY ShortArrival
<1>2. rx' = ProcessFrame(moved, f)
  BY DEF RxCallback
<1>3. f \in Frames /\ Sound(f) /\ moved \in RxType
  BY <1>1, SoundNumbers DEF Arrives
<1>4. Waits(rx, f.msg) => ~moved.dropped /\ moved.index = 1 /\ moved.tid = f.msg - 1
                          /\ Len(moved.queue) = 2
  <2> SUFFICES ASSUME Waits(rx, f.msg)
               PROVE  ~moved.dropped /\ moved.index = 1 /\ moved.tid = f.msg - 1
                      /\ Len(moved.queue) = 2
    OBVIOUS
  <2>1. ~moved.dropped /\ moved.index = 1 /\ moved.tid = f.msg - 1
    BY <1>1 DEF SameExpectation, Waits
  <2>2. Len(rx.queue) = 1 /\ 1 < setup.queueSize /\ rx.queue \in Seq(Frames)
    BY ShortSetup, RxTypes DEF Waits, Base
  <2>3. moved.queue = Append(rx.queue, f)
    BY <2>2, MoveFrameEffect
  <2>4. Len(Append(rx.queue, f)) = 2
    <3>1. f \in Frames /\ rx.queue \in Seq(Frames) /\ Len(rx.queue) = 1
      BY <1>3, <2>2
    <3> HIDE DEF f
    <3>2. Len(Append(rx.queue, f)) = Len(rx.queue) + 1
      BY <3>1, AppendedFrame
    <3> QED BY <3>1, <3>2
  <2> QED BY <2>1, <2>3, <2>4
<1> HIDE DEF moved, f
<1>5. Settles(moved, f, rx') /\ Serves(moved, f, rx')
  BY <1>1, <1>2, ProcessFrameSettles, ShortSetup
<1>6. rx'.frag = Tail(rx.frag)
  <2>1. Len(moved.queue) > 0
    BY <1>1 DEF Arrives, Alone, Pair
  <2>2. Keeps(moved, rx')
    BY <1>2, <1>3, <2>1, ProcessFrameKeeps
  <2> QED BY <1>1, <2>2 DEF Keeps
<1>7. ASSUME NEW piece \in Seq(Frames), rx'.read = Append(rx.read, piece)
      PROVE  /\ HasRead(rx', piece[1].msg)
             /\ \A m : HasRead(rx, m) => HasRead(rx', m)
  <2>1. rx.read \in Seq(Seq(Frames))
    BY DEF Base, RxType
  <2>2. /\ Len(rx'.read) = Len(rx.read) + 1 /\ rx'.read[Len(rx.read) + 1] = piece
        /\ \A i \in 1..Len(rx.read) : i \in 1..Len(rx'.read) /\ rx'.read[i] = rx.read[i]
    BY <1>7, <2>1
  <2>3. Len(rx.read) + 1 \in 1..Len(rx'.read)
    BY <2>1, <2>2
  <2> QED BY <2>2, <2>3 DEF HasRead
<1>8. \A m : HasRead(rx, m) => HasRead(rx', m)
  <2>1. rx'.read = rx.read \/ \E piece \in Seq(Frames) : rx'.read = Append(rx.read, piece)
    BY <1>1, <1>5 DEF Settles, ReadsWhole
  <2>2. CASE rx'.read = rx.read
    BY <2>2 DEF HasRead
  <2> QED BY <1>7, <2>1, <2>2
<1>9. \A m : Returns(moved, rx', m) => HasRead(rx', m)
  BY <1>1, <1>7 DEF Returns
<1>10. /\ f.type = "full" => HasRead(rx', f.msg)
       /\ f.type = "nonlast" => Waits(rx', f.msg)
       /\ f.type = "last" /\ Waits(rx, f.msg) => HasRead(rx', f.msg)
  BY <1>4, <1>5, <1>9 DEF Serves
<1> QED BY <1>3, <1>6, <1>8, <1>10 DEF f

(* A first fragment that others of its payload follow is no full frame.     *)
LEMMA HalfIsNonLast ==
    ASSUME Base, OrderInv, NEW i \in 1..Len(rx.frag), rx.frag[i].num = 0,
           Coming(rx.frag[i].msg) \/ (i + 1 \in 1..Len(rx.frag)
                                      /\ rx.frag[i + 1].msg = rx.frag[i].msg)
    PROVE  rx.frag[i].type = "nonlast"
<1>1. rx.frag \in Seq(Frames) /\ txq \in Seq(Frames)
  BY RxTypes DEF Base
<1>2. rx.frag[i] \in Frames /\ rx.frag[i].msg \in Nat
  <2>1. rx.frag[i] \in Frames
    BY <1>1
  <2> QED BY <2>1, WpsFragAssumption DEF Frames
<1>3. PICK g : Before(rx.frag[i], g) /\ g.msg = rx.frag[i].msg
  <2>1. CASE Coming(rx.frag[i].msg)
    BY <2>1 DEF OrderInv, Line, Coming
  <2>2. CASE i + 1 \in 1..Len(rx.frag) /\ rx.frag[i + 1].msg = rx.frag[i].msg
    <3>1. i < i + 1
      BY <1>1
    <3> QED BY <2>2, <3>1 DEF OrderInv, Line
  <2> QED BY <2>1, <2>2
<1> QED BY <1>2, <1>3 DEF Before

(* The callback of the oldest frame runs.                                   *)
LEMMA DueKeptByTake ==
    ASSUME ShortMode, Base, OrderInv, ShortInv, Storing, ServeInv, RxCallback,
           Head(events) = "received"
    PROVE  DueInv'
<1> DEFINE n == Len(rx.frag)
<1>1. PICK h \in [Nat -> Int] :
         Announced(rx.frag, events, h) /\ \A m \in 1..NumMsgs : Due(h, m)
  BY DEF ServeInv, DueInv
<1>2. /\ events \in Seq(Events) /\ events # <<>> /\ events' = Tail(events)
      /\ rx.frag \in Seq(Frames) /\ UNCHANGED <<sentCount, sending, txq, accepted, stored>>
  BY RxTypes DEF Base, Events, RxCallback, senderVars
<1>3. PICK g \in [Nat -> Int] :
         /\ rx.frag # <<>> /\ h[1] = 1 /\ \A i \in Nat : g[i] = h[i + 1] - 1
         /\ Announced(Tail(rx.frag), events', g)
  <2>1. LET g == [i \in Nat |-> h[i + 1] - 1]
        IN  /\ rx.frag # <<>> /\ h[1] = 1 /\ g \in [Nat -> Int]
            /\ Announced(Tail(rx.frag), Tail(events), g)
    BY <1>1, <1>2, AnnouncedTaken, Zenon
  <2> QED BY <1>2, <2>1
<1>4. PICK f \in Frames : f = Head(rx.frag) /\ f = rx.frag[1] /\ 1 \in 1..n
  BY <1>2, <1>3, TailPlaces
<1>5. /\ Sound(f) /\ rx'.frag = Tail(rx.frag)
      /\ \A m : HasRead(rx, m) => HasRead(rx', m)
      /\ f.type = "full" => HasRead(rx', f.msg)
      /\ f.type = "nonlast" => Waits(rx', f.msg)
      /\ f.type = "last" /\ Waits(rx, f.msg) => HasRead(rx', f.msg)
  BY <1>3, <1>4, FrameServed
<1>6. /\ n \in Nat /\ Len(rx'.frag) = n - 1
      /\ \A i \in 1..n - 1 : rx'.frag[i] = rx.frag[i + 1]
  <2>1. n \in Nat
    BY <1>2
  <2>2. /\ Len(Tail(rx.frag)) = n - 1
        /\ \A i \in 1..Len(Tail(rx.frag)) : Tail(rx.frag)[i] = rx.frag[i + 1]
    BY <1>2, <1>3, TailPlaces, Zenon
  <2> QED BY <1>5, <2>1, <2>2, Zenon
<1> HIDE DEF n
<1>7. ASSUME NEW i \in 2..n
      PROVE  i - 1 \in 1..Len(rx'.frag) /\ rx'.frag[i - 1] = rx.frag[i] /\ g[i - 1] = h[i] - 1
  <2>1. i - 1 \in 1..n - 1 /\ (i - 1) + 1 = i /\ i - 1 \in Nat
    BY <1>6
  <2> QED BY <1>3, <1>6, <2>1
<1>8. \A i \in 1..n : i = 1 \/ i \in 2..n
  BY <1>6
<1>9. \A m : (Count(m)' = Count(m)) /\ (Coming(m)' <=> Coming(m))
  BY <1>2 DEF Count, Coming, Upcoming
<1>10. ASSUME NEW m \in 1..NumMsgs, FullDue(rx.frag, m)
       PROVE  HasRead(rx', m) \/ FullDue(rx'.frag, m)
  <2>1. PICK i \in 1..n : rx.frag[i].msg = m /\ rx.frag[i].type = "full"
    BY <1>10 DEF FullDue, n
  <2>2. CASE i = 1
    BY <1>4, <1>5, <2>1, <2>2
  <2>3. CASE i \in 2..n
    BY <1>7, <2>1, <2>3 DEF FullDue
  <2> QED BY <1>8, <2>2, <2>3
<1>11. ASSUME NEW m \in 1..NumMsgs, LastDue(rx, h, m)
       PROVE  HasRead(rx', m)
  <2>1. Waits(rx, m) /\ f.msg = m /\ f.num = 1
    BY <1>4, <1>11 DEF LastDue, Holds
  <2> QED BY <1>5, <2>1 DEF Sound
<1>12. ASSUME NEW m \in 1..NumMsgs, PairDue(rx.frag, h, m)
       PROVE  LastDue(rx', g, m) \/ PairDue(rx'.frag, g, m)
  <2>1. PICK i \in 1..n : /\ Holds(rx.frag, i, m, 0) /\ Holds(rx.frag, i + 1, m, 1)
                          /\ h[i + 1] = h[i] + 1
    BY <1>12 DEF PairDue, n
  <2>2. i + 1 \in 2..n /\ (i + 1) - 1 = i
    <3>1. i + 1 \in 1..n
      BY <2>1 DEF Holds, n
    <3> QED BY <1>6, <3>1
  <2>3. Holds(rx'.frag, i, m, 1) /\ g[i] = h[i + 1] - 1
    BY <1>7, <2>1, <2>2 DEF Holds
  <2>4. CASE i = 1
    <3>1. f.type = "nonlast" /\ f.msg = m
      BY <1>4, <2>1, <2>4, HalfIsNonLast DEF Holds
    <3>2. g[1] = 1
      BY <1>3, <2>1, <2>3, <2>4
    <3> QED BY <1>5, <2>3, <2>4, <3>1, <3>2 DEF LastDue
  <2>5. CASE i \in 2..n
    <3>1. Holds(rx'.frag, i - 1, m, 0) /\ g[i - 1] = h[i] - 1
      BY <1>7, <2>1, <2>5 DEF Holds
    <3>2. (i - 1) + 1 = i /\ h[i] \in Int
      <4>1. i \in Nat
        BY <2>5
      <4> QED BY <4>1
    <3>3. g[(i - 1) + 1] = g[i - 1] + 1
      BY <2>1, <2>3, <3>1, <3>2
    <3> QED BY <2>3, <3>1, <3>2, <3>3 DEF PairDue, Holds
  <2> QED BY <1>8, <2>4, <2>5
<1>13. ASSUME NEW m \in 1..NumMsgs, HalfDue(rx, events, h, m), Coming(m)
       PROVE  HalfDue(rx', events', g, m)
  <2>1. Holds(rx.frag, n, m, 0) /\ h[n] = Len(events)
    BY <1>2, <1>13 DEF HalfDue, n
  <2>2. Len(events') = Len(events) - 1 /\ Len(events) \in Nat
    BY <1>2, EventTail
  <2>3. CASE n = 1
    <3>1. f.type = "nonlast" /\ f.msg = m
      BY <1>4, <1>13, <2>1, <2>3, HalfIsNonLast DEF Holds, n
    <3>2. Len(rx'.frag) = 0 /\ Len(events') = 0
      <4>1. Len(events) = 1
        BY <1>3, <2>1, <2>3, Zenon
      <4>2. Len(events') = 1 - 1 /\ Len(rx'.frag) = 1 - 1
        BY <1>6, <2>2, <2>3, <4>1, Zenon
      <4> QED BY <4>2
    <3>3. rx'.frag = <<>> /\ events' = <<>>
      <4>1. rx'.frag \in Seq(Frames) /\ events' \in Seq(Events)
        BY <1>2, <1>3, <1>5, TailPlaces, EventTail, Zenon
      <4> QED BY <3>2, <4>1
    <3> QED BY <1>5, <3>1, <3>3 DEF HalfDue
  <2>4. CASE n \in 2..n
    <3>1. Holds(rx'.frag, n - 1, m, 0) /\ g[n - 1] = Len(events) - 1
      BY <1>7, <2>1, <2>4 DEF Holds
    <3> QED BY <1>6, <2>2, <3>1 DEF HalfDue
  <2>5. n \in 1..n
    BY <1>4, <1>6
  <2> QED BY <1>8, <2>3, <2>4, <2>5
<1>14. ASSUME NEW m \in 1..NumMsgs
       PROVE  Due(g, m)'
  <2>1. Due(h, m) /\ stored' = stored
    BY <1>1, <1>2
  <2> QED BY <1>5, <1>9, <1>10, <1>11, <1>12, <1>13, <2>1 DEF Due
<1>15. Announced(rx'.frag, events', g)
  BY <1>3, <1>5
<1> QED BY <1>14, <1>15 DEF DueInv

(* A callback runs that no frame waits for: the overrun that empties the    *)
(* queue.  Nothing it throws away is half of a payload whose other half is  *)
(* stored, because that one would be the first to be announced.             *)
LEMMA DueKeptBySkip ==
    ASSUME Base, OrderInv, ServeInv, RxCallback, Head(events) = "overrun"
    PROVE  DueInv'
<1>1. PICK h \in [Nat -> Int] :
         Announced(rx.frag, events, h) /\ \A m \in 1..NumMsgs : Due(h, m)
  BY DEF ServeInv, DueInv
<1>2. /\ events \in Seq(Events) /\ events # <<>> /\ events' = Tail(events)
      /\ rx.frag \in Seq(Frames) /\ rx \in RxType
      /\ UNCHANGED <<sentCount, sending, txq, accepted, stored>>
  BY RxTypes DEF Base, Events, RxCallback, senderVars
<1>3. PICK g \in [Nat -> Int] :
         /\ Announced(rx.frag, events', g)
         /\ \A i \in 1..Len(rx.frag) : h[i] > 1 /\ g[i] = h[i] - 1
  <2>1. LET g == [i \in Nat |-> h[i] - 1]
        IN  /\ g \in [Nat -> Int] /\ Announced(rx.frag, Tail(events), g)
            /\ \A i \in 1..Len(rx.frag) : h[i] > 1 /\ g[i] = h[i] - 1
    BY <1>1, <1>2, AnnouncedSkipped, Zenon
  <2> QED BY <1>2, <2>1
<1>4. rx'.frag = rx.frag /\ rx'.read = rx.read
  <2>1. rx' = ReadDone(rx, Len(rx.queue)) \/ rx' = rx
    BY DEF RxCallback
  <2>2. Len(rx.queue) \in 0..Len(rx.queue)
    BY <1>2, RxTypes
  <2>3. ReadDone(rx, Len(rx.queue)).frag = rx.frag /\ ReadDone(rx, Len(rx.queue)).read = rx.read
    BY <1>2, <2>2, ReadDoneKeeps, ReadDoneCount DEF Keeps
  <2> QED BY <2>1, <2>3
<1>5. \A m : (Count(m)' = Count(m)) /\ (Coming(m)' <=> Coming(m))
             /\ (HasRead(rx', m) <=> HasRead(rx, m))
  BY <1>2, <1>4 DEF Count, Coming, Upcoming, HasRead
<1>6. \A m : ~LastDue(rx, h, m)
  <2>1. \A m : LastDue(rx, h, m) => 1 \in 1..Len(rx.frag) /\ h[1] = 1
    BY DEF LastDue, Holds
  <2> QED BY <1>3, <2>1
<1>7. ASSUME NEW m, PairDue(rx.frag, h, m)
      PROVE  PairDue(rx'.frag, g, m)
  <2>1. PICK i \in 1..Len(rx.frag) :
           Holds(rx.frag, i, m, 0) /\ Holds(rx.frag, i + 1, m, 1) /\ h[i + 1] = h[i] + 1
    BY <1>7 DEF PairDue
  <2>2. i + 1 \in 1..Len(rx.frag) /\ h[i] \in Int
    BY <1>2, <2>1 DEF Holds
  <2>3. g[i] = h[i] - 1 /\ g[i + 1] = (h[i] + 1) - 1
    BY <1>3, <2>1, <2>2
  <2>4. g[i + 1] = g[i] + 1
    BY <2>2, <2>3
  <2> QED BY <1>4, <2>1, <2>4 DEF PairDue
<1>8. ASSUME NEW m, HalfDue(rx, events, h, m)
      PROVE  HalfDue(rx', events', g, m)
  <2>1. Holds(rx.frag, Len(rx.frag), m, 0) /\ h[Len(rx.frag)] = Len(events)
    BY <1>2, <1>8 DEF HalfDue
  <2>2. g[Len(rx.frag)] = Len(events) - 1
    BY <1>3, <2>1 DEF Holds
  <2>3. Len(events') = Len(events) - 1
    BY <1>2, EventTail
  <2> QED BY <1>4, <2>1, <2>2, <2>3 DEF HalfDue
<1>9. ASSUME NEW m \in 1..NumMsgs
      PROVE  Due(g, m)'
  <2>1. Due(h, m) /\ stored' = stored
    BY <1>1, <1>2
  <2> QED BY <1>4, <1>5, <1>6, <1>7, <1>8, <2>1 DEF Due
<1> QED BY <1>3, <1>4, <1>9 DEF DueInv

LEMMA ServeStep ==
    ASSUME ShortMode, PoolFits, Base, OrderInv, Sizes, Storing, ShortInv, ServeInv, [Next]_vars
    PROVE  ServeInv'
<1>1. ASSUME NEW count \in 1..MaxFragments, NEW exact \in BOOLEAN, SendBegin(count, exact)
      PROVE  ServeInv'
  BY <1>1, ServeBegin
<1>2. CASE SendFragment
  BY <1>2, ServeFragment
<1>3. CASE SendEnd
  BY <1>3, ServeEnd
<1>4. ASSUME UNCHANGED <<sentCount, sending, txq, accepted, events, stored>>,
             rx'.frag = rx.frag, rx'.queue = rx.queue, rx'.read = rx.read,
             SameExpectation(rx, rx')
      PROVE  ServeInv'
  <2>1. PICK h \in [Nat -> Int] :
           Announced(rx.frag, events, h) /\ \A m \in 1..NumMsgs : Due(h, m)
    BY DEF ServeInv, DueInv
  <2>2. \A m : (Count(m)' = Count(m)) /\ (Coming(m)' <=> Coming(m))
               /\ (HasRead(rx', m) <=> HasRead(rx, m)) /\ (Waits(rx', m) <=> Waits(rx, m))
    BY <1>4 DEF Count, Coming, Upcoming, HasRead, Waits, SameExpectation
  <2>3. \A m : /\ LastDue(rx', h, m) <=> LastDue(rx, h, m)
               /\ HalfDue(rx', events, h, m) <=> HalfDue(rx, events, h, m)
    BY <1>4, <2>2 DEF LastDue, HalfDue
  <2>4. \A m \in 1..NumMsgs : Due(h, m)'
    BY <1>4, <2>1, <2>2, <2>3 DEF Due
  <2>5. DueInv'
    BY <1>4, <2>1, <2>4 DEF DueInv
  <2>6. CountsAgree'
    BY <1>4, <2>2 DEF ServeInv, CountsAgree
  <2> QED BY <2>5, <2>6 DEF ServeInv
<1>5. CASE TxSuccess
  BY <1>4, <1>5 DEF TxSuccess, receiverVars, SameExpectation
<1>6. CASE Deliver
  BY <1>6, ServeConnection DEF Deliver
<1>7. CASE Expire
  BY <1>7, ServeConnection DEF Expire
<1>8. CASE RxCallback
  <2>1. Head(events) \in {"received", "overrun"}
    BY <1>8 DEF RxCallback, Base
  <2>2. DueInv'
    BY <1>8, <2>1, DueKeptByTake, DueKeptBySkip
  <2>3. CountsAgree'
    <3>1. UNCHANGED <<sentCount, sending, txq, accepted>>
      BY <1>8 DEF RxCallback, senderVars
    <3>2. \A m : Count(m)' = Count(m)
      BY <3>1 DEF Count
    <3> QED BY <3>1, <3>2 DEF ServeInv, CountsAgree
  <2> QED BY <2>2, <2>3 DEF ServeInv
<1>9. CASE PollRead
  BY <1>9, ShortSetup DEF PollRead
<1>10. CASE PollStoreCount
  <2>1. UNCHANGED <<sentCount, sending, txq, accepted, events, stored>>
    BY <1>10 DEF PollStoreCount, senderVars
  <2>2. rx'.frag = rx.frag /\ rx'.queue = rx.queue /\ rx'.read = rx.read
    BY <1>10, PollStoreCountEffect
  <2>3. SameExpectation(rx, rx')
    <3>1. rx' = [rx EXCEPT !.count = loaded - 1] /\ rx \in RxType
      BY <1>10 DEF PollStoreCount, Base
    <3> QED BY <3>1 DEF RxType, SameExpectation
  <2> QED BY <1>4, <2>1, <2>2, <2>3
<1>11. CASE UNCHANGED vars
  BY <1>4, <1>11 DEF vars, senderVars, receiverVars, SameExpectation
<1> QED BY <1>1, <1>2, <1>3, <1>5, <1>6, <1>7, <1>8, <1>9, <1>10, <1>11 DEF Next

(* Between two callbacks nothing announced is left to do, so that what is   *)
(* stored whole has been read.                                              *)
LEMMA NothingForgotten ==
    ASSUME ShortMode, Base, OrderInv, Sizes, ServeInv, events = <<>>,
           NEW m \in 1..NumMsgs, Complete(m)
    PROVE  Available(m)
<1>1. PICK h \in [Nat -> Int] :
         Announced(rx.frag, events, h) /\ \A k \in 1..NumMsgs : Due(h, k)
  BY DEF ServeInv, DueInv
<1>2. \A i : i \notin 1..Len(rx.frag)
  <2>1. \A i \in 1..Len(rx.frag) : h[i] \in 1..Len(events)
    BY <1>1 DEF Announced
  <2>2. Len(events) = 0
    OBVIOUS
  <2> QED BY <2>1, <2>2
<1>3. accepted[m] \in {1, 2} /\ stored[m] = accepted[m]
  <2>1. accepted[m] \in 0..MaxFragments /\ MaxFragments \in Nat /\ MaxFragments <= 2
    BY WpsFragAssumption DEF Sizes, ShortMode
  <2> QED BY <2>1 DEF Complete
<1>4. CASE accepted[m] = 1
  <2>1. Count(m) = 1
    <3>1. ~(sending # NotSending /\ sending.msg = m)
      BY <1>4 DEF ServeInv, CountsAgree, OrderInv
    <3> QED BY <1>4, <3>1 DEF Count
  <2>2. ~FullDue(rx.frag, m)
    BY <1>2 DEF FullDue
  <2> QED BY <1>1, <1>3, <1>4, <2>1, <2>2 DEF Due, HasRead, Available
<1>5. CASE accepted[m] = 2
  <2>1. ~LastDue(rx, h, m) /\ ~PairDue(rx.frag, h, m)
    BY <1>2 DEF LastDue, PairDue, Holds
  <2> QED BY <1>1, <1>3, <1>5, <2>1 DEF Due, HasRead, Available
<1> QED BY <1>3, <1>4, <1>5

ServeInvariant == Base /\ OrderInv /\ Sizes /\ Storing /\ ShortInv /\ ServeInv

LEMMA ServeAlways ==
    ASSUME ShortMode, PoolFits
    PROVE  Spec => []ServeInvariant
<1>1. Init => ServeInvariant
  BY BaseInit, OrderInit, SizesInit, StoringInit, ShortInit, ServeInit DEF ServeInvariant
<1>2. ServeInvariant /\ [Next]_vars => ServeInvariant'
  BY BaseStep, OrderStep, SizesStep, StoringStep, ShortStep, ServeStep DEF ServeInvariant
<1> QED BY <1>1, <1>2, PTL DEF Spec

(* Whatever is lost, refused or flushed, a payload of at most two fragments *)
(* all of which were stored is read once the callbacks have run, however    *)
(* broken the payloads before it were: a hole costs the payload it is in    *)
(* and no other (wps_frag_read_process).                                    *)
THEOREM NoPayloadForgotten ==
    ASSUME ShortMode, PoolFits
    PROVE  Spec => [](events = <<>> => \A m \in 1..NumMsgs : Complete(m) => Available(m))
<1>1. ServeInvariant => (events = <<>> => \A m \in 1..NumMsgs : Complete(m) => Available(m))
  BY NothingForgotten DEF ServeInvariant
<1> QED BY <1>1, ServeAlways, PTL

(* The property TLC checks, which among longer payloads allows a hole to    *)
(* cost the payload after it.                                               *)
THEOREM ShortPayloadsResynchronise ==
    ASSUME ShortMode, PoolFits
    PROVE  Spec => []Resynchronises
<1>1. ServeInvariant => Resynchronises
  BY NothingForgotten DEF ServeInvariant, Resynchronises
<1> QED BY <1>1, ServeAlways, PTL
=============================================================================
