-------------------------- MODULE MacLinkOrder_proofs --------------------------
(***************************************************************************)
(* Proofs about the order of the payloads in MacLink and about what its     *)
(* guaranteed delivery mode promises:                                       *)
(*   - in every configuration, with deadlines, flushes, reconnections and   *)
(*     lost acknowledgements, payloads are stored in the order they were    *)
(*     submitted (StoredInOrder);                                           *)
(*   - in guaranteed delivery mode, without auto-sync and credit flow       *)
(*     control, the connection implements ReliableLink (ReliableDelivery).  *)
(***************************************************************************)
EXTENDS MacLink_proofs

(* The oldest payload that has not left the sender's queue, or the next one *)
(* to be submitted when the queue is empty.                                 *)
Oldest == next - Len(txq)

(* The queue holds the newest payloads, without a gap.  A flush or an       *)
(* expired deadline takes them from the front only.                         *)
QueueOrder == \A i \in 1..Len(txq) : txq[i] = Oldest - 1 + i

(* What is stored was at the head of the queue at some time, ...            *)
TakenBound == \A old \in taken : old <= Oldest

(* ... and so was a payload received in the slot whose callback has yet to  *)
(* run, which is no older than what is stored.                              *)
PendingBound ==
    rxIn.kind = "data" =>
        rxIn.id <= Oldest /\ \A old \in taken : old <= rxIn.id

OrderInv == QueueOrder /\ TakenBound /\ PendingBound

-----------------------------------------------------------------------------
(* The queue.                                                               *)

LEMMA QueueTypes ==
  ASSUME TypeInv
  PROVE  /\ next \in Nat /\ txq \in Seq(Msgs) /\ Len(txq) \in Nat
         /\ Oldest \in Int /\ taken \subseteq Nat
         /\ (rxIn.kind = "data" => rxIn.id \in Nat)
         /\ (tx.kind = "data" => tx.id \in Nat)
<1>1. next \in Nat /\ txq \in Seq(Msgs) /\ Len(txq) \in Nat
  BY MacLinkAssumption DEF TypeInv, TypeOK, SenderTypeOK
<1>2. taken \subseteq Nat
  BY DEF TypeInv, TypeOK, HistoryTypeOK, Msgs
<1>3. \A f \in Frame : f.kind = "data" => f.id \in Nat
  BY DEF Frame, Msgs
<1>4. rxIn \in Frame /\ tx \in Frame
  BY DEF TypeInv, TypeOK, SenderTypeOK, ReceiverTypeOK
<1> QED BY <1>1, <1>2, <1>3, <1>4 DEF Oldest

(* The payload in the slot is the oldest one.                               *)
LEMMA HeadIsOldest ==
  ASSUME TypeInv, OrderInv, InSlot, tx.kind = "data"
  PROVE  txq # <<>> /\ Len(txq) > 0 /\ tx.id = Oldest
<1>1. txq # <<>> /\ Head(txq) = tx.id
  BY DEF TypeInv, HeadArmed
<1>2. Len(txq) > 0 /\ Head(txq) = txq[1]
  BY <1>1, QueueTypes, HeadInMsgs
<1>3. 1 \in 1..Len(txq)
  BY <1>2, QueueTypes
<1>4. txq[1] = Oldest
  BY <1>3, QueueTypes DEF OrderInv, QueueOrder
<1> QED BY <1>1, <1>2, <1>4

(* Taking the head keeps the order.                                         *)
LEMMA TailOrder ==
  ASSUME NEW q \in Seq(Msgs), q # <<>>, NEW k \in Int,
         \A i \in 1..Len(q) : q[i] = k - Len(q) - 1 + i
  PROVE  /\ Tail(q) \in Seq(Msgs) /\ Len(Tail(q)) = Len(q) - 1
         /\ \A i \in 1..Len(Tail(q)) : Tail(q)[i] = k - Len(Tail(q)) - 1 + i
<1>1. /\ Tail(q) \in Seq(Msgs) /\ Len(Tail(q)) = Len(q) - 1 /\ Len(q) \in Nat
      /\ \A i \in 1..Len(Tail(q)) : Tail(q)[i] = q[i + 1]
  BY HeadTailProperties
<1>2. ASSUME NEW i \in 1..Len(Tail(q))
      PROVE  Tail(q)[i] = k - Len(Tail(q)) - 1 + i
  <2>1. i + 1 \in 1..Len(q)
    BY <1>1
  <2>2. Tail(q)[i] = q[i + 1] /\ q[i + 1] = k - Len(q) - 1 + (i + 1)
    BY <1>1, <2>1
  <2> QED BY <1>1, <2>2
<1> QED BY <1>1, <1>2

(* What expired deadlines and a flush leave is the newest part.             *)
LEMMA KeptOrder ==
  ASSUME TypeInv, QueueOrder, NEW n \in 0..Len(txq)
  PROVE  /\ Kept(n) \in Seq(Msgs) /\ Len(Kept(n)) <= Len(txq)
         /\ \A i \in 1..Len(Kept(n)) : Kept(n)[i] = next - Len(Kept(n)) - 1 + i
<1>1. /\ txq \in Seq(Msgs) /\ Len(txq) \in Nat /\ next \in Nat
      /\ \A i \in 1..Len(txq) : txq[i] \in Msgs
  BY QueueTypes
<1>2. /\ InTime(n) \in Seq(Msgs)
      /\ Len(InTime(n)) = Len(txq) - n
      /\ \A i \in 1..(Len(txq) - n) : InTime(n)[i] = txq[n + i]
  <2>1. n + 1 \in Int /\ \A i \in (n + 1)..Len(txq) : txq[i] \in Msgs
    BY <1>1
  <2>2. /\ InTime(n) \in Seq(Msgs)
        /\ Len(InTime(n)) = IF n + 1 <= Len(txq) THEN Len(txq) - (n + 1) + 1 ELSE 0
        /\ \A i \in 1..(Len(txq) - (n + 1) + 1) : InTime(n)[i] = txq[n + 1 + i - 1]
    BY <1>1, <2>1, SubSeqProperties DEF InTime
  <2>3. Len(InTime(n)) = Len(txq) - n
    BY <1>1, <2>2
  <2>4. ASSUME NEW i \in 1..(Len(txq) - n) PROVE InTime(n)[i] = txq[n + i]
    <3>1. i \in 1..(Len(txq) - (n + 1) + 1) /\ n + 1 + i - 1 = n + i
      BY <1>1
    <3> QED BY <2>2, <3>1
  <2> QED BY <2>2, <2>3, <2>4
<1>3. \A i \in 1..Len(InTime(n)) : InTime(n)[i] = next - Len(InTime(n)) - 1 + i
  <2> SUFFICES ASSUME NEW i \in 1..Len(InTime(n))
               PROVE  InTime(n)[i] = next - Len(InTime(n)) - 1 + i
    OBVIOUS
  <2>1. n + i \in 1..Len(txq) /\ InTime(n)[i] = txq[n + i]
    BY <1>1, <1>2
  <2>2. txq[n + i] = next - Len(txq) - 1 + (n + i)
    BY <2>1 DEF QueueOrder, Oldest
  <2> QED BY <1>1, <1>2, <2>1, <2>2
<1>4. CASE Flushes(n)
  <2>1. InTime(n) # <<>> /\ Kept(n) = Tail(InTime(n))
    BY <1>4 DEF Flushes, Kept
  <2>2. next \in Int /\ InTime(n) \in Seq(Msgs)
    BY <1>1, <1>2
  <2>3. /\ Tail(InTime(n)) \in Seq(Msgs)
        /\ Len(Tail(InTime(n))) = Len(InTime(n)) - 1
        /\ \A i \in 1..Len(Tail(InTime(n))) :
              Tail(InTime(n))[i] = next - Len(Tail(InTime(n))) - 1 + i
    BY <1>3, <2>1, <2>2, TailOrder
  <2> QED BY <1>1, <1>2, <2>1, <2>3
<1>5. CASE ~Flushes(n)
  BY <1>1, <1>2, <1>3, <1>5 DEF Kept
<1> QED BY <1>4, <1>5

-----------------------------------------------------------------------------
(* Payloads are stored in order.                                            *)

LEMMA InitOrder == Init => OrderInv
BY DEF Init, OrderInv, QueueOrder, TakenBound, PendingBound, IdleFrame

(* Steps that leave the queue's payloads and the receiver's records alone.  *)
LEMMA UntouchedOrder ==
  ASSUME OrderInv, UNCHANGED <<next, txq, rxIn, taken>> PROVE OrderInv'
BY DEF OrderInv, QueueOrder, TakenBound, PendingBound, Oldest

(* The queue loses payloads at its front: the bounds only grow.             *)
LEMMA ShorterOrder ==
  ASSUME TypeInv, OrderInv, UNCHANGED <<next, rxIn, taken>>,
         txq' \in Seq(Msgs), Len(txq') <= Len(txq),
         \A i \in 1..Len(txq') : txq'[i] = next - Len(txq') - 1 + i
  PROVE  OrderInv'
<1>1. Len(txq') \in Nat /\ Oldest' \in Int /\ Oldest <= Oldest'
  BY QueueTypes DEF Oldest
<1>2. QueueOrder'
  BY QueueTypes DEF QueueOrder, Oldest
<1>3. TakenBound'
  BY <1>1, QueueTypes DEF OrderInv, TakenBound
<1>4. PendingBound'
  BY <1>1, QueueTypes DEF OrderInv, PendingBound
<1> QED BY <1>2, <1>3, <1>4 DEF OrderInv

LEMMA SendOrder ==
  ASSUME TypeInv, OrderInv, Send PROVE OrderInv'
<1>1. /\ next \in Msgs /\ next' = next + 1 /\ txq' = Append(txq, next)
      /\ rxIn' = rxIn /\ taken' = taken
  BY MacLinkAssumption
     DEF Send, Enqueue, TypeInv, TypeOK, SenderTypeOK, Msgs, receiverVars, historyVars
<1>2. /\ Len(txq') = Len(txq) + 1 /\ txq'[Len(txq) + 1] = next
      /\ \A i \in 1..Len(txq) : txq'[i] = txq[i]
  BY <1>1, QueueTypes, AppendProperties
<1>3. Oldest' = Oldest
  BY <1>1, <1>2, QueueTypes DEF Oldest
<1>4. QueueOrder'
  <2> SUFFICES ASSUME NEW i \in 1..Len(txq') PROVE txq'[i] = Oldest - 1 + i
    BY <1>3 DEF QueueOrder
  <2>1. CASE i \in 1..Len(txq)
    BY <1>2, <2>1 DEF OrderInv, QueueOrder
  <2>2. CASE i = Len(txq) + 1
    BY <1>2, <2>2, QueueTypes DEF Oldest
  <2> QED BY <1>2, <2>1, <2>2, QueueTypes
<1>5. TakenBound' /\ PendingBound'
  BY <1>1, <1>3 DEF OrderInv, TakenBound, PendingBound
<1> QED BY <1>4, <1>5 DEF OrderInv

LEMMA TxPrepareOrder ==
  ASSUME TypeInv, OrderInv, TxPrepare PROVE OrderInv'
<1>1. PICK n \in TimeoutDrops : txq' = Kept(n)
  BY DEF TxPrepare
<1>2. n \in 0..Len(txq)
  BY <1>1, QueueTypes DEF TimeoutDrops
<1>3. UNCHANGED <<next, rxIn, taken>>
  BY DEF TxPrepare, receiverVars
<1> QED BY <1>1, <1>2, <1>3, KeptOrder, ShorterOrder DEF OrderInv

LEMMA TxCallbackOrder ==
  ASSUME TypeInv, OrderInv, TxCallback PROVE OrderInv'
<1>1. UNCHANGED <<next, rxIn, taken>>
  BY DEF TxCallback, receiverVars
<1>2. CASE TxDataAcked
  <2>1. txq # <<>> /\ txq' = Tail(txq)
    BY <1>2, HeadIsOldest DEF TxDataAcked, InSlot
  <2>2. /\ txq' \in Seq(Msgs) /\ Len(txq') = Len(txq) - 1
        /\ \A i \in 1..Len(txq') : txq'[i] = next - Len(txq') - 1 + i
    <3>1. \A i \in 1..Len(txq) : txq[i] = next - Len(txq) - 1 + i
      BY DEF OrderInv, QueueOrder, Oldest
    <3> QED BY <2>1, <3>1, QueueTypes, TailOrder
  <2> QED BY <1>1, <2>2, QueueTypes, ShorterOrder
<1>3. CASE TxDataLost \/ TxEmpty
  BY <1>1, <1>3, UntouchedOrder DEF TxDataLost, TxEmpty
<1> QED BY <1>2, <1>3 DEF TxCallback

LEMMA TxReconnectOrder ==
  ASSUME TypeInv, OrderInv, NEW flush \in BOOLEAN, TxReconnect(flush)
  PROVE  OrderInv'
<1>1. UNCHANGED <<next, rxIn, taken>>
  BY DEF TxReconnect, receiverVars
<1>2. CASE flush
  <2>1. txq' = <<>>
    BY <1>2 DEF TxReconnect
  <2>2. /\ txq' \in Seq(Msgs) /\ Len(txq') <= Len(txq)
        /\ \A i \in 1..Len(txq') : txq'[i] = next - Len(txq') - 1 + i
    BY <2>1, QueueTypes
  <2> QED BY <1>1, <2>2, ShorterOrder
<1>3. CASE ~flush
  BY <1>1, <1>3, UntouchedOrder DEF TxReconnect
<1> QED BY <1>2, <1>3

LEMMA ExchangeOrder ==
  ASSUME TypeInv, OrderInv, Exchange PROVE OrderInv'
<1>1. next' = next /\ txq' = txq /\ taken' = taken /\ Oldest' = Oldest
  BY DEF Exchange, ExchangeMissed, ExchangeReceived, historyVars, Oldest
<1>2. rxIn'.kind = "idle" \/ (InSlot /\ rxIn' = tx)
  BY DEF Exchange, ExchangeMissed, ExchangeReceived, IdleFrame, InSlot
<1>3. PendingBound'
  <2> SUFFICES ASSUME rxIn'.kind = "data" PROVE PendingBound'
    BY DEF PendingBound
  <2>1. tx.kind = "data" /\ InSlot /\ rxIn' = tx
    BY <1>2
  <2>2. rxIn'.id = Oldest
    BY <2>1, HeadIsOldest
  <2> QED BY <1>1, <2>2, QueueTypes DEF OrderInv, TakenBound, PendingBound
<1> QED BY <1>1, <1>3 DEF OrderInv, QueueOrder, TakenBound

(* The received payload becomes the newest stored one.                      *)
LEMMA RxCallbackOrder ==
  ASSUME TypeInv, OrderInv, RxCallback
  PROVE  /\ OrderInv'
         /\ \A new \in taken' \ taken : \A old \in taken : old < new
<1>1. /\ next' = next /\ txq' = txq /\ Oldest' = Oldest
      /\ rxIn'.kind = "idle"
  BY DEF RxCallback, senderVars, IdleFrame, Oldest
<1>2. \/ taken' = taken
      \/ rxIn.kind = "data" /\ taken' = taken \cup {rxIn.id}
  BY DEF RxCallback, RxMissed, RxInternal, RxStored, RxOverrun
<1>3. QueueOrder' /\ PendingBound'
  BY <1>1 DEF OrderInv, QueueOrder, PendingBound
<1>4. TakenBound'
  BY <1>1, <1>2, QueueTypes DEF OrderInv, TakenBound, PendingBound
<1>5. ASSUME NEW new \in taken' \ taken, NEW old \in taken PROVE old < new
  <2>1. rxIn.kind = "data" /\ new = rxIn.id /\ old # new
    BY <1>2
  <2>2. old <= rxIn.id
    BY <2>1 DEF OrderInv, PendingBound
  <2> QED BY <2>1, <2>2, QueueTypes
<1> QED BY <1>3, <1>4, <1>5 DEF OrderInv

LEMMA NextOrder ==
  ASSUME TypeInv, OrderInv, [Next]_vars
  PROVE  /\ OrderInv'
         /\ \A new \in taken' \ taken : \A old \in taken : old < new
<1>1. CASE RxCallback
  BY <1>1, RxCallbackOrder
<1>2. CASE Send
  BY <1>2, SendOrder DEF Send, historyVars
<1>3. CASE TxPrepare
  BY <1>3, TxPrepareOrder DEF TxPrepare
<1>4. CASE TxCallback
  BY <1>4, TxCallbackOrder DEF TxCallback
<1>5. CASE \E flush \in BOOLEAN : TxReconnect(flush)
  BY <1>5, TxReconnectOrder DEF TxReconnect
<1>6. CASE Exchange
  <2>1. taken' = taken
    BY <1>6 DEF Exchange, ExchangeMissed, ExchangeReceived, historyVars
  <2> QED BY <1>6, <2>1, ExchangeOrder
<1>7. CASE \/ ReadDone \/ TxFlushRequest \/ SyncChange \/ RxPrepare
           \/ \E flush \in BOOLEAN : RxReconnect(flush)
  <2>1. UNCHANGED <<next, txq, rxIn, taken>>
    BY <1>7 DEF ReadDone, TxFlushRequest, SyncChange, RxPrepare, RxReconnect,
                senderVars, receiverVars, historyVars
  <2> QED BY <2>1, UntouchedOrder
<1>8. CASE UNCHANGED vars
  BY <1>8, UntouchedOrder DEF vars, senderVars, receiverVars, historyVars
<1> QED BY <1>1, <1>2, <1>3, <1>4, <1>5, <1>6, <1>7, <1>8
        DEF Next, App, Sender, Receiver

(* The receiver stores payloads in the order the application submitted      *)
(* them, in every configuration: neither retransmissions, duplicates,       *)
(* expired or flushed payloads nor reconnections of either device make it   *)
(* store a payload after a newer one.                                       *)
THEOREM PayloadsStoredInOrder == Spec => StoredInOrder
<1>1. Init => TypeInv /\ OrderInv
  BY InitType, InitOrder
<1>2. TypeInv /\ OrderInv /\ [Next]_vars => (TypeInv /\ OrderInv)'
  BY NextType, NextOrder
<1>3. TypeInv /\ OrderInv /\ [Next]_vars
        => [\A new \in taken' \ taken : \A old \in taken : old < new]_vars
  BY NextOrder
<1> QED BY <1>1, <1>2, <1>3, PTL DEF Spec, StoredInOrder

-----------------------------------------------------------------------------
(* Guaranteed delivery implements ReliableLink.                             *)

GuaranteedInv == TypeInv /\ LossInv /\ OrderInv

(* Steps that neither submit, settle, confirm nor reach anything.           *)
LEMMA StutterLink ==
  ASSUME UNCHANGED <<next, txq, acked>>, Reached' = Reached
  PROVE  UNCHANGED RL!vars
BY DEF RL!vars

LEMMA SubmitLink ==
  ASSUME TypeInv, Send PROVE RL!Submit
<1>1. next \in 1..NumMsgs /\ next' = next + 1 /\ acked' = acked
  BY MacLinkAssumption DEF Send, TypeInv, TypeOK, SenderTypeOK, historyVars
<1>2. Len(txq') = Len(txq) + 1
  BY <1>1, QueueTypes, AppendProperties DEF Send, Enqueue, Msgs
<1>3. Reached' = Reached
  BY DEF Send, receiverVars, historyVars, Reached, PendingNew, Duplicate
<1> QED BY <1>1, <1>2, <1>3, QueueTypes, MacLinkAssumption DEF RL!Submit

(* Nothing expires and nothing is flushed on request.                       *)
LEMMA PrepareLink ==
  ASSUME GuaranteedMode, TypeInv, LossInv, TxPrepare PROVE UNCHANGED RL!vars
<1>1. TimeoutDrops = {0}
  BY DEF GuaranteedMode, TimeoutDrops, GuaranteedDelivery, IsGuaranteedDeliveryMode
<1>2. Kept(0) = txq
  <2>1. SubSeq(txq, 1, Len(txq)) = txq
    BY QueueTypes, SubSeqFull
  <2> QED BY <2>1 DEF Kept, InTime, Flushes, LossInv, NoFlushPending
<1>3. UNCHANGED <<next, txq, acked>>
  BY <1>1, <1>2 DEF TxPrepare
<1>4. Reached' = Reached
  BY DEF TxPrepare, receiverVars, Reached, PendingNew, Duplicate
<1> QED BY <1>3, <1>4, StutterLink

(* The frame that gets through carries the oldest payload.                  *)
LEMMA ExchangeLink ==
  ASSUME GuaranteedInv, Exchange PROVE [RL!Next]_(RL!vars)
<1>1. UNCHANGED <<next, txq, acked, taken, overruns>> /\ InSlot
  BY DEF Exchange, ExchangeMissed, ExchangeReceived, historyVars, InSlot
<1>2. rxIn.kind = "idle" /\ Reached = taken \cup overruns
  BY DEF GuaranteedInv, LossInv, RxInIdle, Exchange, ExchangeMissed,
         ExchangeReceived, Reached, PendingNew
<1>3. \/ PendingNew' = {}
      \/ tx.kind = "data" /\ PendingNew' = {tx.id}
  BY DEF Exchange, ExchangeMissed, ExchangeReceived, PendingNew, IdleFrame
<1>4. CASE PendingNew' = {}
  BY <1>1, <1>2, <1>4, StutterLink DEF Reached
<1>5. CASE tx.kind = "data" /\ PendingNew' = {tx.id}
  <2>1. Len(txq) > 0 /\ tx.id = Oldest
    BY <1>1, <1>5, HeadIsOldest DEF GuaranteedInv
  <2>2. Reached' = Reached \cup {(next - 1 - Len(txq)) + 1}
    BY <1>1, <1>2, <1>5, <2>1, QueueTypes DEF Reached, Oldest, GuaranteedInv
  <2>3. RL!Reach
    BY <1>1, <2>1, <2>2, QueueTypes DEF RL!Reach, GuaranteedInv
  <2> QED BY <2>3 DEF RL!Next
<1> QED BY <1>3, <1>4, <1>5

(* An acknowledged payload has reached the peer and was the oldest.         *)
LEMMA CallbackLink ==
  ASSUME GuaranteedInv, TxCallback PROVE [RL!Next]_(RL!vars)
<1>1. Reached' = Reached /\ next' = next
  BY DEF TxCallback, receiverVars, Reached, PendingNew, Duplicate
<1>2. CASE TxDataAcked
  <2>1. txq # <<>> /\ Len(txq) > 0 /\ tx.id = Oldest /\ tx.id \in Reached
    BY <1>2, HeadIsOldest
       DEF TxDataAcked, InSlot, GuaranteedInv, LossInv, AckSound
  <2>2. Len(txq') = Len(txq) - 1 /\ acked' = acked \cup {tx.id}
    BY <1>2, <2>1, QueueTypes, HeadInMsgs DEF TxDataAcked, GuaranteedInv
  <2>3. tx.id = (next - 1 - Len(txq)) + 1
    BY <2>1, QueueTypes DEF Oldest, GuaranteedInv
  <2>4. RL!Confirm
    BY <1>1, <2>1, <2>2, <2>3, QueueTypes DEF RL!Confirm, GuaranteedInv
  <2> QED BY <2>4 DEF RL!Next
<1>3. CASE TxDataLost \/ TxEmpty
  BY <1>1, <1>3, StutterLink DEF TxDataLost, TxEmpty
<1> QED BY <1>2, <1>3 DEF TxCallback

(* A flush while the link is stopped gives the waiting payloads up.         *)
LEMMA ReconnectLink ==
  ASSUME TypeInv, NEW flush \in BOOLEAN, TxReconnect(flush)
  PROVE  [RL!Next]_(RL!vars)
<1>1. Reached' = Reached /\ next' = next /\ acked' = acked
  BY DEF TxReconnect, receiverVars, Reached, PendingNew, Duplicate
<1>2. CASE flush
  <2>1. Len(txq') = 0
    BY <1>2 DEF TxReconnect
  <2>2. next' - 1 - Len(txq') \in (next - 1 - Len(txq))..(next - 1)
    BY <1>1, <2>1, QueueTypes
  <2>3. RL!GiveUp
    BY <1>1, <2>2 DEF RL!GiveUp
  <2> QED BY <2>3 DEF RL!Next
<1>3. CASE ~flush
  BY <1>1, <1>3, StutterLink DEF TxReconnect
<1> QED BY <1>2, <1>3

(* What the receiver's MAC had in hand is now stored, refused or known.     *)
LEMMA ReceiverLink ==
  ASSUME LossInv,
         RxPrepare \/ RxCallback \/ \E flush \in BOOLEAN : RxReconnect(flush)
  PROVE  UNCHANGED RL!vars
<1>1. UNCHANGED <<next, txq, acked>>
  BY DEF RxPrepare, RxCallback, RxReconnect, senderVars, historyVars
<1>2. CASE RxCallback
  <2>1. PendingNew' = {}
    BY <1>2 DEF RxCallback, PendingNew, IdleFrame
  <2>2. taken' \cup overruns' = taken \cup overruns \cup PendingNew
    BY <1>2 DEF RxCallback, RxMissed, RxInternal, RxStored, RxOverrun, PendingNew
  <2> QED BY <1>1, <2>1, <2>2, StutterLink DEF Reached
<1>3. CASE RxPrepare \/ \E flush \in BOOLEAN : RxReconnect(flush)
  <2>1. rxIn.kind = "idle" /\ UNCHANGED <<rxIn, taken, overruns>>
    BY <1>3 DEF RxPrepare, RxReconnect, LossInv, RxInIdle, historyVars
  <2> QED BY <1>1, <2>1, StutterLink DEF Reached, PendingNew
<1> QED BY <1>2, <1>3

LEMMA NextLink ==
  ASSUME GuaranteedMode, GuaranteedInv, [Next]_vars
  PROVE  [RL!Next]_(RL!vars)
<1> USE DEF GuaranteedInv
<1>1. CASE Send
  BY <1>1, SubmitLink DEF RL!Next
<1>2. CASE TxPrepare
  BY <1>2, PrepareLink
<1>3. CASE Exchange
  BY <1>3, ExchangeLink
<1>4. CASE TxCallback
  BY <1>4, CallbackLink
<1>5. CASE \E flush \in BOOLEAN : TxReconnect(flush)
  BY <1>5, ReconnectLink
<1>6. CASE RxPrepare \/ RxCallback \/ \E flush \in BOOLEAN : RxReconnect(flush)
  BY <1>6, ReceiverLink
<1>7. CASE ReadDone \/ TxFlushRequest \/ SyncChange \/ UNCHANGED vars
  <2>1. UNCHANGED <<next, txq, acked, rxIn, rxSeq, taken, overruns>>
    BY <1>7 DEF ReadDone, TxFlushRequest, SyncChange, vars, senderVars,
                receiverVars, historyVars
  <2> QED BY <2>1, StutterLink DEF Reached, PendingNew, Duplicate
<1> QED BY <1>1, <1>2, <1>3, <1>4, <1>5, <1>6, <1>7
        DEF Next, App, Sender, Receiver

(* In guaranteed delivery mode without auto-sync and credit flow control    *)
(* the connection is a ReliableLink: payloads leave the queue in order, only *)
(* the oldest one reaches the peer, and it is confirmed only once it did,   *)
(* for every queue size, role, loss pattern and sequence of reconnections.  *)
THEOREM DeliversReliably ==
  ASSUME GuaranteedMode PROVE Spec => ReliableDelivery
<1>1. Init => GuaranteedInv
  BY InitType, InitLoss, InitOrder DEF GuaranteedInv
<1>2. GuaranteedInv /\ [Next]_vars => GuaranteedInv'
  BY NextType, NextLoss, NextOrder DEF GuaranteedInv
<1>3. Init => RL!Init
  <2> SUFFICES ASSUME Init PROVE RL!Init
    OBVIOUS
  <2>1. next = 1 /\ Len(txq) = 0 /\ acked = {}
    BY DEF Init
  <2>2. PendingNew = {} /\ taken = {} /\ overruns = {}
    BY DEF Init, PendingNew, IdleFrame
  <2> QED BY <2>1, <2>2 DEF RL!Init, Reached
<1>4. GuaranteedInv /\ [Next]_vars => [RL!Next]_(RL!vars)
  BY NextLink
<1> QED BY <1>1, <1>2, <1>3, <1>4, PTL DEF Spec, ReliableDelivery, RL!Spec
=============================================================================
