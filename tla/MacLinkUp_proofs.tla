---------------------------- MODULE MacLinkUp_proofs ----------------------------
(***************************************************************************)
(* Proofs about MacLink outside the mode that guarantees delivery, for      *)
(* every number of payloads, queue size, threshold and loss pattern:        *)
(*   - as long as the link stays up, a coordinator that starts with sync    *)
(*     frames has no payload stored twice (ExactlyOnceWhileUp), and with    *)
(*     credit flow control none refused (NoOverrunWhileUp);                 *)
(*   - without the sync frames only a first payload is stored twice         *)
(*     (OnlyFirstRepeated);                                                 *)
(*   - with deadlines and flushes, only the payload behind a dropped one    *)
(*     can be acknowledged and lost (LossOnlyAfterDrop).                    *)
(***************************************************************************)
EXTENDS MacLinkOrder_proofs

(* The payloads the receiver stored, and the one it is about to.            *)
Had == taken \cup PendingNew

(* What the receiver has was submitted, and a slot without a frame is never *)
(* acknowledged.                                                            *)
Submitted ==
    /\ \A old \in taken : old < next
    /\ rxIn.kind = "data" => rxIn.id < next

IdleWaits == txPhase = "event" /\ tx.kind = "idle" => ~Acknowledged

LinkInv == TypeInv /\ OrderInv /\ RxInIdle /\ Submitted /\ IdleWaits

-----------------------------------------------------------------------------
(* What each action does to the number remembered, the oldest payload and   *)
(* the payloads the receiver has.                                           *)

LEMMA SameView ==
  ASSUME UNCHANGED <<next, txq, rxIn, rxSeq, taken>>
  PROVE  Oldest' = Oldest /\ PendingNew' = PendingNew /\ Had' = Had /\ EffSeq' = EffSeq
BY DEF Oldest, PendingNew, Had, EffSeq, Duplicate

LEMMA HadBound ==
  ASSUME LinkInv
  PROVE  /\ \A h \in Had : h \in Nat /\ h <= Oldest /\ h < next
         /\ Oldest \in Int /\ next \in Nat /\ next \notin Had
<1>1. PendingNew # {} => rxIn.kind = "data" /\ PendingNew = {rxIn.id}
  BY DEF PendingNew
<1>2. \A h \in Had : h \in Nat /\ h <= Oldest /\ h < next
  BY <1>1, QueueTypes
     DEF LinkInv, OrderInv, TakenBound, PendingBound, Submitted, Had
<1> QED BY <1>2, QueueTypes DEF LinkInv

LEMMA SendView ==
  ASSUME LinkInv, Send
  PROVE  /\ UNCHANGED <<txSeq, credits, sendSync, cs, synced, txPhase, tx, txIn,
                        txReply, receiverVars, historyVars>>
         /\ next' = next + 1
         /\ Oldest' = Oldest /\ PendingNew' = PendingNew /\ Had' = Had
         /\ EffSeq' = EffSeq
<1>1. /\ next \in Msgs /\ next' = next + 1 /\ txq' = Append(txq, next)
      /\ rxIn' = rxIn /\ taken' = taken /\ rxSeq' = rxSeq
  BY MacLinkAssumption
     DEF LinkInv, Send, Enqueue, TypeInv, TypeOK, SenderTypeOK, Msgs, receiverVars,
         historyVars
<1>2. Len(txq') = Len(txq) + 1
  BY <1>1, QueueTypes, AppendProperties DEF LinkInv
<1>3. Oldest' = Oldest
  BY <1>1, <1>2, QueueTypes DEF Oldest, LinkInv
<1>4. PendingNew' = PendingNew /\ Had' = Had /\ EffSeq' = EffSeq
  BY <1>1 DEF PendingNew, Had, EffSeq, Duplicate
<1> QED BY <1>1, <1>3, <1>4 DEF Send

(* The payloads that leave the queue when a slot is prepared are dropped.   *)
LEMMA PrepareDrops ==
  ASSUME LinkInv, TxPrepare
  PROVE  /\ Oldest' \in Int /\ Oldest' >= Oldest
         /\ dropped \subseteq dropped'
         /\ \A j \in Int : Oldest <= j /\ j < Oldest' => j \in dropped'
<1>1. PICK n \in TimeoutDrops :
         /\ txq' = Kept(n)
         /\ dropped' = dropped \cup (Ids(txq) \ Ids(Kept(n)))
  BY DEF TxPrepare
<1>2. n \in 0..Len(txq) /\ QueueOrder /\ TypeInv /\ next' = next
  BY <1>1, QueueTypes DEF TimeoutDrops, LinkInv, OrderInv, TxPrepare
<1>3. /\ Kept(n) \in Seq(Msgs) /\ Len(Kept(n)) <= Len(txq)
      /\ \A i \in 1..Len(Kept(n)) : Kept(n)[i] = next - Len(Kept(n)) - 1 + i
  BY <1>2, KeptOrder
<1>4. /\ next \in Nat /\ txq \in Seq(Msgs) /\ Len(txq) \in Nat
      /\ Len(Kept(n)) \in Nat /\ Oldest' = next - Len(Kept(n))
      /\ Oldest = next - Len(txq)
  BY <1>1, <1>2, <1>3, QueueTypes DEF Oldest
<1>5. ASSUME NEW j \in Int, Oldest <= j, j < Oldest' PROVE j \in dropped'
  <2>1. (j - Oldest + 1) \in 1..Len(txq)
    BY <1>4, <1>5
  <2>2. txq[j - Oldest + 1] = j
    <3>1. txq[j - Oldest + 1] = Oldest - 1 + (j - Oldest + 1)
      BY <1>2, <2>1 DEF QueueOrder
    <3> QED BY <1>4, <3>1
  <2>3. j \in Ids(txq)
    BY <1>4, <2>1, <2>2 DEF Ids
  <2>4. ASSUME NEW i \in DOMAIN Kept(n), Kept(n)[i] = j PROVE FALSE
    <3>1. i \in 1..Len(Kept(n))
      BY <1>3, <2>4
    <3>2. j = next - Len(Kept(n)) - 1 + i
      BY <1>3, <2>4, <3>1
    <3> QED BY <1>4, <1>5, <3>1, <3>2
  <2>5. j \notin Ids(Kept(n))
    BY <2>4 DEF Ids
  <2> QED BY <1>1, <2>3, <2>5
<1> QED BY <1>1, <1>3, <1>4, <1>5

LEMMA PrepareView ==
  ASSUME LinkInv, TxPrepare
  PROVE  /\ UNCHANGED <<next, txSeq, credits, sendSync, cs, synced, txIn, txReply,
                        receiverVars, taken, again, overruns, acked, restarts,
                        wasDown>>
         /\ txPhase' = "armed"
         /\ PendingNew' = PendingNew /\ Had' = Had /\ EffSeq' = EffSeq
         /\ Oldest' = Oldest \/ Oldest' \notin Had
         /\ txq' = <<>> => Oldest' = next
<1>1. /\ UNCHANGED <<next, txSeq, credits, sendSync, cs, synced, txIn, txReply,
                     receiverVars, taken, again, overruns, acked, restarts, wasDown>>
      /\ txPhase' = "armed"
  BY DEF TxPrepare
<1>2. PendingNew' = PendingNew /\ Had' = Had /\ EffSeq' = EffSeq
  BY <1>1 DEF PendingNew, Had, EffSeq, Duplicate, receiverVars
<1>3. Oldest' \in Int /\ Oldest' >= Oldest
  BY PrepareDrops
<1>4. Oldest' = Oldest \/ Oldest' \notin Had
  BY <1>3, HadBound
<1>5. txq' = <<>> => Oldest' = next
  BY <1>1, HadBound DEF Oldest
<1> QED BY <1>1, <1>2, <1>4, <1>5

(* Which frame a slot is armed with, and why.                               *)
LEMMA ArmedFrame ==
  ASSUME LinkInv, TxPrepare
  PROVE  /\ tx'.seq = txSeq /\ tx'.kind \in {"data", "header", "idle"}
         /\ tx'.kind = "data" => IsAvailable(credits) /\ ~HeldBack
         /\ tx'.kind = "header" =>
               \/ HeldBack
               \/ /\ ~IsAvailable(credits) \/ txq' = <<>> \/ ~synced
                  /\ (AutoSync /\ synced) \/ CreditFlow
<1>1. tx' = FrameFor(txq', SkippedAfterAsking(credits, skipped))
  BY DEF TxPrepare
<1> QED BY <1>1 DEF FrameFor, IsSkippedFramesExceed, HeaderFrame, DataFrame, IdleFrame

(* The slot: a new payload is pending when its number is not the one the    *)
(* receiver remembers.                                                      *)
LEMMA ExchangeView ==
  ASSUME LinkInv, Exchange
  PROVE  /\ UNCHANGED <<next, txq, txSeq, credits, sendSync, cs, synced, tx, rxq, rxSeq,
                        rxNode, reply, taken, again, overruns, acked, dropped,
                        restarts, wasDown>>
         /\ InSlot /\ rxPhase = "armed" /\ txPhase' = "event" /\ rxPhase' = "event"
         /\ Oldest' = Oldest /\ PendingNew = {} /\ Had = taken /\ EffSeq = rxSeq
         /\ Had' = Had \cup PendingNew'
<1>1. /\ UNCHANGED <<next, txq, txSeq, credits, sendSync, cs, synced, tx, rxq, rxSeq,
                     rxNode, reply, taken, again, overruns, acked, dropped,
                     restarts, wasDown>>
      /\ txPhase = "armed" /\ rxPhase = "armed" /\ txPhase' = "event"
      /\ rxPhase' = "event"
  BY DEF Exchange, ExchangeMissed, ExchangeReceived, historyVars
<1>2. rxIn.kind = "idle"
  BY <1>1 DEF LinkInv, RxInIdle
<1>3. PendingNew = {} /\ EffSeq = rxSeq
  BY <1>2 DEF PendingNew, EffSeq
<1> QED BY <1>1, <1>3 DEF InSlot, Oldest, Had

LEMMA MissedView ==
  ASSUME LinkInv, ExchangeMissed
  PROVE  /\ PendingNew' = {} /\ EffSeq' = EffSeq /\ rxIn'.kind = "idle"
         /\ txIn' \in {"wait", "lost"} /\ txReply' = txReply
<1>1. rxIn'.kind = "idle" /\ rxSeq' = rxSeq /\ txIn' \in {"wait", "lost"}
      /\ txReply' = txReply
  BY DEF ExchangeMissed, IdleFrame
<1>2. EffSeq = rxSeq
  BY ExchangeView DEF Exchange
<1> QED BY <1>1, <1>2 DEF PendingNew, EffSeq

LEMMA ReceivedView ==
  ASSUME LinkInv, NEW outcome \in {"ack", "ackNoReply", "lost"},
         ExchangeReceived(outcome)
  PROVE  /\ tx.kind \in {"data", "header"} /\ tx.seq \in SeqNum
         /\ EffSeq' = RxSeqNum(tx.seq) /\ rxIn' = tx
         /\ tx.kind = "header" => PendingNew' = {}
         /\ tx.kind = "data" =>
               /\ tx.id = Oldest
               /\ PendingNew' = IF tx.seq = EffSeq THEN {} ELSE {Oldest}
         /\ txIn' = "ack" => txReply' = reply
<1>1. /\ tx.kind # "idle" /\ rxIn' = tx /\ rxSeq' = rxSeq /\ txPhase = "armed"
      /\ txIn' = "ack" => txReply' = reply
  BY DEF ExchangeReceived
<1>2. tx \in Frame
  BY DEF LinkInv, TypeInv, TypeOK, SenderTypeOK
<1>3. tx.kind \in {"data", "header"} /\ tx.seq \in SeqNum
  BY <1>1, <1>2 DEF Frame
<1>4. EffSeq' = RxSeqNum(tx.seq)
  BY <1>1 DEF EffSeq
<1>5. EffSeq = rxSeq
  BY ExchangeView DEF Exchange
<1>6. tx.kind = "data" => tx.id = Oldest
  BY <1>1, HeadIsOldest DEF LinkInv, InSlot
<1>7. PendingNew' = IF tx.kind = "data" /\ tx.seq # rxSeq THEN {tx.id} ELSE {}
  BY <1>1 DEF PendingNew, Duplicate, IsRxFrameDuplicate
<1> QED BY <1>1, <1>3, <1>4, <1>5, <1>6, <1>7

(* The sender's callback: an acknowledged payload leaves the queue, and the *)
(* next one is new to the receiver.                                         *)
LEMMA CallbackView ==
  ASSUME LinkInv, TxCallback
  PROVE  /\ UNCHANGED <<next, synced, tx, txIn, txReply, receiverVars, taken, again,
                        overruns, restarts, dropped>>
         /\ txPhase = "event" /\ InSlot /\ txPhase' = "between"
         /\ cs' = NewStatus /\ wasDown' = (wasDown \/ BecomesDisconnected)
         /\ PendingNew' = PendingNew /\ Had' = Had /\ EffSeq' = EffSeq
         /\ Oldest' = (IF TxDataAcked THEN Oldest + 1 ELSE Oldest)
         /\ Oldest' # Oldest => Oldest' \notin Had
         /\ txSeq \in SeqNum
<1>1. /\ UNCHANGED <<next, synced, tx, txIn, txReply, receiverVars, taken, again,
                     overruns, restarts, dropped>>
      /\ txPhase = "event" /\ txPhase' = "between"
      /\ cs' = NewStatus /\ wasDown' = (wasDown \/ BecomesDisconnected)
  BY DEF TxCallback, TxDataAcked, TxDataLost, TxEmpty
<1>2. PendingNew' = PendingNew /\ Had' = Had /\ EffSeq' = EffSeq
  BY <1>1 DEF PendingNew, Had, EffSeq, Duplicate, receiverVars
<1>3. ASSUME TxDataAcked PROVE Oldest' = Oldest + 1 /\ Oldest' \notin Had
  <2>1. txq # <<>> /\ txq \in Seq(Msgs)
    BY <1>1, <1>3, HeadIsOldest, QueueTypes DEF TxDataAcked, InSlot, LinkInv
  <2>2. Len(txq') = Len(txq) - 1
    BY <1>3, <2>1, HeadInMsgs DEF TxDataAcked
  <2>3. Oldest' = Oldest + 1
    BY <1>1, <2>2, QueueTypes DEF Oldest, LinkInv
  <2>4. Oldest' \notin Had
    BY <2>3, HadBound
  <2> QED BY <2>3, <2>4
<1>4. ASSUME ~TxDataAcked PROVE Oldest' = Oldest
  BY <1>1, <1>4 DEF TxCallback, TxDataLost, TxEmpty, Oldest
<1>5. txSeq \in SeqNum
  BY DEF LinkInv, TypeInv, TypeOK, SenderTypeOK, SeqNum, TX_DEFAULT_SAW_INDEX
<1> QED BY <1>1, <1>2, <1>3, <1>4, <1>5 DEF InSlot

(* The sync frames and the status.  Only a good frame connects, so pending  *)
(* sync frames end with an acknowledged header.                             *)
LEMMA SyncView ==
  ASSUME LinkInv, TxCallback, ~BecomesDisconnected
  PROVE  /\ sendSync' => sendSync
         /\ ~TxEmpty => sendSync' = sendSync
         /\ cs.status = DISCONNECTED /\ ~Acknowledged =>
               sendSync' = sendSync /\ cs'.status = DISCONNECTED
         /\ sendSync' /\ SenderIsCoordinator /\ TxEmpty => cs'.status = DISCONNECTED
<1>1. SyncAfterStatus = sendSync
  BY DEF SyncAfterStatus
<1>2. NewStatus.status \in {CONNECTED, DISCONNECTED} /\ cs' = NewStatus
  BY NewStatusType DEF LinkInv, StatusRecord, TxCallback
<1>3. ~TxEmpty => sendSync' = sendSync
  BY <1>1 DEF TxCallback, TxDataAcked, TxDataLost
<1>4. TxEmpty => sendSync' = (sendSync /\ ~(SenderIsCoordinator /\ IsConnected(NewStatus)))
  BY <1>1 DEF TxEmpty
<1>5. sendSync \in BOOLEAN
  BY DEF LinkInv, TypeInv, TypeOK, SenderTypeOK
<1>6. cs.status = DISCONNECTED /\ ~Acknowledged => NewStatus.status = DISCONNECTED
  <2>1. ~Acknowledged => MainOutcome \in Outcome /\ MainOutcome # "good"
    BY DEF MainOutcome, Outcome, Acknowledged, LinkInv, TypeInv, TypeOK, SenderTypeOK
  <2>2. cs \in StatusRecord /\ synced \in BOOLEAN
    BY DEF LinkInv, TypeInv, TypeOK, SenderTypeOK
  <2> QED BY <2>1, <2>2, StaysDown DEF NewStatus
<1>7. ~IsConnected(NewStatus) <=> NewStatus.status = DISCONNECTED
  BY <1>2 DEF IsConnected, CONNECTED, DISCONNECTED
<1>8. TxEmpty => /\ sendSync' => sendSync
                 /\ sendSync' /\ SenderIsCoordinator => NewStatus.status = DISCONNECTED
                 /\ NewStatus.status = DISCONNECTED => sendSync' = sendSync
  BY <1>4, <1>5, <1>7, Zenon
<1>9. cs.status = DISCONNECTED /\ ~Acknowledged => sendSync' = sendSync
  BY <1>3, <1>6, <1>8, Zenon
<1>10. sendSync' => sendSync
  BY <1>3, <1>8, Zenon
<1>11. cs'.status = NewStatus.status
  BY <1>2
<1> QED BY <1>3, <1>6, <1>8, <1>9, <1>10, <1>11

(* The receiver's callback: what was pending becomes what is stored, or is  *)
(* refused.                                                                 *)
LEMMA ReceiveView ==
  ASSUME LinkInv, RxCallback
  PROVE  /\ UNCHANGED <<senderVars, rxNode, reply, acked, dropped, restarts, wasDown>>
         /\ rxPhase = "event" /\ rxPhase' = "between" /\ rxIn'.kind = "idle"
         /\ Oldest' = Oldest /\ EffSeq' = EffSeq /\ PendingNew' = {}
         /\ taken \subseteq taken' /\ taken' \subseteq Had
         /\ Had' \subseteq Had
         /\ again' \subseteq again \cup (PendingNew \cap taken)
         /\ taken' \cup overruns' = taken \cup overruns \cup PendingNew
<1>1. /\ UNCHANGED <<senderVars, rxNode, reply, acked, dropped, restarts, wasDown>>
      /\ rxPhase = "event" /\ rxPhase' = "between" /\ rxIn'.kind = "idle"
  BY DEF RxCallback, IdleFrame
<1>2. PendingNew' = {} /\ Oldest' = Oldest
  BY <1>1 DEF PendingNew, Oldest, senderVars
<1>3. EffSeq' = EffSeq
  BY <1>1 DEF RxCallback, RxMissed, RxInternal, RxStored, RxOverrun, EffSeq
<1>4. /\ taken \subseteq taken' /\ taken' \subseteq taken \cup PendingNew
      /\ again' \subseteq again \cup (PendingNew \cap taken)
      /\ taken' \cup overruns' = taken \cup overruns \cup PendingNew
  BY DEF RxCallback, RxMissed, RxInternal, RxStored, RxOverrun, PendingNew
<1> QED BY <1>1, <1>2, <1>3, <1>4 DEF Had

LEMMA InitLink == Init => LinkInv
<1> SUFFICES ASSUME Init PROVE LinkInv
  OBVIOUS
<1>1. RxInIdle /\ Submitted /\ IdleWaits
  BY DEF Init, RxInIdle, Submitted, IdleWaits, IdleFrame
<1> QED BY <1>1, InitType, InitOrder DEF LinkInv

(* Steps that leave the receiver's frame and the slot's outcome alone.      *)
LEMMA UntouchedLink ==
  ASSUME LinkInv, UNCHANGED <<next, rxIn, taken, tx, txIn>>,
         txPhase' = txPhase \/ txPhase' # "event",
         rxPhase' = rxPhase \/ rxIn.kind = "idle"
  PROVE  RxInIdle' /\ Submitted' /\ IdleWaits'
BY DEF LinkInv, RxInIdle, Submitted, IdleWaits, Acknowledged

LEMMA LinkStep == LinkInv /\ [Next]_vars => LinkInv'
<1> SUFFICES ASSUME LinkInv, [Next]_vars PROVE RxInIdle' /\ Submitted' /\ IdleWaits'
  BY NextType, NextOrder DEF LinkInv
<1>1. CASE Send
  <2>1. /\ UNCHANGED <<rxIn, taken, tx, txIn, txPhase, rxPhase>>
        /\ next' = next + 1
    BY <1>1, SendView DEF receiverVars, historyVars
  <2> QED BY <2>1, QueueTypes
          DEF LinkInv, RxInIdle, Submitted, IdleWaits, Acknowledged
<1>2. CASE TxPrepare
  <2>1. /\ UNCHANGED <<rxIn, taken, rxPhase, next>> /\ txPhase' = "armed"
    BY <1>2, PrepareView DEF receiverVars
  <2> QED BY <2>1 DEF LinkInv, RxInIdle, Submitted, IdleWaits
<1>3. CASE TxCallback
  <2>1. /\ UNCHANGED <<rxIn, taken, rxPhase, next, tx, txIn>> /\ txPhase' = "between"
    BY <1>3, CallbackView DEF receiverVars
  <2> QED BY <2>1, UntouchedLink
<1>4. CASE RxCallback
  <2>1. /\ UNCHANGED <<next, tx, txIn, txPhase>> /\ rxIn'.kind = "idle"
        /\ taken' \subseteq Had
    BY <1>4, ReceiveView DEF senderVars
  <2>2. \A old \in taken' : old < next
    BY <2>1, HadBound
  <2> QED BY <2>1, <2>2 DEF LinkInv, RxInIdle, Submitted, IdleWaits, Acknowledged
<1>5. CASE ExchangeMissed
  <2>1. UNCHANGED <<next, taken>> /\ rxPhase' = "event"
    BY <1>5, ExchangeView DEF Exchange
  <2>2. rxIn'.kind = "idle" /\ txIn' \in {"wait", "lost"}
    BY <1>5, MissedView
  <2> QED BY <2>1, <2>2 DEF LinkInv, RxInIdle, Submitted, IdleWaits, Acknowledged
<1>6. ASSUME NEW outcome \in {"ack", "ackNoReply", "lost"}, ExchangeReceived(outcome)
      PROVE  RxInIdle' /\ Submitted' /\ IdleWaits'
  <2>1. UNCHANGED <<next, taken, tx>> /\ rxPhase' = "event" /\ InSlot
    BY <1>6, ExchangeView DEF Exchange
  <2>2. rxIn' = tx /\ tx.kind # "idle" /\ (tx.kind = "data" => tx.id = Oldest)
    BY <1>6, ReceivedView
  <2>3. tx.kind = "data" => Oldest < next
    BY <2>1, HeadIsOldest, QueueTypes DEF LinkInv, Oldest
  <2> QED BY <2>1, <2>2, <2>3 DEF LinkInv, RxInIdle, Submitted, IdleWaits
<1>7. CASE ReadDone \/ TxFlushRequest \/ SyncChange \/ UNCHANGED vars
  <2>1. UNCHANGED <<next, rxIn, taken, tx, txIn, txPhase, rxPhase>>
    BY <1>7 DEF ReadDone, TxFlushRequest, SyncChange, vars, senderVars,
                receiverVars, historyVars
  <2> QED BY <2>1, UntouchedLink
<1>8. CASE RxPrepare \/ \E flush \in BOOLEAN : RxReconnect(flush)
  <2>1. UNCHANGED <<next, rxIn, taken, tx, txIn, txPhase>> /\ rxPhase # "event"
    BY <1>8 DEF RxPrepare, RxReconnect, senderVars, historyVars
  <2> QED BY <2>1, UntouchedLink DEF LinkInv, RxInIdle
<1>9. CASE \E flush \in BOOLEAN : TxReconnect(flush)
  <2>1. UNCHANGED <<next, rxIn, taken, tx, txIn, rxPhase>> /\ txPhase' = "between"
    BY <1>9 DEF TxReconnect, receiverVars
  <2> QED BY <2>1, UntouchedLink
<1> QED BY <1>1, <1>2, <1>3, <1>4, <1>5, <1>6, <1>7, <1>8, <1>9
        DEF Next, App, Sender, Receiver, Exchange

-----------------------------------------------------------------------------
(* A coordinator that starts with sync frames: nothing is stored twice      *)
(* while the link stays up.                                                 *)

SyncFirstMode == SenderIsCoordinator /\ TxSyncOnSyncing

(* Sync frames are sent until the link first connects, before any payload.  *)
SyncBeforeAll == sendSync => cs.status = DISCONNECTED /\ Had = {}

(* An acknowledged sync frame replaced the default number.                  *)
NumberSettled == ~sendSync => txSeq \in {0, 1}

(* Only a payload the receiver may have is tried with a payload: the        *)
(* headers that use up a number are sent when it does not have the oldest.  *)
ArmedUp ==
    InSlot => /\ tx.seq = txSeq
              /\ tx.kind = "data" => ~sendSync /\ IsAvailable(credits)
              /\ tx.kind = "header" => Oldest \notin Had

(* The oldest payload, if the receiver has it, will look like a duplicate,  *)
(* and there are credits to try it again.                                   *)
Recognised ==
    Oldest \in Had => ~sendSync /\ EffSeq = txSeq /\ IsAvailable(credits)

UpInv ==
    /\ synced /\ SyncBeforeAll /\ NumberSettled /\ ArmedUp /\ Recognised
    /\ PendingNew \cap taken = {} /\ again = {}

OnceInv == ~wasDown => UpInv

LEMMA InitOnce == SyncFirstMode /\ Init => OnceInv
<1> SUFFICES ASSUME SyncFirstMode, Init PROVE UpInv
  BY DEF OnceInv
<1>1. Had = {} /\ PendingNew = {}
  BY DEF Init, Had, PendingNew, IdleFrame
<1>2. synced /\ sendSync
  BY Zenon DEF Init, SyncFirstMode
<1> QED BY <1>1, <1>2
        DEF Init, StatusReset, UpInv, SyncBeforeAll, NumberSettled, ArmedUp, Recognised,
            InSlot

(* Steps outside the slot that leave the frame, the numbers and the         *)
(* payloads alone.                                                          *)
LEMMA UntouchedOnce ==
  ASSUME UpInv,
         UNCHANGED <<txSeq, credits, sendSync, cs, synced, txPhase, tx, taken, again>>,
         Oldest' = Oldest, PendingNew' = PendingNew, Had' = Had, EffSeq' = EffSeq
  PROVE  UpInv'
<1>1. IsAvailable(credits') = IsAvailable(credits)
  OBVIOUS
<1> QED BY <1>1 DEF UpInv, SyncBeforeAll, NumberSettled, ArmedUp, Recognised, InSlot,
                    IsAvailable

LEMMA PrepareOnce ==
  ASSUME SyncFirstMode, LinkInv, UpInv, TxPrepare PROVE UpInv'
<1>1. /\ UNCHANGED <<next, txSeq, credits, sendSync, cs, synced, taken, again>>
      /\ txPhase' = "armed"
      /\ PendingNew' = PendingNew /\ Had' = Had /\ EffSeq' = EffSeq
      /\ Oldest' = Oldest \/ Oldest' \notin Had
      /\ txq' = <<>> => Oldest' = next
  BY PrepareView
<1>2. SyncBeforeAll' /\ NumberSettled'
  BY <1>1 DEF UpInv, SyncBeforeAll, NumberSettled
<1>3. Recognised'
  BY <1>1 DEF UpInv, Recognised, IsAvailable
<1>4. tx'.kind = "data" => ~sendSync' /\ IsAvailable(credits')
  BY <1>1, ArmedFrame DEF HeldBack, SyncFirstMode, IsAvailable
<1>5. ASSUME tx'.kind = "header" PROVE Oldest' \notin Had'
  <2>1. sendSync \/ ~IsAvailable(credits) \/ txq' = <<>>
    BY <1>5, ArmedFrame DEF HeldBack, UpInv
  <2>2. sendSync => Oldest' \notin Had
    BY DEF UpInv, SyncBeforeAll
  <2>3. ~IsAvailable(credits) => Oldest' \notin Had
    BY <1>1 DEF UpInv, Recognised
  <2>4. txq' = <<>> => Oldest' \notin Had
    BY <1>1, HadBound
  <2> QED BY <1>1, <2>1, <2>2, <2>3, <2>4
<1>6. ArmedUp'
  BY <1>1, <1>4, <1>5, ArmedFrame DEF ArmedUp
<1> QED BY <1>1, <1>2, <1>3, <1>6 DEF UpInv

(* A payload received is either new or the oldest one again, whose number   *)
(* the receiver remembers.                                                  *)
LEMMA ExchangeOnce ==
  ASSUME LinkInv, UpInv, Exchange PROVE UpInv'
<1>1. /\ UNCHANGED <<txSeq, credits, sendSync, cs, synced, tx, taken, again>>
      /\ InSlot /\ InSlot' /\ Oldest' = Oldest /\ PendingNew = {} /\ Had = taken
      /\ Had' = Had \cup PendingNew'
  BY ExchangeView DEF InSlot
<1>2. NumberSettled'
  BY <1>1 DEF UpInv, NumberSettled
<1>3. CASE ExchangeMissed
  <2>1. PendingNew' = {} /\ EffSeq' = EffSeq /\ Had' = Had
    BY <1>1, <1>3, MissedView
  <2>2. SyncBeforeAll' /\ ArmedUp' /\ Recognised'
    BY <1>1, <2>1 DEF UpInv, SyncBeforeAll, ArmedUp, Recognised, IsAvailable
  <2> QED BY <1>1, <1>2, <2>1, <2>2 DEF UpInv
<1>4. ASSUME NEW outcome \in {"ack", "ackNoReply", "lost"}, ExchangeReceived(outcome)
      PROVE  UpInv'
  <2>1. /\ tx.kind \in {"data", "header"} /\ EffSeq' = RxSeqNum(tx.seq)
        /\ tx.seq = txSeq /\ tx' = tx
    BY <1>1, <1>4, ReceivedView DEF UpInv, ArmedUp
  <2>2. CASE tx.kind = "header"
    <3>1. PendingNew' = {} /\ Had' = Had /\ Oldest' \notin Had'
      BY <1>1, <1>4, <2>2, ReceivedView DEF UpInv, ArmedUp
    <3>2. SyncBeforeAll' /\ ArmedUp' /\ Recognised'
      BY <1>1, <2>1, <2>2, <3>1 DEF UpInv, SyncBeforeAll, ArmedUp, Recognised
    <3> QED BY <1>1, <1>2, <3>1, <3>2 DEF UpInv
  <2>3. CASE tx.kind = "data"
    <3>1. ~sendSync /\ IsAvailable(credits) /\ txSeq \in {0, 1}
      BY <1>1, <2>3 DEF UpInv, ArmedUp, NumberSettled
    <3>2. EffSeq' = txSeq
      BY <2>1, <3>1 DEF RxSeqNum, MaskedRxSeqNum
    <3>3. PendingNew' = IF txSeq = EffSeq THEN {} ELSE {Oldest}
      BY <1>4, <2>1, <2>3, ReceivedView
    <3>4. PendingNew' \cap taken' = {}
      BY <1>1, <3>3 DEF UpInv, Recognised
    <3>5. SyncBeforeAll' /\ ArmedUp' /\ Recognised'
      BY <1>1, <2>1, <2>3, <3>1, <3>2
         DEF SyncBeforeAll, ArmedUp, Recognised, IsAvailable
    <3> QED BY <1>1, <1>2, <3>4, <3>5 DEF UpInv
  <2> QED BY <2>1, <2>2, <2>3
<1> QED BY <1>3, <1>4 DEF Exchange

(* The sender's callback.  When the number moves on without a payload, the  *)
(* receiver does not have the oldest one.                                   *)
LEMMA CallbackOnce ==
  ASSUME SyncFirstMode, LinkInv, UpInv, TxCallback, ~BecomesDisconnected
  PROVE  UpInv'
<1>1. /\ UNCHANGED <<synced, tx, txIn, txReply, taken, again>>
      /\ txPhase = "event" /\ InSlot /\ ~InSlot'
      /\ PendingNew' = PendingNew /\ Had' = Had /\ EffSeq' = EffSeq
      /\ Oldest' = (IF TxDataAcked THEN Oldest + 1 ELSE Oldest)
      /\ Oldest' # Oldest => Oldest' \notin Had
      /\ txSeq \in SeqNum
  BY CallbackView DEF InSlot
<1>2. ArmedUp'
  BY <1>1 DEF ArmedUp
<1>3. CASE TxDataAcked
  <2>1. ~sendSync /\ ~sendSync'
    BY <1>1, <1>3, SyncView DEF TxDataAcked, UpInv, ArmedUp
  <2>2. NumberSettled'
    BY <1>1, <1>3, SawTypes DEF TxDataAcked, NumberSettled
  <2>3. Oldest' \notin Had'
    BY <1>1, <1>3, HadBound
  <2> QED BY <1>1, <1>2, <2>1, <2>2, <2>3 DEF UpInv, SyncBeforeAll, Recognised
<1>4. CASE TxDataLost
  <2>1. UNCHANGED <<txSeq, credits>> /\ ~sendSync /\ ~sendSync' /\ Oldest' = Oldest
    BY <1>1, <1>4, SyncView DEF TxDataLost, TxDataAcked, TxEmpty, UpInv, ArmedUp
  <2> QED BY <1>1, <1>2, <2>1
          DEF UpInv, SyncBeforeAll, NumberSettled, Recognised, IsAvailable
<1>5. CASE TxEmpty
  <2>1. /\ Oldest' = Oldest
        /\ txSeq' = IF Acknowledged THEN IncSeqNum(txSeq) ELSE txSeq
        /\ credits' = CreditsAfterReply(credits)
    BY <1>1, <1>5 DEF TxEmpty, TxDataAcked
  <2>2. SyncBeforeAll'
    BY <1>1, <1>5, SyncView DEF UpInv, SyncBeforeAll, SyncFirstMode
  <2>3. NumberSettled'
    <3>1. CASE Acknowledged
      BY <1>1, <2>1, <3>1, SawTypes DEF NumberSettled
    <3>2. CASE ~Acknowledged
      BY <2>1, <3>2, SyncView DEF UpInv, SyncBeforeAll, NumberSettled
    <3> QED BY <3>1, <3>2
  <2>4. Recognised'
    <3>1. CASE Acknowledged
      <4>1. tx.kind = "header"
        BY <1>1, <1>5, <3>1
           DEF LinkInv, IdleWaits, TxEmpty, TypeInv, TypeOK, SenderTypeOK, Frame
      <4>2. Oldest' \notin Had'
        BY <1>1, <2>1, <4>1 DEF UpInv, ArmedUp
      <4> QED BY <4>2 DEF Recognised
    <3>2. CASE ~Acknowledged
      <4>1. credits' = credits /\ txSeq' = txSeq
        BY <2>1, <3>2 DEF Acknowledged, CreditsAfterReply
      <4>2. sendSync' => sendSync
        BY SyncView
      <4> QED BY <1>1, <2>1, <4>1, <4>2 DEF UpInv, Recognised, IsAvailable
    <3> QED BY <3>1, <3>2
  <2> QED BY <1>1, <1>2, <2>2, <2>3, <2>4 DEF UpInv
<1> QED BY <1>3, <1>4, <1>5 DEF TxCallback

LEMMA ReceiveOnce ==
  ASSUME LinkInv, UpInv, RxCallback PROVE UpInv'
<1>1. /\ UNCHANGED <<txSeq, credits, sendSync, cs, synced, txPhase, tx>>
      /\ Oldest' = Oldest /\ EffSeq' = EffSeq /\ PendingNew' = {}
      /\ Had' \subseteq Had /\ again' \subseteq again \cup (PendingNew \cap taken)
  BY ReceiveView DEF senderVars
<1>2. SyncBeforeAll' /\ NumberSettled' /\ ArmedUp' /\ Recognised'
  BY <1>1 DEF UpInv, SyncBeforeAll, NumberSettled, ArmedUp, Recognised, InSlot,
              IsAvailable
<1> QED BY <1>1, <1>2 DEF UpInv

LEMMA NextOnce ==
  ASSUME SyncFirstMode, LinkInv, OnceInv, [Next]_vars PROVE OnceInv'
<1> SUFFICES ASSUME ~wasDown' PROVE UpInv'
  BY DEF OnceInv
<1>1. CASE \E flush \in BOOLEAN : TxReconnect(flush) \/ RxReconnect(flush)
  BY <1>1 DEF TxReconnect, RxReconnect
<1>2. CASE Send
  BY <1>2, SendView, UntouchedOnce DEF OnceInv, historyVars
<1>3. CASE TxPrepare
  BY <1>3, PrepareView, PrepareOnce DEF OnceInv
<1>4. CASE TxCallback
  BY <1>4, CallbackView, CallbackOnce DEF OnceInv
<1>5. CASE RxCallback
  BY <1>5, ReceiveView, ReceiveOnce DEF OnceInv
<1>6. CASE Exchange
  BY <1>6, ExchangeView, ExchangeOnce DEF OnceInv
<1>7. CASE SyncChange
  BY <1>7 DEF SyncChange, SyncFirstMode, SenderIsCoordinator
<1>8. CASE ReadDone \/ TxFlushRequest \/ RxPrepare \/ UNCHANGED vars
  <2>1. UNCHANGED <<next, txq, rxIn, rxSeq, txSeq, credits, sendSync, cs, synced,
                    txPhase, tx, taken, again, wasDown>>
    BY <1>8 DEF ReadDone, TxFlushRequest, RxPrepare, vars, senderVars,
                receiverVars, historyVars
  <2> QED BY <2>1, SameView, UntouchedOnce DEF OnceInv
<1> QED BY <1>1, <1>2, <1>3, <1>4, <1>5, <1>6, <1>7, <1>8
        DEF Next, App, Sender, Receiver

(* As long as the link stays up, a coordinator that starts with sync frames *)
(* has no payload stored twice, with or without auto-sync, credit flow      *)
(* control, deadlines and flushes: a payload whose acknowledgement was lost *)
(* is recognised, and no header-only frame moves the number in between.     *)
THEOREM StoredOnceWhileUp ==
  ASSUME SyncFirstMode PROVE Spec => []ExactlyOnceWhileUp
<1>1. Init => LinkInv /\ OnceInv
  BY InitLink, InitOnce
<1>2. LinkInv /\ OnceInv /\ [Next]_vars => (LinkInv /\ OnceInv)'
  BY LinkStep, NextOnce
<1>3. OnceInv => ExactlyOnceWhileUp
  BY DEF OnceInv, UpInv, ExactlyOnceWhileUp
<1> QED BY <1>1, <1>2, <1>3, PTL DEF Spec

-----------------------------------------------------------------------------
(* Credit flow control: nothing is refused while the link stays up.         *)

(* Nothing expires or is flushed, the receiver's nodes are its own.         *)
CreditMode ==
    /\ SyncFirstMode /\ CreditFlow /\ ~SharedRxPool
    /\ GuaranteedDelivery /\ ~UseTxFlush

PendingCount == IF PendingNew = {} THEN 0 ELSE 1

(* The payloads the receiver could store now.  A slot armed when the queue  *)
(* was full has no node, and stays without one when the application reads.  *)
Room ==
    IF rxPhase = "armed" /\ ~rxNode THEN 0
    ELSE RxQueueSize - Len(rxq) - PendingCount

RoomForPending ==
    Len(rxq) + PendingCount <= RxQueueSize /\ (PendingNew # {} => rxNode)

(* The sender's credits never exceed the room, except for one already spent *)
(* on the oldest payload when only its acknowledgement is missing.          *)
Spent == IF Oldest \in Had THEN 1 ELSE 0
CreditsCovered == credits - Spent <= Room

(* So do the credits on their way: in the acknowledgement that was received *)
(* and in the one that is armed, which keeps one back for the frame it      *)
(* answers.                                                                 *)
ReplyCovered == txPhase = "event" /\ txIn = "ack" => txReply <= Room
AdvertisedCovered == rxPhase = "armed" => reply = 0 \/ reply < Room

CreditUp ==
    /\ RoomForPending /\ CreditsCovered /\ ReplyCovered /\ AdvertisedCovered
    /\ overruns = {}

CreditInv == txFlush = FALSE /\ (~wasDown => CreditUp)

LEMMA CreditsTypes ==
  ASSUME LinkInv
  PROVE  /\ credits \in Nat /\ txReply \in Nat /\ reply \in Nat /\ RxQueueSize \in Nat
         /\ Len(rxq) \in Nat /\ PendingCount \in {0, 1} /\ Room \in Int
BY MacLinkAssumption
   DEF LinkInv, TypeInv, TypeOK, SenderTypeOK, ReceiverTypeOK, PendingCount, Room

LEMMA CreditsTypesNext ==
  ASSUME LinkInv'
  PROVE  /\ credits' \in Nat /\ txReply' \in Nat /\ reply' \in Nat
         /\ Len(rxq') \in Nat /\ PendingCount' \in {0, 1} /\ Room' \in Int
BY MacLinkAssumption
   DEF LinkInv, TypeInv, TypeOK, SenderTypeOK, ReceiverTypeOK, PendingCount, Room

LEMMA InitCredit == Init => CreditInv
<1> SUFFICES ASSUME Init PROVE txFlush = FALSE /\ CreditUp
  BY DEF CreditInv
<1>1. PendingNew = {} /\ PendingCount = 0 /\ Len(rxq) = 0
  BY DEF Init, PendingNew, PendingCount, IdleFrame
<1>2. Room = RxQueueSize /\ RxQueueSize \in Nat /\ RxQueueSize >= 2
  BY <1>1, MacLinkAssumption DEF Init, Room
<1>3. RoomForPending
  BY <1>1, <1>2 DEF RoomForPending
<1>4. CreditsCovered
  BY <1>2 DEF Init, InitCredits, CreditsCovered, Spent
<1>5. ReplyCovered /\ AdvertisedCovered /\ overruns = {} /\ txFlush = FALSE
  BY DEF Init, ReplyCovered, AdvertisedCovered
<1> QED BY <1>3, <1>4, <1>5 DEF CreditUp

(* Nothing leaves the queue when a slot is prepared.                        *)
LEMMA PrepareKeeps ==
  ASSUME CreditMode, LinkInv, txFlush = FALSE, TxPrepare PROVE txq' = txq
<1>1. TimeoutDrops = {0}
  BY DEF CreditMode, TimeoutDrops
<1>2. SubSeq(txq, 1, Len(txq)) = txq
  BY QueueTypes, SubSeqFull DEF LinkInv
<1> QED BY <1>1, <1>2 DEF TxPrepare, Kept, InTime, Flushes

(* More room, the same payloads and credits.                                *)
LEMMA RoomierCredit ==
  ASSUME LinkInv, LinkInv', CreditUp, RoomForPending', Room' >= Room,
         UNCHANGED <<credits, overruns>>, Oldest' = Oldest, Had' = Had,
         ReplyCovered', AdvertisedCovered'
  PROVE  CreditUp'
<1>1. CreditsCovered'
  <2>1. credits' = credits /\ credits \in Nat /\ Room \in Int /\ Room' \in Int
        /\ Spent' = Spent /\ Spent \in {0, 1}
    BY CreditsTypes, CreditsTypesNext DEF Spent
  <2>2. credits - Spent <= Room
    BY DEF CreditUp, CreditsCovered
  <2> QED BY <2>1, <2>2 DEF CreditsCovered
<1> QED BY <1>1 DEF CreditUp

LEMMA UntouchedCredit ==
  ASSUME LinkInv, LinkInv', CreditUp,
         UNCHANGED <<credits, txIn, txReply, rxq, rxNode, reply, rxPhase, overruns>>,
         txPhase' = txPhase \/ txPhase' # "event",
         Oldest' = Oldest, PendingNew' = PendingNew, Had' = Had
  PROVE  CreditUp'
<1>1. Room' = Room /\ RoomForPending'
  BY DEF CreditUp, Room, RoomForPending, PendingCount
<1>2. ReplyCovered' /\ AdvertisedCovered'
  BY <1>1 DEF CreditUp, ReplyCovered, AdvertisedCovered
<1> QED BY <1>1, <1>2, CreditsTypes, RoomierCredit

LEMMA ReadCredit ==
  ASSUME LinkInv, LinkInv', CreditUp, ReadDone PROVE CreditUp'
<1>1. UNCHANGED <<next, txq, rxIn, rxSeq, taken, credits, txPhase, txIn, txReply,
                  rxNode, reply, rxPhase, overruns>>
  BY DEF ReadDone, senderVars, historyVars
<1>2. Oldest' = Oldest /\ PendingNew' = PendingNew /\ Had' = Had
  BY <1>1, SameView
<1>3. Len(rxq') = Len(rxq) - 1
  BY HeadInMsgs DEF ReadDone, LinkInv, TypeInv, TypeOK, ReceiverTypeOK
<1>4. PendingCount' = PendingCount
  BY <1>2 DEF PendingCount
<1>5. RoomForPending'
  BY <1>1, <1>2, <1>3, <1>4, CreditsTypes DEF CreditUp, RoomForPending
<1>6. Room' >= Room /\ (rxPhase = "armed" /\ ~rxNode => Room' = Room)
  BY <1>1, <1>3, <1>4, CreditsTypes DEF Room
<1>7. ReplyCovered' /\ AdvertisedCovered'
  BY <1>1, <1>6, CreditsTypes, CreditsTypesNext
     DEF CreditUp, ReplyCovered, AdvertisedCovered
<1> QED BY <1>1, <1>2, <1>5, <1>6, <1>7, RoomierCredit

(* A slot is armed without a node only when there is no room.               *)
LEMMA RxPrepareCredit ==
  ASSUME CreditMode, LinkInv, LinkInv', CreditUp, RxPrepare PROVE CreditUp'
<1>1. /\ UNCHANGED <<next, txq, rxIn, rxSeq, taken, credits, txPhase, txIn, txReply,
                     rxq, overruns>>
      /\ rxPhase = "between" /\ rxPhase' = "armed"
      /\ reply' = Advertised(RxQueueSize - Len(rxq))
      /\ rxNode' <=> Len(rxq) < RxQueueSize
  BY DEF RxPrepare, FreeNode, CreditMode, senderVars, historyVars
<1>2. Oldest' = Oldest /\ PendingNew' = PendingNew /\ Had' = Had
  BY <1>1, SameView
<1>3. PendingNew = {}
  BY <1>1 DEF LinkInv, RxInIdle, PendingNew
<1>4. PendingCount = 0 /\ PendingCount' = 0
  BY <1>2, <1>3 DEF PendingCount
<1>5. RoomForPending'
  BY <1>1, <1>2, <1>3, <1>4 DEF CreditUp, RoomForPending
<1>6. Len(rxq) <= RxQueueSize
  BY <1>4, CreditsTypes DEF CreditUp, RoomForPending
<1>7. Room = RxQueueSize - Len(rxq) /\ Room' = RxQueueSize - Len(rxq)
  BY <1>1, <1>4, <1>6, CreditsTypes DEF Room
<1>8. AdvertisedCovered'
  BY <1>1, <1>6, <1>7, CreditsTypes
     DEF AdvertisedCovered, Advertised, CREDIT_FLOW_CONTROL_MAX_VALUE
<1>9. ReplyCovered'
  BY <1>1, <1>7 DEF CreditUp, ReplyCovered
<1> QED BY <1>1, <1>2, <1>5, <1>7, <1>8, <1>9, CreditsTypes, RoomierCredit

(* The slot.  A payload the receiver does not have is sent with a credit,   *)
(* so there is room and a node for it.                                      *)
LEMMA ExchangeCredit ==
  ASSUME CreditMode, LinkInv, LinkInv', UpInv, CreditUp, Exchange PROVE CreditUp'
<1>1. /\ UNCHANGED <<txSeq, credits, tx, rxq, rxNode, reply, taken, overruns>>
      /\ InSlot /\ rxPhase = "armed" /\ rxPhase' = "event" /\ txPhase' = "event"
      /\ Oldest' = Oldest /\ PendingNew = {} /\ Had' = Had \cup PendingNew'
  BY ExchangeView
<1>2. PendingCount = 0 /\ Len(rxq) <= RxQueueSize
  BY <1>1, CreditsTypes DEF PendingCount, CreditUp, RoomForPending
<1>3. /\ Room = IF rxNode THEN RxQueueSize - Len(rxq) ELSE 0
      /\ Room' = RxQueueSize - Len(rxq) - PendingCount'
      /\ PendingCount' = IF PendingNew' = {} THEN 0 ELSE 1
  BY <1>1, <1>2, CreditsTypes DEF Room, PendingCount
<1>4. AdvertisedCovered' /\ (reply = 0 \/ reply < Room)
  BY <1>1 DEF AdvertisedCovered, CreditUp
<1>5. txIn' = "ack" => txReply' = reply
  BY MissedView, ReceivedView DEF Exchange
<1>6. CASE PendingNew' = {}
  <2>1. Had' = Had /\ PendingCount' = 0 /\ Room' = RxQueueSize - Len(rxq)
    BY <1>1, <1>3, <1>6, CreditsTypes
  <2>2. RoomForPending'
    BY <1>1, <1>2, <1>6, <2>1, CreditsTypes DEF RoomForPending
  <2>3. Room' >= Room /\ Room' >= 0
    BY <1>2, <1>3, <2>1, CreditsTypes
  <2>4. ReplyCovered'
    BY <1>4, <1>5, <2>3, CreditsTypes, CreditsTypesNext DEF ReplyCovered
  <2> QED BY <1>1, <1>4, <2>1, <2>2, <2>3, <2>4, RoomierCredit
<1>7. CASE PendingNew' # {}
  <2>1. PICK outcome \in {"ack", "ackNoReply", "lost"} : ExchangeReceived(outcome)
    BY <1>7, MissedView DEF Exchange
  <2>2. tx.kind = "data" /\ tx.seq # EffSeq /\ PendingNew' = {Oldest}
    BY <1>7, <2>1, ReceivedView
  <2>3. Oldest \notin Had /\ IsAvailable(credits)
    BY <1>1, <2>2 DEF UpInv, ArmedUp, Recognised
  <2>4. credits > 0 /\ credits <= Room
    BY <2>3, CreditsTypes DEF CreditMode, IsAvailable, CreditUp, CreditsCovered, Spent
  <2>5. rxNode /\ Room' = Room - 1 /\ PendingCount' = 1 /\ Len(rxq) < RxQueueSize
    BY <1>3, <1>7, <2>4, CreditsTypes
  <2>6. RoomForPending'
    BY <1>1, <2>5, CreditsTypes DEF RoomForPending
  <2>7. CreditsCovered'
    <3>1. Spent' = 1
      BY <1>1, <2>2 DEF Spent
    <3> QED BY <1>1, <2>4, <2>5, <3>1, CreditsTypes DEF CreditsCovered
  <2>8. ReplyCovered'
    BY <1>4, <1>5, <2>4, <2>5, CreditsTypes DEF ReplyCovered
  <2> QED BY <1>1, <1>4, <2>6, <2>7, <2>8 DEF CreditUp
<1> QED BY <1>6, <1>7

(* A credit is spent when the payload is acknowledged; the credits received *)
(* replace the ones held.                                                   *)
LEMMA CallbackCredit ==
  ASSUME CreditMode, LinkInv, LinkInv', UpInv, CreditUp, TxCallback PROVE CreditUp'
<1>1. /\ UNCHANGED <<rxq, rxNode, reply, rxPhase, overruns>>
      /\ txPhase = "event" /\ InSlot /\ txPhase' = "between"
      /\ PendingNew' = PendingNew /\ Had' = Had
      /\ Oldest' = (IF TxDataAcked THEN Oldest + 1 ELSE Oldest)
      /\ Oldest' # Oldest => Oldest' \notin Had
  BY CallbackView DEF receiverVars
<1>2. Room' = Room /\ RoomForPending' /\ ReplyCovered' /\ AdvertisedCovered'
  BY <1>1 DEF CreditUp, Room, RoomForPending, PendingCount, ReplyCovered,
              AdvertisedCovered
<1>3. txIn = "ack" => txReply <= Room
  BY <1>1 DEF CreditUp, ReplyCovered
<1>4. Room >= 0
  BY CreditsTypes DEF CreditUp, RoomForPending, Room
<1>5. CASE TxDataAcked
  <2>1. credits' = IF txIn = "ack" THEN txReply ELSE CreditsAfterAck(credits)
    BY <1>5 DEF TxDataAcked, CreditsAfterReply, CreditMode
  <2>2. credits <= Room + 1
    BY CreditsTypes DEF CreditUp, CreditsCovered, Spent
  <2>3. CreditsAfterAck(credits) <= Room
    BY <1>4, <2>2, CreditsTypes DEF CreditsAfterAck
  <2>4. CreditsCovered'
    <3>1. Spent' \in {0, 1} /\ credits' <= Room
      BY <1>3, <2>1, <2>3 DEF Spent
    <3> QED BY <1>2, <3>1, CreditsTypes, CreditsTypesNext DEF CreditsCovered
  <2> QED BY <1>1, <1>2, <2>4 DEF CreditUp
<1>6. CASE TxDataLost \/ TxEmpty
  <2>1. /\ Oldest' = Oldest
        /\ credits' = credits \/ (txIn = "ack" /\ credits' = txReply)
    BY <1>1, <1>6 DEF TxDataLost, TxEmpty, TxDataAcked, CreditsAfterReply
  <2>2. CreditsCovered'
    <3>1. Spent' = Spent /\ Spent \in {0, 1}
      BY <1>1, <2>1 DEF Spent
    <3> QED BY <1>2, <1>3, <2>1, <3>1, CreditsTypes DEF CreditUp, CreditsCovered
  <2> QED BY <1>1, <1>2, <2>2 DEF CreditUp
<1> QED BY <1>5, <1>6 DEF TxCallback

(* The pending payload is stored.                                           *)
LEMMA ReceiveCredit ==
  ASSUME LinkInv, LinkInv', CreditUp, RxCallback PROVE CreditUp'
<1>1. /\ UNCHANGED <<credits, txPhase, txIn, txReply, rxNode>>
      /\ rxPhase = "event" /\ rxPhase' = "between"
      /\ Oldest' = Oldest /\ PendingNew' = {} /\ Had' \subseteq Had
      /\ taken \subseteq taken'
  BY ReceiveView DEF senderVars
<1>2. Room = RxQueueSize - Len(rxq) - PendingCount /\ PendingCount' = 0
      /\ Room' = RxQueueSize - Len(rxq')
  BY <1>1, CreditsTypes DEF Room, PendingCount
<1>3. ~RxOverrun
  <2> SUFFICES ASSUME RxOverrun PROVE FALSE
    OBVIOUS
  <2>1. PendingNew # {} /\ ~HasRoom
    BY DEF RxOverrun, PendingNew
  <2> QED BY <2>1, CreditsTypes DEF CreditUp, RoomForPending, PendingCount, HasRoom
<1>4. /\ overruns' = overruns /\ Room' = Room /\ Had \subseteq Had'
      /\ Len(rxq') <= RxQueueSize
  <2>1. CASE RxStored
    <3>1. PendingNew = {rxIn.id} /\ PendingCount = 1
      BY <2>1 DEF RxStored, PendingNew, PendingCount
    <3>2. Len(rxq') = Len(rxq) + 1
      <4>1. rxq \in Seq(Msgs) /\ rxIn.id \in Msgs
        BY <2>1 DEF RxStored, LinkInv, TypeInv, TypeOK, ReceiverTypeOK, Frame
      <4> QED BY <2>1, <4>1, AppendProperties DEF RxStored, Enqueue
    <3>3. Had \subseteq Had' /\ overruns' = overruns
      BY <2>1, <3>1 DEF RxStored, Had
    <3> QED BY <1>2, <3>1, <3>2, <3>3, CreditsTypes DEF CreditUp, RoomForPending
  <2>2. CASE RxMissed \/ RxInternal
    <3>1. PendingNew = {} /\ rxq' = rxq /\ overruns' = overruns /\ taken' = taken
      BY <2>2 DEF RxMissed, RxInternal, PendingNew
    <3>2. PendingCount = 0 /\ Had \subseteq Had'
      BY <3>1 DEF PendingCount, Had
    <3> QED BY <1>2, <3>1, <3>2, CreditsTypes DEF CreditUp, RoomForPending
  <2> QED BY <1>3, <2>1, <2>2 DEF RxCallback
<1>5. RoomForPending' /\ ReplyCovered' /\ AdvertisedCovered'
  BY <1>1, <1>2, <1>4, CreditsTypes
     DEF CreditUp, RoomForPending, ReplyCovered, AdvertisedCovered
<1>6. Had' = Had
  BY <1>1, <1>4
<1> QED BY <1>1, <1>4, <1>5, <1>6, CreditsTypes, RoomierCredit

LEMMA NextCredit ==
  ASSUME CreditMode, LinkInv, LinkInv', OnceInv, CreditInv, [Next]_vars
  PROVE  CreditInv'
<1>1. CASE \E flush \in BOOLEAN : TxReconnect(flush) \/ RxReconnect(flush)
  BY <1>1 DEF TxReconnect, RxReconnect, CreditInv, senderVars
<1>2. CASE Send
  <2>1. UNCHANGED <<credits, txPhase, txIn, txReply, rxq, rxNode, reply, rxPhase,
                    overruns, txFlush, wasDown>>
    BY <1>2 DEF Send, receiverVars, historyVars
  <2> QED BY <1>2, <2>1, SendView, UntouchedCredit DEF CreditInv
<1>3. CASE TxPrepare
  <2>1. txq' = txq /\ txFlush' = FALSE
    BY <1>3, PrepareKeeps DEF CreditInv, TxPrepare
  <2>2. /\ UNCHANGED <<next, credits, txIn, txReply, rxq, rxNode, reply, rxPhase,
                       overruns, wasDown>>
        /\ txPhase' = "armed" /\ PendingNew' = PendingNew /\ Had' = Had
    BY <1>3, PrepareView DEF receiverVars
  <2>3. Oldest' = Oldest
    BY <2>1, <2>2 DEF Oldest
  <2> QED BY <2>1, <2>2, <2>3, UntouchedCredit DEF CreditInv
<1>4. CASE TxCallback
  <2>1. txFlush' = FALSE
    BY <1>4 DEF CreditInv, TxCallback, TxDataAcked, TxDataLost, TxEmpty
  <2>2. ~wasDown' => ~wasDown
    BY <1>4, CallbackView
  <2> QED BY <1>4, <2>1, <2>2, CallbackCredit DEF CreditInv, OnceInv
<1>5. CASE RxCallback
  BY <1>5, ReceiveView, ReceiveCredit DEF CreditInv, senderVars
<1>6. CASE Exchange
  <2>1. txFlush' = txFlush
    BY <1>6 DEF Exchange, ExchangeMissed, ExchangeReceived
  <2> QED BY <1>6, <2>1, ExchangeView, ExchangeCredit DEF CreditInv, OnceInv
<1>7. CASE SyncChange \/ TxFlushRequest
  BY <1>7 DEF SyncChange, TxFlushRequest, CreditMode, SyncFirstMode, SenderIsCoordinator
<1>8. CASE ReadDone
  BY <1>8, ReadCredit DEF CreditInv, ReadDone, senderVars, historyVars
<1>9. CASE RxPrepare
  BY <1>9, RxPrepareCredit DEF CreditInv, RxPrepare, senderVars, historyVars
<1>10. CASE UNCHANGED vars
  <2>1. UNCHANGED <<next, txq, rxIn, rxSeq, taken, credits, txIn, txReply, rxq, rxNode,
                    reply, rxPhase, overruns, txPhase, txFlush, wasDown>>
    BY <1>10 DEF vars, senderVars, receiverVars, historyVars
  <2> QED BY <2>1, SameView, UntouchedCredit DEF CreditInv
<1> QED BY <1>1, <1>2, <1>3, <1>4, <1>5, <1>6, <1>7, <1>8, <1>9, <1>10
        DEF Next, App, Sender, Receiver

(* As long as the link stays up, a coordinator with credit flow control that *)
(* starts with sync frames never has a payload refused for want of an entry  *)
(* or a node, for every queue size: the credits it acts on, counted slots    *)
(* ago, never exceed the room that is left.                                 *)
THEOREM NoOverrunWithCredits ==
  ASSUME CreditMode PROVE Spec => []NoOverrunWhileUp
<1>1. Init => LinkInv /\ OnceInv /\ CreditInv
  BY InitLink, InitOnce, InitCredit DEF CreditMode
<1>2. LinkInv /\ OnceInv /\ CreditInv /\ [Next]_vars => (LinkInv /\ OnceInv /\ CreditInv)'
  BY LinkStep, NextOnce, NextCredit DEF CreditMode
<1>3. CreditInv => NoOverrunWhileUp
  BY DEF CreditInv, CreditUp, NoOverrunWhileUp
<1> QED BY <1>1, <1>2, <1>3, PTL DEF Spec

-----------------------------------------------------------------------------
(* Without sync frames: only a first payload is stored twice.               *)

(* A sender that never holds payloads back for sync frames, without the     *)
(* polls of credit flow control.                                            *)
NoSyncMode == (SenderIsNode \/ ~TxSyncOnSyncing) /\ ~CreditFlow

(* Every payload submitted before i has been dropped.                       *)
FirstAfterDrops(i) == \A j \in Int : 1 <= j /\ j < i => j \in dropped

(* Until a payload is acknowledged the sender has its default number, which *)
(* the receiver remembers as another one.                                   *)
DefaultNumber == txSeq = TX_DEFAULT_SAW_INDEX => FirstAfterDrops(Oldest)

ArmedFrameSeq ==
    InSlot => tx.seq = txSeq /\ (tx.kind = "header" => Oldest \notin Had)

RecognisedLater ==
    Oldest \in Had /\ txSeq # TX_DEFAULT_SAW_INDEX => EffSeq = txSeq

RepeatedInv ==
    /\ DefaultNumber /\ ArmedFrameSeq /\ RecognisedLater
    /\ \A i \in PendingNew \cap taken : FirstAfterDrops(i)
    /\ \A i \in again : FirstAfterDrops(i)

FirstInv == ~sendSync /\ (restarts = 0 => RepeatedInv)

LEMMA InitFirst == NoSyncMode /\ Init => FirstInv
<1> SUFFICES ASSUME NoSyncMode, Init PROVE ~sendSync /\ RepeatedInv
  BY DEF FirstInv
<1>1. ~sendSync
  BY Zenon DEF Init, NoSyncMode, SenderIsCoordinator
<1>2. Had = {} /\ PendingNew = {} /\ Oldest = 1
  BY DEF Init, Had, PendingNew, IdleFrame, Oldest
<1>3. FirstAfterDrops(1)
  BY DEF FirstAfterDrops
<1>4. DefaultNumber /\ ArmedFrameSeq /\ RecognisedLater
  BY <1>2, <1>3 DEF Init, DefaultNumber, ArmedFrameSeq, RecognisedLater, InSlot
<1>5. again = {}
  BY DEF Init
<1> QED BY <1>1, <1>2, <1>4, <1>5 DEF RepeatedInv

(* Sync frames are never asked for.                                         *)
LEMMA NeverSync ==
  ASSUME NoSyncMode, ~sendSync, [Next]_vars PROVE ~sendSync'
<1>1. CASE TxCallback
  <2>1. ~SyncAfterStatus
    BY DEF SyncAfterStatus, NoSyncMode, SenderIsCoordinator
  <2> QED BY <1>1, <2>1 DEF TxCallback, TxDataAcked, TxDataLost, TxEmpty
<1>2. CASE \E flush \in BOOLEAN : TxReconnect(flush)
  BY <1>2 DEF TxReconnect, NoSyncMode, SenderIsCoordinator
<1>3. CASE UNCHANGED sendSync
  BY <1>3
<1>4. \/ TxCallback \/ \E flush \in BOOLEAN : TxReconnect(flush)
      \/ UNCHANGED sendSync
  BY DEF Next, App, Sender, Receiver, Send, ReadDone, TxFlushRequest, SyncChange,
         TxPrepare, RxPrepare, RxCallback, RxReconnect, Exchange, ExchangeMissed,
         ExchangeReceived, vars, senderVars
<1> QED BY <1>1, <1>2, <1>3, <1>4

LEMMA UntouchedRepeated ==
  ASSUME RepeatedInv, UNCHANGED <<txSeq, txPhase, tx, taken, again, dropped>>,
         Oldest' = Oldest, PendingNew' = PendingNew, Had' = Had, EffSeq' = EffSeq
  PROVE  RepeatedInv'
<1>1. DefaultNumber'
  BY DEF RepeatedInv, DefaultNumber, FirstAfterDrops
<1>2. ArmedFrameSeq' /\ RecognisedLater'
  BY DEF RepeatedInv, ArmedFrameSeq, RecognisedLater, InSlot
<1> QED BY <1>1, <1>2 DEF RepeatedInv, FirstAfterDrops

(* What is dropped stays dropped.                                           *)
LEMMA DropsGrow ==
  ASSUME dropped \subseteq dropped', NEW i, FirstAfterDrops(i)
  PROVE  FirstAfterDrops(i)'
BY DEF FirstAfterDrops

LEMMA PrepareRepeated ==
  ASSUME NoSyncMode, LinkInv, ~sendSync, RepeatedInv, TxPrepare PROVE RepeatedInv'
<1>1. /\ UNCHANGED <<next, txSeq, taken, again>> /\ txPhase' = "armed"
      /\ PendingNew' = PendingNew /\ Had' = Had /\ EffSeq' = EffSeq
      /\ Oldest' = Oldest \/ Oldest' \notin Had
      /\ txq' = <<>> => Oldest' = next
  BY PrepareView
<1>2. /\ Oldest' \in Int /\ Oldest' >= Oldest /\ Oldest \in Int
      /\ dropped \subseteq dropped'
      /\ \A j \in Int : Oldest <= j /\ j < Oldest' => j \in dropped'
  BY PrepareDrops, HadBound
<1>3. ASSUME FirstAfterDrops(Oldest) PROVE \A j \in Int : 1 <= j /\ j < Oldest' => j \in dropped'
  BY <1>2, <1>3 DEF FirstAfterDrops
<1>4. DefaultNumber'
  BY <1>1, <1>3 DEF RepeatedInv, DefaultNumber, FirstAfterDrops
<1>5. ASSUME tx'.kind = "header" PROVE Oldest' \notin Had'
  <2>1. txq' = <<>>
    BY <1>5, ArmedFrame DEF HeldBack, NoSyncMode, IsAvailable
  <2> QED BY <1>1, <2>1, HadBound
<1>6. ArmedFrameSeq'
  BY <1>1, <1>5, ArmedFrame DEF ArmedFrameSeq
<1>7. RecognisedLater'
  BY <1>1 DEF RepeatedInv, RecognisedLater
<1>8. /\ \A i \in PendingNew' \cap taken' : FirstAfterDrops(i)'
      /\ \A i \in again' : FirstAfterDrops(i)'
  BY <1>1, <1>2, DropsGrow DEF RepeatedInv
<1> QED BY <1>4, <1>6, <1>7, <1>8 DEF RepeatedInv, FirstAfterDrops

LEMMA ExchangeRepeated ==
  ASSUME LinkInv, RepeatedInv, Exchange PROVE RepeatedInv'
<1>1. /\ UNCHANGED <<txSeq, tx, taken, again, dropped>>
      /\ InSlot /\ InSlot' /\ Oldest' = Oldest /\ PendingNew = {} /\ Had = taken
      /\ Had' = Had \cup PendingNew'
  BY ExchangeView DEF InSlot
<1>2. DefaultNumber' /\ \A i \in again' : FirstAfterDrops(i)'
  BY <1>1 DEF RepeatedInv, DefaultNumber, FirstAfterDrops
<1>3. CASE ExchangeMissed
  <2>1. PendingNew' = {} /\ EffSeq' = EffSeq /\ Had' = Had
    BY <1>1, <1>3, MissedView
  <2>2. ArmedFrameSeq' /\ RecognisedLater'
    BY <1>1, <2>1 DEF RepeatedInv, ArmedFrameSeq, RecognisedLater
  <2> QED BY <1>2, <2>1, <2>2 DEF RepeatedInv, FirstAfterDrops
<1>4. ASSUME NEW outcome \in {"ack", "ackNoReply", "lost"}, ExchangeReceived(outcome)
      PROVE  RepeatedInv'
  <2>1. /\ tx.kind \in {"data", "header"} /\ EffSeq' = RxSeqNum(tx.seq)
        /\ tx.seq = txSeq /\ tx' = tx
    BY <1>1, <1>4, ReceivedView DEF RepeatedInv, ArmedFrameSeq
  <2>2. CASE tx.kind = "header"
    <3>1. PendingNew' = {} /\ Had' = Had /\ Oldest' \notin Had'
      BY <1>1, <1>4, <2>2, ReceivedView DEF RepeatedInv, ArmedFrameSeq
    <3>2. ArmedFrameSeq' /\ RecognisedLater'
      BY <1>1, <2>1, <2>2, <3>1 DEF ArmedFrameSeq, RecognisedLater
    <3> QED BY <1>2, <3>1, <3>2 DEF RepeatedInv, FirstAfterDrops
  <2>3. CASE tx.kind = "data"
    <3>1. PendingNew' = IF txSeq = EffSeq THEN {} ELSE {Oldest}
      BY <1>4, <2>1, <2>3, ReceivedView
    <3>2. \A i \in PendingNew' \cap taken' : FirstAfterDrops(i)'
      <4> SUFFICES ASSUME NEW i \in PendingNew' \cap taken' PROVE FirstAfterDrops(i)'
        OBVIOUS
      <4>1. i = Oldest /\ Oldest \in Had /\ txSeq # EffSeq
        BY <1>1, <3>1
      <4>2. FirstAfterDrops(Oldest)
        BY <4>1 DEF RepeatedInv, RecognisedLater, DefaultNumber
      <4> QED BY <1>1, <4>1, <4>2, DropsGrow
    <3>3. txSeq # TX_DEFAULT_SAW_INDEX => RxSeqNum(txSeq) = txSeq
      BY DEF LinkInv, TypeInv, TypeOK, SenderTypeOK, RxSeqNum, MaskedRxSeqNum
    <3>4. ArmedFrameSeq' /\ RecognisedLater'
      BY <1>1, <2>1, <2>3, <3>3 DEF ArmedFrameSeq, RecognisedLater
    <3> QED BY <1>2, <3>2, <3>4 DEF RepeatedInv, FirstAfterDrops
  <2> QED BY <2>1, <2>2, <2>3
<1> QED BY <1>3, <1>4 DEF Exchange

LEMMA CallbackRepeated ==
  ASSUME LinkInv, RepeatedInv, TxCallback PROVE RepeatedInv'
<1>1. /\ UNCHANGED <<tx, txIn, taken, again, dropped>>
      /\ txPhase = "event" /\ InSlot /\ ~InSlot'
      /\ PendingNew' = PendingNew /\ Had' = Had /\ EffSeq' = EffSeq
      /\ Oldest' = (IF TxDataAcked THEN Oldest + 1 ELSE Oldest)
      /\ Oldest' # Oldest => Oldest' \notin Had
      /\ txSeq \in SeqNum
  BY CallbackView DEF InSlot
<1>2. /\ ArmedFrameSeq'
      /\ \A i \in PendingNew' \cap taken' : FirstAfterDrops(i)'
      /\ \A i \in again' : FirstAfterDrops(i)'
  BY <1>1 DEF RepeatedInv, ArmedFrameSeq, FirstAfterDrops
<1>3. IncSeqNum(txSeq) # TX_DEFAULT_SAW_INDEX
  BY <1>1, SawTypes DEF TX_DEFAULT_SAW_INDEX
<1>4. CASE TxDataAcked
  <2>1. txSeq' = IncSeqNum(txSeq) /\ Oldest' \notin Had'
    BY <1>1, <1>4, HadBound DEF TxDataAcked
  <2>2. DefaultNumber' /\ RecognisedLater'
    BY <1>3, <2>1 DEF DefaultNumber, RecognisedLater
  <2> QED BY <1>2, <2>2 DEF RepeatedInv, FirstAfterDrops
<1>5. CASE TxDataLost \/ (TxEmpty /\ ~Acknowledged)
  <2>1. txSeq' = txSeq /\ Oldest' = Oldest
    BY <1>1, <1>5 DEF TxDataLost, TxEmpty, TxDataAcked
  <2>2. DefaultNumber' /\ RecognisedLater'
    BY <1>1, <2>1 DEF RepeatedInv, DefaultNumber, FirstAfterDrops, RecognisedLater
  <2> QED BY <1>2, <2>2 DEF RepeatedInv, FirstAfterDrops
<1>6. CASE TxEmpty /\ Acknowledged
  <2>1. txSeq' = IncSeqNum(txSeq) /\ Oldest' = Oldest
    BY <1>1, <1>6 DEF TxEmpty, TxDataAcked
  <2>2. tx.kind = "header"
    BY <1>1, <1>6
       DEF LinkInv, IdleWaits, TxEmpty, TypeInv, TypeOK, SenderTypeOK, Frame
  <2>3. Oldest' \notin Had'
    BY <1>1, <2>1, <2>2 DEF RepeatedInv, ArmedFrameSeq
  <2>4. DefaultNumber' /\ RecognisedLater'
    BY <1>3, <2>1, <2>3 DEF DefaultNumber, RecognisedLater
  <2> QED BY <1>2, <2>4 DEF RepeatedInv, FirstAfterDrops
<1> QED BY <1>4, <1>5, <1>6 DEF TxCallback

LEMMA ReceiveRepeated ==
  ASSUME LinkInv, RepeatedInv, RxCallback PROVE RepeatedInv'
<1>1. /\ UNCHANGED <<txSeq, txPhase, tx, dropped>>
      /\ Oldest' = Oldest /\ EffSeq' = EffSeq /\ PendingNew' = {}
      /\ Had' \subseteq Had /\ again' \subseteq again \cup (PendingNew \cap taken)
  BY ReceiveView DEF senderVars
<1>2. DefaultNumber'
  BY <1>1 DEF RepeatedInv, DefaultNumber, FirstAfterDrops
<1>3. ArmedFrameSeq' /\ RecognisedLater'
  BY <1>1 DEF RepeatedInv, ArmedFrameSeq, RecognisedLater, InSlot
<1>4. \A i \in again' : FirstAfterDrops(i)'
  BY <1>1, DropsGrow DEF RepeatedInv
<1> QED BY <1>1, <1>2, <1>3, <1>4 DEF RepeatedInv, FirstAfterDrops

LEMMA NextFirst ==
  ASSUME NoSyncMode, LinkInv, FirstInv, [Next]_vars PROVE FirstInv'
<1>1. ~sendSync'
  BY NeverSync DEF FirstInv
<1> SUFFICES ASSUME restarts' = 0 PROVE RepeatedInv'
  BY <1>1 DEF FirstInv
<1>2. CASE \E flush \in BOOLEAN : TxReconnect(flush) \/ RxReconnect(flush)
  <2>1. restarts \in Nat /\ restarts' = restarts + 1
    BY <1>2, MacLinkAssumption
       DEF TxReconnect, RxReconnect, LinkInv, TypeInv, TypeOK, HistoryTypeOK
  <2> QED BY <2>1
<1>3. CASE Send
  BY <1>3, SendView, UntouchedRepeated DEF FirstInv, historyVars
<1>4. CASE TxPrepare
  BY <1>4, PrepareView, PrepareRepeated DEF FirstInv
<1>5. CASE TxCallback
  BY <1>5, CallbackView, CallbackRepeated DEF FirstInv
<1>6. CASE RxCallback
  BY <1>6, ReceiveView, ReceiveRepeated DEF FirstInv
<1>7. CASE Exchange
  BY <1>7, ExchangeView, ExchangeRepeated DEF FirstInv
<1>8. CASE ReadDone \/ TxFlushRequest \/ SyncChange \/ RxPrepare \/ UNCHANGED vars
  <2>1. UNCHANGED <<next, txq, rxIn, rxSeq, txSeq, txPhase, tx, taken, again, dropped,
                    restarts>>
    BY <1>8 DEF ReadDone, TxFlushRequest, SyncChange, RxPrepare, vars, senderVars,
                receiverVars, historyVars
  <2> QED BY <2>1, SameView, UntouchedRepeated DEF FirstInv
<1> QED BY <1>2, <1>3, <1>4, <1>5, <1>6, <1>7, <1>8
        DEF Next, App, Sender, Receiver

(* Without sync frames and credit flow control, in every other              *)
(* configuration, a payload is stored twice only if every payload submitted *)
(* before it was dropped: it is the first to get through, with the default  *)
(* number that the receiver remembers as another one.                       *)
THEOREM OnlyFirstStoredTwice ==
  ASSUME NoSyncMode PROVE Spec => []OnlyFirstRepeated
<1>1. Init => LinkInv /\ FirstInv
  BY InitLink, InitFirst
<1>2. LinkInv /\ FirstInv /\ [Next]_vars => (LinkInv /\ FirstInv)'
  BY LinkStep, NextFirst
<1>3. LinkInv /\ FirstInv => OnlyFirstRepeated
  <2> SUFFICES ASSUME LinkInv, FirstInv, restarts = 0, NEW i \in again
               PROVE  1..(i - 1) \subseteq dropped
    BY DEF OnlyFirstRepeated
  <2>1. FirstAfterDrops(i) /\ i \in Nat
    BY DEF FirstInv, RepeatedInv, LinkInv, TypeInv, TypeOK, HistoryTypeOK, Msgs
  <2> QED BY <2>1 DEF FirstAfterDrops
<1> QED BY <1>1, <1>2, <1>3, PTL DEF Spec

-----------------------------------------------------------------------------
(* Deadlines, flushes and reconnections: only the payload behind a dropped  *)
(* one can be acknowledged and lost.                                        *)

(* No header-only frames but the sync frames.                               *)
PlainMode == ~AutoSync /\ ~CreditFlow

(* A payload the receiver never had looks new to it, unless it inherits the *)
(* number of a payload that was just dropped.                               *)
FreshUnlessBehindDrop ==
    Oldest \notin Reached => EffSeq # txSeq \/ sendSync \/ Oldest - 1 \in dropped

(* What an acknowledgement means.                                           *)
AckMeans ==
    txPhase = "event" /\ Acknowledged =>
        /\ EffSeq \in {RxSeqNum(tx.seq), RX_DEFAULT_SAW_INDEX}
        /\ tx.kind = "data" => tx.id \in Reached \/ tx.id - 1 \in dropped

DropInv ==
    /\ SyncWhileDown /\ SlotFrame /\ AckMeans /\ FreshUnlessBehindDrop
    /\ LossOnlyAfterDrop

LEMMA ReachedView ==
  ASSUME UNCHANGED <<rxIn, rxSeq, taken, overruns>> PROVE Reached' = Reached
BY DEF Reached, PendingNew, Duplicate

LEMMA InitDrop == Init => DropInv
<1> SUFFICES ASSUME Init PROVE DropInv
  OBVIOUS
<1>1. sendSync => SenderIsCoordinator /\ TxSyncOnSyncing
  BY Zenon DEF Init
<1>2. EffSeq # txSeq
  BY DEF Init, EffSeq, IdleFrame, TX_DEFAULT_SAW_INDEX, RX_DEFAULT_SAW_INDEX
<1> QED BY <1>1, <1>2
        DEF Init, DropInv, SyncWhileDown, SlotFrame, AckMeans, FreshUnlessBehindDrop,
            LossOnlyAfterDrop, InSlot, StatusReset

(* Steps that change neither the slot nor the numbers nor the payloads.     *)
LEMMA UntouchedDrop ==
  ASSUME DropInv,
         UNCHANGED <<txSeq, sendSync, cs, txPhase, tx, txIn, acked, dropped>>,
         Oldest' = Oldest, EffSeq' = EffSeq, Reached \subseteq Reached'
  PROVE  DropInv'
<1>1. SyncWhileDown' /\ SlotFrame'
  BY DEF DropInv, SyncWhileDown, SlotFrame, InSlot
<1>2. AckMeans'
  BY DEF DropInv, AckMeans, Acknowledged
<1>3. FreshUnlessBehindDrop' /\ LossOnlyAfterDrop'
  BY DEF DropInv, FreshUnlessBehindDrop, LossOnlyAfterDrop
<1> QED BY <1>1, <1>2, <1>3 DEF DropInv

LEMMA PrepareDrop ==
  ASSUME PlainMode, LinkInv, DropInv, TxPrepare PROVE DropInv'
<1>1. /\ UNCHANGED <<rxIn, rxSeq, taken, overruns, txSeq, sendSync, cs, acked>>
      /\ txPhase' = "armed" /\ EffSeq' = EffSeq
  BY PrepareView DEF receiverVars
<1>2. Reached' = Reached
  BY <1>1, ReachedView
<1>3. /\ Oldest \in Int /\ Oldest' \in Int /\ dropped \subseteq dropped'
      /\ Oldest' = Oldest \/ Oldest' - 1 \in dropped'
  <2>1. Oldest \in Int
    BY HadBound
  <2>2. Oldest' > Oldest => Oldest <= Oldest' - 1 /\ Oldest' - 1 < Oldest'
    BY <2>1, PrepareDrops
  <2> QED BY <2>1, <2>2, PrepareDrops
<1>4. SlotFrame'
  <2>1. tx'.kind = "header" => HeldBack
    BY ArmedFrame DEF PlainMode
  <2>2. ~HeldBack => ~sendSync
    BY DEF HeldBack, DropInv, SyncWhileDown
  <2> QED BY <1>1, <2>1, <2>2, ArmedFrame DEF SlotFrame, HeldBack
<1>5. SyncWhileDown' /\ AckMeans'
  BY <1>1 DEF DropInv, SyncWhileDown, AckMeans
<1>6. FreshUnlessBehindDrop' /\ LossOnlyAfterDrop'
  BY <1>1, <1>2, <1>3 DEF DropInv, FreshUnlessBehindDrop, LossOnlyAfterDrop
<1> QED BY <1>4, <1>5, <1>6 DEF DropInv

LEMMA ExchangeDrop ==
  ASSUME LinkInv, DropInv, Exchange PROVE DropInv'
<1>1. /\ UNCHANGED <<txSeq, sendSync, cs, tx, taken, overruns, acked, dropped>>
      /\ InSlot /\ Oldest' = Oldest /\ PendingNew = {}
  BY ExchangeView
<1>2. Reached = taken \cup overruns /\ Reached' = Reached \cup PendingNew'
  BY <1>1 DEF Reached
<1>3. SyncWhileDown' /\ SlotFrame' /\ LossOnlyAfterDrop'
  BY <1>1, <1>2 DEF DropInv, SyncWhileDown, SlotFrame, LossOnlyAfterDrop, InSlot
<1>4. CASE ExchangeMissed
  <2>1. EffSeq' = EffSeq /\ txIn' \in {"wait", "lost"}
    BY <1>4, MissedView
  <2>2. AckMeans' /\ FreshUnlessBehindDrop'
    BY <1>1, <1>2, <2>1
       DEF DropInv, AckMeans, Acknowledged, FreshUnlessBehindDrop
  <2> QED BY <1>3, <2>2 DEF DropInv
<1>5. ASSUME NEW outcome \in {"ack", "ackNoReply", "lost"}, ExchangeReceived(outcome)
      PROVE  DropInv'
  <2>1. /\ tx.kind \in {"data", "header"} /\ EffSeq' = RxSeqNum(tx.seq)
        /\ tx.seq = txSeq /\ tx' = tx
    BY <1>1, <1>5, ReceivedView DEF DropInv, SlotFrame
  <2>2. CASE tx.kind = "data"
    <3>1. tx.id = Oldest /\ PendingNew' = (IF tx.seq = EffSeq THEN {} ELSE {Oldest})
      BY <1>5, <2>2, ReceivedView
    <3>2. ~sendSync
      BY <1>1, <2>2 DEF DropInv, SlotFrame
    <3>3. Oldest \in Reached' \/ Oldest - 1 \in dropped
      BY <1>2, <2>1, <3>1, <3>2 DEF DropInv, FreshUnlessBehindDrop
    <3>4. AckMeans'
      BY <1>1, <2>1, <3>1, <3>3 DEF AckMeans
    <3>5. FreshUnlessBehindDrop'
      BY <1>1, <3>3 DEF FreshUnlessBehindDrop
    <3> QED BY <1>3, <3>4, <3>5 DEF DropInv
  <2>3. CASE tx.kind = "header"
    <3>1. sendSync
      BY <1>1, <2>3 DEF DropInv, SlotFrame
    <3>2. AckMeans' /\ FreshUnlessBehindDrop'
      BY <1>1, <2>1, <2>3, <3>1 DEF AckMeans, FreshUnlessBehindDrop
    <3> QED BY <1>3, <3>2 DEF DropInv
  <2> QED BY <2>1, <2>2, <2>3
<1> QED BY <1>4, <1>5 DEF Exchange

(* The sender's callback: an acknowledged number moves away from the one    *)
(* the receiver remembers, and pending sync frames outlive the others.      *)
LEMMA CallbackDrop ==
  ASSUME LinkInv, DropInv, TxCallback PROVE DropInv'
<1>1. /\ UNCHANGED <<rxIn, rxSeq, taken, overruns, dropped>>
      /\ txPhase = "event" /\ InSlot /\ txPhase' = "between" /\ ~InSlot'
      /\ EffSeq' = EffSeq /\ cs' = NewStatus /\ txSeq \in SeqNum
      /\ Oldest' = (IF TxDataAcked THEN Oldest + 1 ELSE Oldest)
  BY CallbackView DEF InSlot, receiverVars
<1>2. Reached' = Reached
  BY <1>1, ReachedView
<1>3. SlotFrame' /\ AckMeans'
  BY <1>1 DEF SlotFrame, AckMeans
<1>4. Acknowledged => EffSeq # IncSeqNum(txSeq)
  BY <1>1, SawAlternates DEF DropInv, AckMeans, SlotFrame
<1>5. BecomesDisconnected => cs'.status = DISCONNECTED /\ cs.status = CONNECTED
  BY <1>1 DEF BecomesDisconnected
<1>6. SyncWhileDown'
  <2>1. CASE BecomesDisconnected
    <3>1. sendSync' => SyncAfterStatus
      BY DEF TxCallback, TxDataAcked, TxDataLost, TxEmpty
    <3>2. sendSync => SenderIsCoordinator /\ TxSyncOnSyncing
      BY DEF DropInv, SyncWhileDown
    <3>3. SyncAfterStatus => SenderIsCoordinator /\ TxSyncOnSyncing
      BY <2>1, <3>2 DEF SyncAfterStatus
    <3> QED BY <1>5, <2>1, <3>1, <3>3 DEF SyncWhileDown
  <2>2. CASE ~BecomesDisconnected
    <3>1. tx.kind = "data" => ~sendSync
      BY <1>1 DEF DropInv, SlotFrame
    <3>2. sendSync' => sendSync /\ TxEmpty
      BY <2>2, <3>1, SyncView DEF TxCallback, TxDataAcked, TxDataLost
    <3> QED BY <2>2, <3>2, SyncView DEF DropInv, SyncWhileDown
  <2> QED BY <2>1, <2>2
<1>7. ~Acknowledged => (sendSync => sendSync')
  <2> SUFFICES ASSUME ~Acknowledged, sendSync PROVE sendSync'
    OBVIOUS
  <2>1. cs.status = DISCONNECTED
    BY DEF DropInv, SyncWhileDown
  <2>2. ~BecomesDisconnected
    BY <2>1 DEF BecomesDisconnected, CONNECTED, DISCONNECTED
  <2> QED BY <2>1, <2>2, SyncView
<1>8. CASE Acknowledged
  <2>1. txSeq' = IncSeqNum(txSeq)
    BY <1>8 DEF TxCallback, TxDataAcked, TxDataLost, TxEmpty
  <2>2. FreshUnlessBehindDrop'
    BY <1>1, <1>4, <1>8, <2>1 DEF FreshUnlessBehindDrop
  <2>3. LossOnlyAfterDrop'
    <3>1. acked' = acked \/ (tx.kind = "data" /\ acked' = acked \cup {tx.id})
      BY DEF TxCallback, TxDataAcked, TxDataLost, TxEmpty
    <3>2. tx.kind = "data" => tx.id \in Reached \/ tx.id - 1 \in dropped
      BY <1>1, <1>8 DEF DropInv, AckMeans
    <3> QED BY <1>1, <1>2, <3>1, <3>2 DEF DropInv, LossOnlyAfterDrop
  <2> QED BY <1>3, <1>6, <2>2, <2>3 DEF DropInv
<1>9. CASE ~Acknowledged
  <2>1. txSeq' = txSeq /\ Oldest' = Oldest /\ acked' = acked
    BY <1>1, <1>9 DEF TxCallback, TxDataAcked, TxDataLost, TxEmpty
  <2>2. FreshUnlessBehindDrop' /\ LossOnlyAfterDrop'
    BY <1>1, <1>2, <1>7, <1>9, <2>1
       DEF DropInv, FreshUnlessBehindDrop, LossOnlyAfterDrop
  <2> QED BY <1>3, <1>6, <2>2 DEF DropInv
<1> QED BY <1>8, <1>9

(* A flush brings either number back to its default, which the other device *)
(* never holds; the sender's drops what it removes.                         *)
LEMMA TxReconnectDrop ==
  ASSUME LinkInv, DropInv, NEW flush \in BOOLEAN, TxReconnect(flush)
  PROVE  DropInv'
<1>1. /\ UNCHANGED <<next, rxIn, rxSeq, taken, overruns, acked>>
      /\ txPhase' = "between" /\ cs'.status = DISCONNECTED
      /\ sendSync' = IF SenderIsCoordinator THEN TxSyncOnSyncing ELSE sendSync
      /\ dropped \subseteq dropped'
  BY DEF TxReconnect, receiverVars, StatusReset
<1>2. Reached' = Reached /\ EffSeq' = EffSeq
  BY <1>1, ReachedView DEF EffSeq
<1>3. SyncWhileDown' /\ SlotFrame' /\ AckMeans' /\ LossOnlyAfterDrop'
  BY <1>1, <1>2
     DEF DropInv, SyncWhileDown, SlotFrame, AckMeans, LossOnlyAfterDrop, InSlot
<1>4. CASE flush
  <2>1. txSeq' = TX_DEFAULT_SAW_INDEX
    BY <1>4 DEF TxReconnect, SeqAfterFlush
  <2>2. EffSeq # TX_DEFAULT_SAW_INDEX
    BY EffSeqType DEF TX_DEFAULT_SAW_INDEX, RX_DEFAULT_SAW_INDEX, LinkInv
  <2> QED BY <1>2, <1>3, <2>1, <2>2 DEF DropInv, FreshUnlessBehindDrop
<1>5. CASE ~flush
  <2>1. txq' = txq /\ txSeq' = txSeq /\ dropped' = dropped
    BY <1>5 DEF TxReconnect
  <2>2. Oldest' = Oldest
    BY <1>1, <2>1 DEF Oldest
  <2>3. sendSync => sendSync'
    BY <1>1 DEF DropInv, SyncWhileDown
  <2> QED BY <1>2, <1>3, <2>1, <2>2, <2>3 DEF DropInv, FreshUnlessBehindDrop
<1> QED BY <1>4, <1>5

LEMMA RxReconnectDrop ==
  ASSUME LinkInv, DropInv, NEW flush \in BOOLEAN, RxReconnect(flush)
  PROVE  DropInv'
<1>1. /\ UNCHANGED <<next, txq, txSeq, sendSync, cs, txPhase, tx, txIn, rxIn, taken,
                     overruns, acked, dropped>>
      /\ rxIn.kind = "idle"
      /\ rxSeq' = IF flush THEN RX_DEFAULT_SAW_INDEX ELSE rxSeq
  BY DEF RxReconnect, senderVars, LinkInv, RxInIdle, SeqAfterFlush
<1>2. Reached' = Reached /\ Oldest' = Oldest
  BY <1>1 DEF Reached, PendingNew, Oldest
<1>3. /\ EffSeq' = IF flush THEN RX_DEFAULT_SAW_INDEX ELSE EffSeq
      /\ txSeq # RX_DEFAULT_SAW_INDEX
  BY <1>1 DEF EffSeq, LinkInv, TypeInv, TypeOK, SenderTypeOK, TX_DEFAULT_SAW_INDEX,
              RX_DEFAULT_SAW_INDEX
<1>4. SyncWhileDown' /\ SlotFrame' /\ LossOnlyAfterDrop'
  BY <1>1, <1>2 DEF DropInv, SyncWhileDown, SlotFrame, LossOnlyAfterDrop, InSlot
<1>5. AckMeans' /\ FreshUnlessBehindDrop'
  BY <1>1, <1>2, <1>3 DEF DropInv, AckMeans, Acknowledged, FreshUnlessBehindDrop
<1> QED BY <1>4, <1>5 DEF DropInv

LEMMA NextDrop ==
  ASSUME PlainMode, LinkInv, DropInv, [Next]_vars PROVE DropInv'
<1>1. CASE Send
  <2>1. UNCHANGED <<rxIn, rxSeq, taken, overruns, txSeq, sendSync, cs, txPhase, tx,
                    txIn, acked, dropped>>
    BY <1>1, SendView DEF receiverVars, historyVars
  <2> QED BY <1>1, <2>1, SendView, ReachedView, UntouchedDrop
<1>2. CASE TxPrepare
  BY <1>2, PrepareDrop
<1>3. CASE TxCallback
  BY <1>3, CallbackDrop
<1>4. CASE RxCallback
  <2>1. /\ UNCHANGED <<txSeq, sendSync, cs, txPhase, tx, txIn, acked, dropped>>
        /\ Oldest' = Oldest /\ EffSeq' = EffSeq
        /\ taken' \cup overruns' = taken \cup overruns \cup PendingNew
    BY <1>4, ReceiveView DEF senderVars
  <2>2. Reached \subseteq Reached'
    BY <2>1 DEF Reached
  <2> QED BY <2>1, <2>2, UntouchedDrop
<1>5. CASE Exchange
  BY <1>5, ExchangeDrop
<1>6. CASE \E flush \in BOOLEAN : TxReconnect(flush)
  BY <1>6, TxReconnectDrop
<1>7. CASE \E flush \in BOOLEAN : RxReconnect(flush)
  BY <1>7, RxReconnectDrop
<1>8. CASE ReadDone \/ TxFlushRequest \/ SyncChange \/ RxPrepare \/ UNCHANGED vars
  <2>1. UNCHANGED <<next, txq, rxIn, rxSeq, taken, overruns, txSeq, sendSync, cs,
                    txPhase, tx, txIn, acked, dropped>>
    BY <1>8 DEF ReadDone, TxFlushRequest, SyncChange, RxPrepare, vars, senderVars,
                receiverVars, historyVars
  <2> QED BY <2>1, SameView, ReachedView, UntouchedDrop
<1> QED BY <1>1, <1>2, <1>3, <1>4, <1>5, <1>6, <1>7, <1>8
        DEF Next, App, Sender, Receiver

(* Without auto-sync and credit flow control, whatever the deadlines, the   *)
(* flushes and the reconnections of either device, a payload acknowledged   *)
(* by the peer's radio but never in its MAC's hands comes right behind a    *)
(* payload that was dropped, whose sequence number it inherited.            *)
THEOREM LostOnlyBehindDrop ==
  ASSUME PlainMode PROVE Spec => []LossOnlyAfterDrop
<1>1. Init => LinkInv /\ DropInv
  BY InitLink, InitDrop
<1>2. LinkInv /\ DropInv /\ [Next]_vars => (LinkInv /\ DropInv)'
  BY LinkStep, NextDrop
<1>3. DropInv => LossOnlyAfterDrop
  BY DEF DropInv
<1> QED BY <1>1, <1>2, <1>3, PTL DEF Spec
=============================================================================
