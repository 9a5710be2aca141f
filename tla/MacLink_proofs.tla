---------------------------- MODULE MacLink_proofs ----------------------------
(***************************************************************************)
(* Proofs about MacLink, for every number of payloads, queue sizes, roles,  *)
(* thresholds and number of reconnections:                                  *)
(*   - type correctness, in every configuration;                            *)
(*   - in guaranteed delivery mode, without auto-sync and credit flow       *)
(*     control, no acknowledged payload is lost (NoSilentLoss).             *)
(***************************************************************************)
EXTENDS MacLink, SequenceTheorems, TLAPS

(* The mode whose documentation promises delivery, without the two options  *)
(* whose header-only frames use up sequence numbers.                        *)
GuaranteedMode ==
    ~TtlTicks /\ TtlRetries = 0 /\ ~UseTxFlush /\ ~AutoSync /\ ~CreditFlow

-----------------------------------------------------------------------------
(* The inductive invariants.                                                *)

InSlot == txPhase \in {"armed", "event"}

(* The armed frame is the head of the queue until the slot's callback.      *)
HeadArmed ==
    InSlot /\ tx.kind = "data" => txq # <<>> /\ Head(txq) = tx.id

TypeInv == TypeOK /\ HeadArmed

(* The number the receiver will remember once the callback has run.         *)
EffSeq == IF rxIn.kind = "idle" THEN rxSeq ELSE RxSeqNum(rxIn.seq)

NoFlushPending == txFlush = FALSE

RxInIdle == rxPhase # "event" => rxIn.kind = "idle"

SyncWhileDown ==
    sendSync => SenderIsCoordinator /\ TxSyncOnSyncing /\ cs.status = DISCONNECTED

SlotFrame ==
    InSlot => /\ tx.seq = txSeq
              /\ tx.kind = "data" => ~sendSync
              /\ tx.kind = "header" => sendSync

(* An acknowledgement means the receiver has the frame's number, unless it  *)
(* was flushed since, and the payload.                                      *)
AckSound ==
    txPhase = "event" /\ Acknowledged =>
        /\ EffSeq \in {RxSeqNum(tx.seq), RX_DEFAULT_SAW_INDEX}
        /\ tx.kind = "data" => tx.id \in Reached

(* A payload the receiver never had will not look like a duplicate: the     *)
(* sender's number differs from the one remembered, or sync frames, whose   *)
(* acknowledgement moves the number on, hold the payload back.              *)
Fresh ==
    (txq = <<>> \/ Head(txq) \notin Reached) => (EffSeq # txSeq \/ sendSync)

LossInv ==
    /\ NoFlushPending /\ RxInIdle /\ SyncWhileDown /\ SlotFrame
    /\ AckSound /\ Fresh /\ NoSilentLoss

-----------------------------------------------------------------------------
(* The operators the actions are built from.                                *)

LEMMA SawTypes ==
  ASSUME NEW seq \in SeqNum
  PROVE  IncSeqNum(seq) \in {0, 1} /\ RxSeqNum(seq) \in {0, 1}
BY DEF SeqNum, IncSeqNum, RxSeqNum, MaskedRxSeqNum

(* After an acknowledged frame the number differs from the one remembered.  *)
LEMMA SawAlternates ==
  ASSUME NEW seq \in SeqNum
  PROVE  IncSeqNum(seq) # RxSeqNum(seq) /\ IncSeqNum(seq) # RX_DEFAULT_SAW_INDEX
BY DEF SeqNum, IncSeqNum, RxSeqNum, MaskedRxSeqNum, RX_DEFAULT_SAW_INDEX

LEMMA CreditTypes ==
  ASSUME NEW c \in Nat, NEW k \in 0..(SkipWrap - 1)
  PROVE  /\ CreditsAfterAck(c) \in Nat
         /\ Advertised(c) \in Nat
         /\ SkippedAfterAsking(c, k) \in 0..(SkipWrap - 1)
BY CreditFlowAssumption
   DEF CreditsAfterAck, Advertised, SkippedAfterAsking,
       CREDIT_FLOW_CONTROL_MAX_VALUE

LEMMA ResetType == StatusReset \in StatusRecord
BY ConnectStatusAssumption DEF StatusReset, StatusRecord, DISCONNECTED

LEMMA UpdateType ==
  ASSUME NEW c \in StatusRecord, NEW outcome \in Outcome, NEW sync \in BOOLEAN
  PROVE  UpdateConnectStatus(c, outcome, sync, 1) \in StatusRecord
<1> DEFINE new == UpdateConnectStatus(c, outcome, sync, 1)
<1>1. /\ c.status \in {CONNECTED, DISCONNECTED}
      /\ c.received \in 0..(ConnectCount - 1)
      /\ c.lost \in 0..(DisconnectDuration - 1)
      /\ c = [status |-> c.status, received |-> c.received, lost |-> c.lost]
  BY DEF StatusRecord
<1>2. CASE ~sync
  BY <1>1, <1>2 DEF UpdateConnectStatus, StatusRecord
<1>3. CASE sync /\ outcome = "wait"
  BY <1>3 DEF UpdateConnectStatus
<1>4. CASE sync /\ outcome = "good" /\ c.status = CONNECTED
  BY <1>1, <1>4, ConnectStatusAssumption
     DEF UpdateConnectStatus, StatusRecord, CONNECTED, DISCONNECTED
<1>5. CASE sync /\ outcome = "good" /\ c.status = DISCONNECTED
  <2>1. new = GoodWhileDisconnected(c)
    BY <1>5 DEF UpdateConnectStatus, CONNECTED, DISCONNECTED
  <2> QED BY <1>1, <2>1, ConnectStatusAssumption
          DEF GoodWhileDisconnected, StatusRecord, CONNECTED, DISCONNECTED
<1>6. CASE sync /\ outcome = "lost" /\ c.status = CONNECTED
  <2>1. new = LostWhileConnected(c, 1)
    BY <1>6 DEF UpdateConnectStatus, CONNECTED, DISCONNECTED
  <2>2. AddLost(c.lost, 1) \in Nat
    BY <1>1, ConnectStatusAssumption DEF AddLost
  <2> QED BY <1>1, <2>1, <2>2, ResetType, ConnectStatusAssumption
          DEF LostWhileConnected, StatusRecord
<1>7. CASE sync /\ outcome = "lost" /\ c.status = DISCONNECTED
  <2>1. new = [c EXCEPT !.received = 0]
    BY <1>7 DEF UpdateConnectStatus, CONNECTED, DISCONNECTED
  <2> QED BY <1>1, <2>1, ConnectStatusAssumption DEF StatusRecord
<1> QED BY <1>1, <1>2, <1>3, <1>4, <1>5, <1>6, <1>7 DEF Outcome

(* Without a good frame a disconnected link stays disconnected.             *)
LEMMA StaysDown ==
  ASSUME NEW c \in StatusRecord, NEW outcome \in Outcome, NEW sync \in BOOLEAN,
         c.status = DISCONNECTED, outcome # "good"
  PROVE  UpdateConnectStatus(c, outcome, sync, 1).status = DISCONNECTED
BY DEF UpdateConnectStatus, StatusRecord, Outcome, CONNECTED, DISCONNECTED

LEMMA HeadInMsgs ==
  ASSUME NEW q \in Seq(Msgs), q # <<>>
  PROVE  /\ Head(q) \in Msgs /\ Tail(q) \in Seq(Msgs)
         /\ Len(Tail(q)) = Len(q) - 1 /\ Len(q) > 0
BY HeadTailProperties, EmptySeq

LEMMA IdsInMsgs ==
  ASSUME NEW q \in Seq(Msgs) PROVE Ids(q) \subseteq Msgs
BY DEF Ids

(* A frame is armed with the head of the queue or without a payload.        *)
LEMMA FrameForType ==
  ASSUME NEW q \in Seq(Msgs), NEW k \in Nat, txSeq \in SeqNum
  PROVE  /\ FrameFor(q, k) \in Frame
         /\ FrameFor(q, k).seq = txSeq
         /\ FrameFor(q, k).kind = "data" =>
               q # <<>> /\ Head(q) = FrameFor(q, k).id /\ ~HeldBack
<1>1. HeaderFrame(txSeq) \in Frame /\ IdleFrame(txSeq) \in Frame
  BY DEF HeaderFrame, IdleFrame, Frame, NoId
<1>2. q # <<>> => DataFrame(Head(q), txSeq) \in Frame
  BY HeadInMsgs DEF DataFrame, Frame
<1>3. \/ FrameFor(q, k) \in {HeaderFrame(txSeq), IdleFrame(txSeq)}
      \/ q # <<>> /\ ~HeldBack /\ FrameFor(q, k) = DataFrame(Head(q), txSeq)
  BY DEF FrameFor, OldestPayload
<1> QED BY <1>1, <1>2, <1>3 DEF HeaderFrame, IdleFrame, DataFrame

-----------------------------------------------------------------------------
(* Type correctness.                                                        *)

LEMMA InitType == Init => TypeInv
<1> SUFFICES ASSUME Init PROVE TypeInv
  OBVIOUS
<1>1. NumMsgs \in Nat /\ SkipWrap \in Nat \ {0} /\ MaxRestarts \in Nat
      /\ TxQueueSize \in Nat /\ RxQueueSize \in Nat /\ TtlRetries \in Nat
      /\ SenderIsNode \in BOOLEAN /\ TxSyncOnSyncing \in BOOLEAN
  BY MacLinkAssumption, CreditFlowAssumption
<1>2. IdleFrame(0) \in Frame
  BY DEF IdleFrame, Frame, SeqNum, NoId
<1>3. SenderTypeOK
  <2>1. synced \in BOOLEAN /\ sendSync \in BOOLEAN
    BY <1>1 DEF Init, SenderIsCoordinator
  <2>2. cs \in StatusRecord
    BY ResetType DEF Init
  <2>3. /\ next \in 1..(NumMsgs + 1) /\ retry \in 0..TtlRetries
        /\ credits \in Nat /\ skipped \in 0..(SkipWrap - 1) /\ txReply \in Nat
    BY <1>1 DEF Init, InitCredits
  <2>4. txq \in Seq(Msgs) /\ Len(txq) <= TxQueueSize
    BY <1>1 DEF Init
  <2>5. /\ txSeq \in {0, 1, TX_DEFAULT_SAW_INDEX} /\ txFlush \in BOOLEAN
        /\ txPhase \in {"between", "armed", "event"} /\ tx \in Frame
        /\ txIn \in {"ack", "ackNoReply", "lost", "wait"}
    BY <1>2 DEF Init
  <2> QED BY <2>1, <2>2, <2>3, <2>4, <2>5 DEF SenderTypeOK
<1>4. ReceiverTypeOK
  <2>1. rxq \in Seq(Msgs) /\ Len(rxq) <= RxQueueSize
    BY <1>1 DEF Init
  <2> QED BY <1>1, <1>2, <2>1 DEF Init, ReceiverTypeOK
<1>5. HistoryTypeOK
  <2>1. wasDown \in BOOLEAN
    BY Zenon DEF Init
  <2> QED BY <1>1, <2>1 DEF Init, HistoryTypeOK
<1>6. HeadArmed
  BY DEF Init, HeadArmed, InSlot
<1> QED BY <1>3, <1>4, <1>5, <1>6 DEF TypeInv, TypeOK

LEMMA SendType == TypeInv /\ Send => TypeInv'
<1> SUFFICES ASSUME TypeInv, Send PROVE TypeInv'
  OBVIOUS
<1> USE DEF TypeInv, TypeOK
<1>1. NumMsgs \in Nat /\ next \in Msgs
  BY MacLinkAssumption DEF Send, SenderTypeOK, Msgs
<1>2. txq' \in Seq(Msgs) /\ Len(txq') = Len(txq) + 1 /\ txq' # <<>>
      /\ (txq # <<>> => Head(txq') = Head(txq))
  BY <1>1, AppendProperties DEF Send, Enqueue, SenderTypeOK
<1>3. Len(txq') <= TxQueueSize
  BY <1>2, MacLinkAssumption DEF Send, SenderTypeOK
<1>4. next' \in 1..(NumMsgs + 1)
  BY <1>1 DEF Send, Msgs
<1>5. SenderTypeOK'
  BY <1>2, <1>3, <1>4 DEF Send, SenderTypeOK
<1>6. ReceiverTypeOK' /\ HistoryTypeOK'
  BY DEF Send, ReceiverTypeOK, HistoryTypeOK, receiverVars, historyVars
<1>7. HeadArmed'
  BY <1>2 DEF Send, HeadArmed, InSlot
<1> QED BY <1>5, <1>6, <1>7

LEMMA ReadDoneType == TypeInv /\ ReadDone => TypeInv'
<1> SUFFICES ASSUME TypeInv, ReadDone PROVE TypeInv'
  OBVIOUS
<1> USE DEF TypeInv, TypeOK
<1>1. rxq' \in Seq(Msgs) /\ Len(rxq') <= RxQueueSize
  BY HeadInMsgs, MacLinkAssumption DEF ReadDone, ReceiverTypeOK
<1>2. ReceiverTypeOK'
  BY <1>1 DEF ReadDone, ReceiverTypeOK
<1>3. SenderTypeOK' /\ HistoryTypeOK'
  BY DEF ReadDone, SenderTypeOK, HistoryTypeOK, senderVars, historyVars
<1>4. HeadArmed'
  BY DEF ReadDone, HeadArmed, InSlot, senderVars
<1> QED BY <1>2, <1>3, <1>4

(* The flush request and the synchronisation of a node touch one flag.      *)
LEMMA FlagType == TypeInv /\ (TxFlushRequest \/ SyncChange) => TypeInv'
<1> SUFFICES ASSUME TypeInv, TxFlushRequest \/ SyncChange PROVE TypeInv'
  OBVIOUS
<1> USE DEF TypeInv, TypeOK
<1>1. SenderTypeOK'
  BY DEF TxFlushRequest, SyncChange, SenderTypeOK
<1>2. ReceiverTypeOK' /\ HistoryTypeOK'
  BY DEF TxFlushRequest, SyncChange, ReceiverTypeOK, HistoryTypeOK,
         receiverVars, historyVars
<1>3. HeadArmed'
  BY DEF TxFlushRequest, SyncChange, HeadArmed, InSlot
<1> QED BY <1>1, <1>2, <1>3

(* What flush_timeout_frames_before_sending and a flush leave is a queue.   *)
LEMMA KeptType ==
  ASSUME txq \in Seq(Msgs), NEW n \in 0..Len(txq)
  PROVE  Kept(n) \in Seq(Msgs) /\ Len(Kept(n)) <= Len(txq)
<1>1. Len(txq) \in Nat /\ n + 1 \in Int /\ \A i \in (n + 1)..Len(txq) : txq[i] \in Msgs
  OBVIOUS
<1>2. /\ InTime(n) \in Seq(Msgs)
      /\ Len(InTime(n)) = IF n + 1 <= Len(txq) THEN Len(txq) - (n + 1) + 1 ELSE 0
  BY <1>1, SubSeqProperties DEF InTime
<1>3. Len(InTime(n)) <= Len(txq)
  BY <1>1, <1>2
<1>4. CASE Flushes(n)
  BY <1>1, <1>2, <1>3, <1>4, HeadInMsgs DEF Kept, Flushes
<1>5. CASE ~Flushes(n)
  BY <1>2, <1>3, <1>5 DEF Kept
<1> QED BY <1>4, <1>5

LEMMA TxPrepareType == TypeInv /\ TxPrepare => TypeInv'
<1> SUFFICES ASSUME TypeInv, TxPrepare PROVE TypeInv'
  OBVIOUS
<1> USE DEF TypeInv, TypeOK
<1>1. PICK n \in TimeoutDrops :
          /\ txq' = Kept(n)
          /\ retry' = IF GuaranteedDelivery \/ Flushes(n) \/ Kept(n) = <<>>
                      THEN 0 ELSE CountedRetry(n)
          /\ dropped' = dropped \cup (Ids(txq) \ Ids(Kept(n)))
          /\ tx' = FrameFor(Kept(n), SkippedAfterAsking(credits, skipped))
  BY DEF TxPrepare
<1>2. /\ txq \in Seq(Msgs) /\ Len(txq) \in Nat /\ Len(txq) <= TxQueueSize
      /\ TxQueueSize \in Nat /\ TtlRetries \in Nat /\ retry \in 0..TtlRetries
      /\ n \in 0..Len(txq)
  BY MacLinkAssumption DEF SenderTypeOK, TimeoutDrops
<1>3. Kept(n) \in Seq(Msgs) /\ Len(Kept(n)) <= Len(txq)
  BY <1>2, KeptType
<1>4. skipped' \in 0..(SkipWrap - 1) /\ skipped' = SkippedAfterAsking(credits, skipped)
  BY CreditTypes DEF SenderTypeOK, TxPrepare
<1>5. txSeq \in SeqNum /\ skipped' \in Nat
  BY <1>4, CreditFlowAssumption DEF SenderTypeOK, SeqNum, TX_DEFAULT_SAW_INDEX
<1>7. CountedRetry(n) \in 0..TtlRetries
  BY <1>2 DEF CountedRetry
<1>8. /\ tx' \in Frame
      /\ tx'.kind = "data" => txq' # <<>> /\ Head(txq') = tx'.id
  BY <1>1, <1>3, <1>4, <1>5, FrameForType
<1>9. txq' \in Seq(Msgs) /\ Len(txq') <= TxQueueSize /\ retry' \in 0..TtlRetries
  BY <1>1, <1>2, <1>3, <1>7
<1>10. SenderTypeOK'
  <2>1. txFlush' \in BOOLEAN
    BY Zenon DEF TxPrepare
  <2>2. /\ next' = next /\ txSeq' = txSeq /\ credits' = credits
        /\ sendSync' = sendSync /\ cs' = cs /\ synced' = synced
        /\ txIn' = txIn /\ txReply' = txReply /\ txPhase' = "armed"
    BY DEF TxPrepare
  <2> QED BY <1>4, <1>8, <1>9, <2>1, <2>2 DEF SenderTypeOK
<1>11. ReceiverTypeOK'
  BY DEF TxPrepare, ReceiverTypeOK, receiverVars
<1>12. HistoryTypeOK'
  <2>1. Ids(txq) \subseteq Msgs
    BY <1>2, IdsInMsgs
  <2>2. dropped' \subseteq dropped \cup Ids(txq)
    BY <1>1
  <2> QED BY <2>1, <2>2 DEF TxPrepare, HistoryTypeOK
<1>13. HeadArmed'
  BY <1>8, <1>9 DEF HeadArmed
<1> QED BY <1>10, <1>11, <1>12, <1>13

LEMMA RxPrepareType == TypeInv /\ RxPrepare => TypeInv'
<1> SUFFICES ASSUME TypeInv, RxPrepare PROVE TypeInv'
  OBVIOUS
<1> USE DEF TypeInv, TypeOK
<1>1. rxNode' \in BOOLEAN
  BY Zenon DEF RxPrepare, FreeNode
<1>2. reply' \in Nat
  <2>1. RxQueueSize - Len(rxq) \in Nat
    BY MacLinkAssumption DEF ReceiverTypeOK
  <2>2. \A c \in Nat : Advertised(c) \in Nat
    BY DEF Advertised, CREDIT_FLOW_CONTROL_MAX_VALUE
  <2> QED BY <2>1, <2>2 DEF RxPrepare
<1>3. ReceiverTypeOK'
  BY <1>1, <1>2 DEF RxPrepare, ReceiverTypeOK
<1>4. SenderTypeOK' /\ HistoryTypeOK' /\ HeadArmed'
  BY DEF RxPrepare, SenderTypeOK, HistoryTypeOK, HeadArmed, InSlot,
         senderVars, historyVars
<1> QED BY <1>3, <1>4

LEMMA ExchangeType == TypeInv /\ Exchange => TypeInv'
<1> SUFFICES ASSUME TypeInv, Exchange PROVE TypeInv'
  OBVIOUS
<1> USE DEF TypeInv, TypeOK
<1>1. IdleFrame(0) \in Frame
  BY DEF IdleFrame, Frame, SeqNum, NoId
<1>2. CASE ExchangeMissed
  <2>1. SenderTypeOK'
    BY <1>2 DEF ExchangeMissed, SenderTypeOK
  <2>2. ReceiverTypeOK'
    BY <1>1, <1>2 DEF ExchangeMissed, ReceiverTypeOK
  <2>3. HistoryTypeOK' /\ HeadArmed'
    BY <1>2 DEF ExchangeMissed, HistoryTypeOK, HeadArmed, InSlot, historyVars
  <2> QED BY <2>1, <2>2, <2>3
<1>3. ASSUME NEW outcome \in {"ack", "ackNoReply", "lost"},
             ExchangeReceived(outcome)
      PROVE  TypeInv'
  <2>1. txReply' \in Nat
    BY <1>3 DEF ExchangeReceived, SenderTypeOK, ReceiverTypeOK
  <2>2. SenderTypeOK'
    BY <1>3, <2>1 DEF ExchangeReceived, SenderTypeOK
  <2>3. ReceiverTypeOK'
    BY <1>3 DEF ExchangeReceived, SenderTypeOK, ReceiverTypeOK
  <2>4. HistoryTypeOK' /\ HeadArmed'
    BY <1>3 DEF ExchangeReceived, HistoryTypeOK, HeadArmed, InSlot, historyVars
  <2> QED BY <2>2, <2>3, <2>4
<1> QED BY <1>2, <1>3 DEF Exchange

(* update_connect_status_main keeps the status in its ranges.               *)
LEMMA NewStatusType ==
  ASSUME TypeInv PROVE NewStatus \in StatusRecord
<1>1. MainOutcome \in Outcome
  BY DEF TypeInv, TypeOK, SenderTypeOK, MainOutcome, Acknowledged, Outcome
<1>2. cs \in StatusRecord /\ synced \in BOOLEAN
  BY DEF TypeInv, TypeOK, SenderTypeOK
<1> QED BY <1>1, <1>2, UpdateType DEF NewStatus

LEMMA TxCallbackType == TypeInv /\ TxCallback => TypeInv'
<1> SUFFICES ASSUME TypeInv, TxCallback PROVE TypeInv'
  OBVIOUS
<1> USE DEF TypeInv, TypeOK
<1>1. /\ cs' \in StatusRecord /\ txPhase' = "between"
      /\ next' = next /\ synced' = synced /\ tx' = tx /\ txIn' = txIn
      /\ txReply' = txReply
  BY NewStatusType DEF TxCallback
<1>2. sendSync' \in BOOLEAN
  <2>1. sendSync \in BOOLEAN /\ TxSyncOnSyncing \in BOOLEAN
    BY MacLinkAssumption DEF SenderTypeOK
  <2>2. SyncAfterStatus \in BOOLEAN
    BY <2>1, Zenon DEF SyncAfterStatus
  <2>3. \/ sendSync' = SyncAfterStatus
        \/ sendSync' = (SyncAfterStatus /\ ~(SenderIsCoordinator /\ IsConnected(NewStatus)))
    BY Zenon DEF TxCallback, TxDataAcked, TxDataLost, TxEmpty
  <2> QED BY <2>2, <2>3, Zenon
<1>3. /\ txSeq \in SeqNum /\ credits \in Nat
      /\ \A c \in Nat : CreditsAfterReply(c) \in Nat
      /\ CreditsAfterAck(credits) \in Nat
  <2>1. txSeq \in SeqNum /\ credits \in Nat /\ txReply \in Nat
    BY DEF SenderTypeOK, SeqNum, TX_DEFAULT_SAW_INDEX
  <2>2. \A c \in Nat : CreditsAfterReply(c) \in Nat
    BY <2>1 DEF CreditsAfterReply
  <2>3. CreditsAfterAck(credits) \in Nat
    BY <2>1 DEF CreditsAfterAck
  <2> QED BY <2>1, <2>2, <2>3
<1>4. CASE TxDataAcked
  <2>1. txq # <<>> /\ txq \in Seq(Msgs) /\ txq' = Tail(txq)
    BY <1>4 DEF TxDataAcked, HeadArmed, InSlot, SenderTypeOK
  <2>2. /\ txq' \in Seq(Msgs) /\ Len(txq') <= TxQueueSize
    BY <2>1, HeadInMsgs, MacLinkAssumption DEF SenderTypeOK
  <2>3. /\ txSeq' \in {0, 1} /\ credits' \in Nat
    BY <1>3, <1>4, SawTypes DEF TxDataAcked
  <2>4. /\ retry' \in 0..TtlRetries /\ skipped' \in 0..(SkipWrap - 1)
    BY <1>4, MacLinkAssumption, CreditFlowAssumption DEF TxDataAcked
  <2>5. txFlush' \in BOOLEAN
    BY <1>4, Zenon DEF TxDataAcked
  <2>6. SenderTypeOK'
    BY <1>1, <1>2, <2>2, <2>3, <2>4, <2>5 DEF SenderTypeOK
  <2>7. acked' \subseteq Msgs /\ dropped' = dropped
    BY <1>4 DEF TxDataAcked, SenderTypeOK, HistoryTypeOK, Frame
  <2>8. HistoryTypeOK'
    <3>1. wasDown' \in BOOLEAN
      BY Zenon DEF TxCallback
    <3> QED BY <2>7, <3>1 DEF TxCallback, HistoryTypeOK
  <2> QED BY <1>1, <2>6, <2>8 DEF TxCallback, ReceiverTypeOK, HeadArmed, InSlot,
                                  receiverVars
<1>5. CASE TxDataLost \/ TxEmpty
  <2>1. /\ txSeq' \in {0, 1, TX_DEFAULT_SAW_INDEX} /\ credits' \in Nat
        /\ skipped' = skipped /\ txFlush' = txFlush /\ txq' = txq
        /\ retry' = retry /\ acked' = acked /\ dropped' = dropped
    BY <1>3, <1>5, SawTypes DEF TxDataLost, TxEmpty, SenderTypeOK
  <2>2. SenderTypeOK'
    BY <1>1, <1>2, <2>1 DEF SenderTypeOK
  <2>3. HistoryTypeOK'
    <3>1. wasDown' \in BOOLEAN
      BY Zenon DEF TxCallback
    <3> QED BY <2>1, <3>1 DEF TxCallback, HistoryTypeOK
  <2> QED BY <1>1, <2>2, <2>3 DEF TxCallback, ReceiverTypeOK, HeadArmed, InSlot,
                                  receiverVars
<1> QED BY <1>4, <1>5 DEF TxCallback

LEMMA RxCallbackType == TypeInv /\ RxCallback => TypeInv'
<1> SUFFICES ASSUME TypeInv, RxCallback PROVE TypeInv'
  OBVIOUS
<1> USE DEF TypeInv, TypeOK
<1>1. SenderTypeOK' /\ HeadArmed'
  BY DEF RxCallback, SenderTypeOK, HeadArmed, InSlot, senderVars
<1>2. IdleFrame(0) \in Frame
  BY DEF IdleFrame, Frame, SeqNum, NoId
<1>3. /\ rxIn' \in Frame /\ rxPhase' = "between" /\ rxNode' = rxNode
      /\ reply' = reply /\ acked' = acked /\ dropped' = dropped
      /\ restarts' = restarts /\ wasDown' = wasDown
  BY <1>2 DEF RxCallback
<1>4. rxIn.seq \in SeqNum /\ (rxIn.kind = "data" => rxIn.id \in Msgs)
  BY DEF ReceiverTypeOK, Frame
<1>5. rxSynced' \in BOOLEAN
  <2>1. CASE RxMissed
    BY <2>1, Zenon DEF RxMissed, ReceiverTypeOK
  <2>2. CASE RxInternal \/ RxStored \/ RxOverrun
    BY <2>2, Zenon DEF RxInternal, RxStored, RxOverrun
  <2> QED BY <2>1, <2>2 DEF RxCallback
<1>6. rxSeq' \in {0, 1, RX_DEFAULT_SAW_INDEX}
  BY <1>4, SawTypes
     DEF RxCallback, RxMissed, RxInternal, RxStored, RxOverrun, ReceiverTypeOK
<1>7. rxq' \in Seq(Msgs) /\ Len(rxq') <= RxQueueSize
  <2>1. CASE RxStored
    <3>1. rxq \in Seq(Msgs) /\ Len(rxq) < RxQueueSize /\ rxq' = Append(rxq, rxIn.id)
      BY <2>1 DEF RxStored, HasRoom, Enqueue, ReceiverTypeOK
    <3>2. rxq' \in Seq(Msgs) /\ Len(rxq') = Len(rxq) + 1
      BY <1>4, <2>1, <3>1, AppendProperties DEF RxStored
    <3> QED BY <3>1, <3>2, MacLinkAssumption
  <2>2. CASE RxMissed \/ RxInternal \/ RxOverrun
    BY <2>2 DEF RxMissed, RxInternal, RxOverrun, ReceiverTypeOK
  <2> QED BY <2>1, <2>2 DEF RxCallback
<1>8. taken' \subseteq Msgs /\ again' \subseteq Msgs /\ overruns' \subseteq Msgs
  BY <1>4 DEF RxCallback, RxMissed, RxInternal, RxStored, RxOverrun, HistoryTypeOK
<1>9. ReceiverTypeOK'
  BY <1>3, <1>5, <1>6, <1>7 DEF ReceiverTypeOK
<1>10. HistoryTypeOK'
  BY <1>3, <1>8 DEF HistoryTypeOK
<1> QED BY <1>1, <1>9, <1>10

LEMMA ReconnectType ==
  ASSUME TypeInv, NEW flush \in BOOLEAN, TxReconnect(flush) \/ RxReconnect(flush)
  PROVE  TypeInv'
<1> USE DEF TypeInv, TypeOK
<1>1. restarts' \in 0..MaxRestarts /\ taken' = taken /\ again' = again
      /\ overruns' = overruns /\ acked' = acked
  BY MacLinkAssumption DEF TxReconnect, RxReconnect, HistoryTypeOK
<1>2. wasDown' \in BOOLEAN
  BY Zenon DEF TxReconnect, RxReconnect
<1>3. dropped' \subseteq Msgs
  <2>1. Ids(txq) \subseteq Msgs
    BY IdsInMsgs DEF SenderTypeOK
  <2> QED BY <2>1 DEF TxReconnect, RxReconnect, HistoryTypeOK
<1>4. HistoryTypeOK'
  BY <1>1, <1>2, <1>3 DEF HistoryTypeOK
<1>5. CASE TxReconnect(flush)
  <2>1. sendSync' \in BOOLEAN /\ synced' \in BOOLEAN
    <3>1. sendSync \in BOOLEAN /\ TxSyncOnSyncing \in BOOLEAN /\ SenderIsNode \in BOOLEAN
      BY MacLinkAssumption DEF SenderTypeOK
    <3> QED BY <1>5, <3>1, Zenon DEF TxReconnect, SenderIsCoordinator
  <2>2. txq' \in Seq(Msgs) /\ Len(txq') <= TxQueueSize
    BY <1>5, MacLinkAssumption DEF TxReconnect, SenderTypeOK
  <2>3. /\ txSeq' \in {0, 1, TX_DEFAULT_SAW_INDEX} /\ retry' \in 0..TtlRetries
        /\ cs' \in StatusRecord /\ txPhase' = "between"
    BY <1>5, ResetType, MacLinkAssumption
       DEF TxReconnect, SeqAfterFlush, SenderTypeOK
  <2>4. SenderTypeOK'
    BY <1>5, <2>1, <2>2, <2>3 DEF TxReconnect, SenderTypeOK
  <2>5. ReceiverTypeOK' /\ HeadArmed'
    BY <1>5 DEF TxReconnect, ReceiverTypeOK, HeadArmed, InSlot, receiverVars
  <2> QED BY <1>4, <2>4, <2>5
<1>6. CASE RxReconnect(flush)
  <2>1. rxSynced' \in BOOLEAN
    BY <1>6, MacLinkAssumption, Zenon DEF RxReconnect
  <2>2. rxq' \in Seq(Msgs) /\ Len(rxq') <= RxQueueSize
    BY <1>6, MacLinkAssumption DEF RxReconnect, ReceiverTypeOK
  <2>3. rxSeq' \in {0, 1, RX_DEFAULT_SAW_INDEX}
    BY <1>6 DEF RxReconnect, SeqAfterFlush, ReceiverTypeOK
  <2>4. ReceiverTypeOK'
    BY <1>6, <2>1, <2>2, <2>3 DEF RxReconnect, ReceiverTypeOK
  <2>5. SenderTypeOK' /\ HeadArmed'
    BY <1>6 DEF RxReconnect, SenderTypeOK, HeadArmed, InSlot, senderVars
  <2> QED BY <1>4, <2>4, <2>5
<1> QED BY <1>5, <1>6

LEMMA StutterType == TypeInv /\ UNCHANGED vars => TypeInv'
<1> SUFFICES ASSUME TypeInv, UNCHANGED vars PROVE TypeInv'
  OBVIOUS
<1> USE DEF vars
<1>1. SenderTypeOK'
  BY DEF TypeInv, TypeOK, SenderTypeOK, senderVars
<1>2. ReceiverTypeOK'
  BY DEF TypeInv, TypeOK, ReceiverTypeOK, receiverVars
<1>3. HistoryTypeOK'
  BY DEF TypeInv, TypeOK, HistoryTypeOK, historyVars
<1>4. HeadArmed'
  BY DEF TypeInv, HeadArmed, InSlot, senderVars
<1> QED BY <1>1, <1>2, <1>3, <1>4 DEF TypeInv, TypeOK

LEMMA NextType == TypeInv /\ [Next]_vars => TypeInv'
BY SendType, ReadDoneType, FlagType, TxPrepareType, RxPrepareType, ExchangeType,
   TxCallbackType, RxCallbackType, ReconnectType, StutterType
   DEF Next, App, Sender, Receiver

(* Every variable of MacLink keeps its type, in every configuration.        *)
THEOREM TypeCorrect == Spec => []TypeOK
<1>1. Init => TypeInv
  BY InitType
<1>2. TypeInv /\ [Next]_vars => TypeInv'
  BY NextType
<1>3. TypeInv => TypeOK
  BY DEF TypeInv
<1> QED BY <1>1, <1>2, <1>3, PTL DEF Spec

-----------------------------------------------------------------------------
(* No acknowledged payload is lost.                                         *)

LEMMA EffSeqType ==
  ASSUME TypeInv
  PROVE  EffSeq \in {0, 1, RX_DEFAULT_SAW_INDEX}
<1>1. rxIn.seq \in SeqNum /\ rxSeq \in {0, 1, RX_DEFAULT_SAW_INDEX}
  BY DEF TypeInv, TypeOK, ReceiverTypeOK, Frame
<1> QED BY <1>1, SawTypes DEF EffSeq

LEMMA InitLoss == Init => LossInv
<1> SUFFICES ASSUME Init PROVE LossInv
  OBVIOUS
<1>1. RxInIdle /\ SlotFrame /\ AckSound /\ NoSilentLoss
  BY DEF Init, RxInIdle, SlotFrame, AckSound, NoSilentLoss, InSlot, IdleFrame
<1>2. NoFlushPending
  BY DEF Init, NoFlushPending
<1>3. SyncWhileDown
  BY DEF Init, SyncWhileDown, StatusReset
<1>4. EffSeq # txSeq
  BY DEF Init, EffSeq, IdleFrame, TX_DEFAULT_SAW_INDEX, RX_DEFAULT_SAW_INDEX
<1> QED BY <1>1, <1>2, <1>3, <1>4 DEF LossInv, Fresh

(* The sender's state of a slot, the receiver's, and the payloads known.    *)
LEMMA UntouchedLoss ==
  ASSUME LossInv,
         UNCHANGED <<txFlush, rxPhase, rxIn, rxSeq, sendSync, cs, txPhase, tx,
                     txSeq, txq, txIn, taken, overruns, acked>>
  PROVE  LossInv'
<1>1. Reached' = Reached /\ EffSeq' = EffSeq
  BY DEF Reached, PendingNew, Duplicate, EffSeq
<1>2. NoFlushPending' /\ RxInIdle' /\ SyncWhileDown' /\ SlotFrame'
  BY DEF LossInv, NoFlushPending, RxInIdle, SyncWhileDown, SlotFrame, InSlot
<1>3. AckSound' /\ Fresh' /\ NoSilentLoss'
  BY <1>1 DEF LossInv, AckSound, Acknowledged, Fresh, NoSilentLoss
<1> QED BY <1>2, <1>3 DEF LossInv

(* A new payload joins the queue: alone it is fresh, behind others it does  *)
(* not matter yet.                                                          *)
LEMMA SendLoss ==
  ASSUME TypeInv, LossInv, Send PROVE LossInv'
<1>1. UNCHANGED <<txFlush, rxPhase, rxIn, rxSeq, sendSync, cs, txPhase, tx, txSeq,
                  txIn, taken, overruns, acked>>
  BY DEF Send, receiverVars, historyVars
<1>2. txq # <<>> => txq' # <<>> /\ Head(txq') = Head(txq)
  <2>1. txq \in Seq(Msgs) /\ next \in Msgs
    BY MacLinkAssumption DEF TypeInv, TypeOK, SenderTypeOK, Send, Msgs
  <2> QED BY <2>1, AppendProperties DEF Send, Enqueue
<1>3. Reached' = Reached /\ EffSeq' = EffSeq
  BY <1>1 DEF Reached, PendingNew, Duplicate, EffSeq
<1>4. Fresh'
  BY <1>1, <1>2, <1>3 DEF LossInv, Fresh
<1>5. NoFlushPending' /\ RxInIdle' /\ SyncWhileDown' /\ SlotFrame'
  BY <1>1 DEF LossInv, NoFlushPending, RxInIdle, SyncWhileDown, SlotFrame, InSlot
<1>6. AckSound' /\ NoSilentLoss'
  BY <1>1, <1>3 DEF LossInv, AckSound, Acknowledged, NoSilentLoss
<1> QED BY <1>4, <1>5, <1>6 DEF LossInv

(* In guaranteed mode preparing a slot drops nothing and arms a header only *)
(* for a pending sync frame.                                                *)
LEMMA TxPrepareLoss ==
  ASSUME GuaranteedMode, TypeInv, LossInv, TxPrepare PROVE LossInv'
<1>1. TimeoutDrops = {0}
  BY DEF GuaranteedMode, TimeoutDrops, GuaranteedDelivery, IsGuaranteedDeliveryMode
<1>2. InTime(0) = txq /\ ~Flushes(0)
  <2>1. txq \in Seq(Msgs)
    BY DEF TypeInv, TypeOK, SenderTypeOK
  <2>2. SubSeq(txq, 1, Len(txq)) = txq
    BY <2>1, SubSeqFull
  <2> QED BY <2>2 DEF InTime, Flushes, LossInv, NoFlushPending
<1>3. txq' = txq /\ tx' = FrameFor(txq, SkippedAfterAsking(credits, skipped))
  BY <1>1, <1>2 DEF TxPrepare, Kept
<1>4. UNCHANGED <<rxPhase, rxIn, rxSeq, sendSync, cs, txSeq, txIn, taken,
                  overruns, acked>>
  BY DEF TxPrepare, receiverVars
<1>5. Reached' = Reached /\ EffSeq' = EffSeq
  BY <1>4 DEF Reached, PendingNew, Duplicate, EffSeq
<1>6. /\ tx'.seq = txSeq
      /\ tx'.kind = "data" => ~HeldBack
      /\ tx'.kind = "header" => HeldBack
  BY <1>3 DEF FrameFor, GuaranteedMode, IsSkippedFramesExceed, HeaderFrame,
              DataFrame, IdleFrame
<1>7. SlotFrame'
  BY <1>4, <1>6 DEF SlotFrame, HeldBack, LossInv, SyncWhileDown
<1>8. NoFlushPending' /\ RxInIdle' /\ SyncWhileDown' /\ AckSound'
  BY <1>4 DEF TxPrepare, LossInv, NoFlushPending, RxInIdle, SyncWhileDown, AckSound
<1>9. Fresh' /\ NoSilentLoss'
  BY <1>3, <1>4, <1>5 DEF LossInv, Fresh, NoSilentLoss
<1> QED BY <1>7, <1>8, <1>9 DEF LossInv

LEMMA RxPrepareLoss ==
  ASSUME LossInv, RxPrepare PROVE LossInv'
<1>1. /\ UNCHANGED <<txFlush, rxIn, rxSeq, sendSync, cs, txPhase, tx, txSeq, txq,
                     txIn, taken, overruns, acked>>
      /\ rxPhase = "between" /\ rxPhase' = "armed"
  BY DEF RxPrepare, senderVars, historyVars
<1>2. Reached' = Reached /\ EffSeq' = EffSeq
  BY <1>1 DEF Reached, PendingNew, Duplicate, EffSeq
<1>3. NoFlushPending' /\ RxInIdle' /\ SyncWhileDown' /\ SlotFrame'
  BY <1>1 DEF LossInv, NoFlushPending, RxInIdle, SyncWhileDown, SlotFrame, InSlot
<1>4. AckSound' /\ Fresh' /\ NoSilentLoss'
  BY <1>1, <1>2 DEF LossInv, AckSound, Acknowledged, Fresh, NoSilentLoss
<1> QED BY <1>3, <1>4 DEF LossInv

LEMMA ExchangeMissedLoss ==
  ASSUME LossInv, ExchangeMissed PROVE LossInv'
<1>1. /\ UNCHANGED <<txFlush, rxSeq, sendSync, cs, tx, txSeq, txq, taken, overruns,
                     acked>>
      /\ rxIn.kind = "idle" /\ rxIn'.kind = "idle"
      /\ txIn' \in {"wait", "lost"} /\ InSlot
  BY DEF ExchangeMissed, LossInv, RxInIdle, IdleFrame, InSlot, historyVars
<1>2. Reached' = Reached /\ EffSeq' = EffSeq
  BY <1>1 DEF Reached, PendingNew, EffSeq
<1>3. NoFlushPending' /\ RxInIdle' /\ SyncWhileDown' /\ SlotFrame' /\ AckSound'
  BY <1>1 DEF LossInv, NoFlushPending, RxInIdle, SyncWhileDown, SlotFrame, InSlot,
              AckSound, Acknowledged
<1>4. Fresh' /\ NoSilentLoss'
  BY <1>1, <1>2 DEF LossInv, Fresh, NoSilentLoss
<1> QED BY <1>3, <1>4 DEF LossInv

(* A frame gets through.  A payload the receiver never had is not taken for *)
(* a duplicate, so that every received payload has been reached.            *)
LEMMA ExchangeReceivedLoss ==
  ASSUME TypeInv, LossInv, NEW outcome \in {"ack", "ackNoReply", "lost"},
         ExchangeReceived(outcome)
  PROVE  LossInv'
<1>1. /\ UNCHANGED <<txFlush, rxSeq, sendSync, cs, tx, txSeq, txq, taken, overruns,
                     acked>>
      /\ rxIn.kind = "idle" /\ rxIn' = tx /\ tx.kind # "idle" /\ InSlot
      /\ rxPhase' = "event"
  BY DEF ExchangeReceived, LossInv, RxInIdle, InSlot, historyVars
<1>2. Reached = taken \cup overruns /\ EffSeq = rxSeq
  BY <1>1 DEF Reached, PendingNew, EffSeq
<1>3. EffSeq' = RxSeqNum(tx.seq) /\ tx.seq = txSeq
  BY <1>1 DEF EffSeq, LossInv, SlotFrame
<1>4. Reached \subseteq Reached'
  BY <1>1, <1>2 DEF Reached
<1>5. CASE tx.kind = "data"
  <2>1. txq # <<>> /\ Head(txq) = tx.id /\ ~sendSync
    BY <1>1, <1>5 DEF TypeInv, HeadArmed, LossInv, SlotFrame
  <2>2. tx.id \in Reached'
    <3>1. CASE tx.id \in Reached
      BY <1>4, <3>1
    <3>2. CASE tx.id \notin Reached
      <4>1. rxSeq # txSeq
        BY <1>2, <2>1, <3>2 DEF LossInv, Fresh
      <4>2. ~Duplicate'
        BY <1>1, <1>3, <4>1 DEF Duplicate, IsRxFrameDuplicate
      <4>3. PendingNew' = {tx.id}
        BY <1>1, <1>5, <4>2 DEF PendingNew
      <4> QED BY <4>3 DEF Reached
    <3> QED BY <3>1, <3>2
  <2>3. AckSound' /\ Fresh'
    BY <1>1, <1>3, <2>1, <2>2 DEF AckSound, Fresh
  <2>4. NoSilentLoss'
    BY <1>1, <1>4 DEF LossInv, NoSilentLoss
  <2>5. NoFlushPending' /\ RxInIdle' /\ SyncWhileDown' /\ SlotFrame'
    BY <1>1 DEF LossInv, NoFlushPending, RxInIdle, SyncWhileDown, SlotFrame, InSlot
  <2> QED BY <2>3, <2>4, <2>5 DEF LossInv
<1>6. CASE tx.kind = "header"
  <2>1. sendSync
    BY <1>1, <1>6 DEF LossInv, SlotFrame
  <2>2. AckSound' /\ Fresh'
    BY <1>1, <1>3, <1>6, <2>1 DEF AckSound, Fresh
  <2>3. NoSilentLoss'
    BY <1>1, <1>4 DEF LossInv, NoSilentLoss
  <2>4. NoFlushPending' /\ RxInIdle' /\ SyncWhileDown' /\ SlotFrame'
    BY <1>1 DEF LossInv, NoFlushPending, RxInIdle, SyncWhileDown, SlotFrame, InSlot
  <2> QED BY <2>2, <2>3, <2>4 DEF LossInv
<1> QED BY <1>1, <1>5, <1>6 DEF TypeInv, TypeOK, SenderTypeOK, Frame

(* The sender learns the outcome.  An acknowledged frame moves the number   *)
(* on, away from the one the receiver remembers; sync frames end only with  *)
(* an acknowledged one, because only a good frame connects.                 *)
LEMMA TxCallbackLoss ==
  ASSUME TypeInv, LossInv, TxCallback PROVE LossInv'
<1>1. /\ UNCHANGED <<rxPhase, rxIn, rxSeq, taken, overruns>>
      /\ txPhase' = "between" /\ cs' = NewStatus
  BY DEF TxCallback, receiverVars
<1>2. Reached' = Reached /\ EffSeq' = EffSeq
  BY <1>1 DEF Reached, PendingNew, Duplicate, EffSeq
<1>3. /\ tx.seq = txSeq /\ txSeq \in SeqNum
      /\ tx.kind = "data" => ~sendSync
      /\ Acknowledged => /\ EffSeq \in {RxSeqNum(txSeq), RX_DEFAULT_SAW_INDEX}
                         /\ tx.kind = "data" => tx.id \in Reached
  <2>1. txPhase = "event"
    BY DEF TxCallback, TxDataAcked, TxDataLost, TxEmpty
  <2>2. txSeq \in SeqNum
    BY DEF TypeInv, TypeOK, SenderTypeOK, SeqNum, TX_DEFAULT_SAW_INDEX
  <2> QED BY <2>1, <2>2 DEF LossInv, SlotFrame, AckSound, InSlot
<1>4. Acknowledged => EffSeq # IncSeqNum(txSeq)
  BY <1>3, SawAlternates
<1>5. NewStatus.status \in {CONNECTED, DISCONNECTED}
  BY NewStatusType DEF StatusRecord
<1>6. ~Acknowledged /\ cs.status = DISCONNECTED => NewStatus.status = DISCONNECTED
  <2>1. ~Acknowledged => MainOutcome \in Outcome /\ MainOutcome # "good"
    BY DEF MainOutcome, Outcome, Acknowledged, TypeInv, TypeOK, SenderTypeOK
  <2>2. cs \in StatusRecord /\ synced \in BOOLEAN
    BY DEF TypeInv, TypeOK, SenderTypeOK
  <2> QED BY <2>1, <2>2, StaysDown DEF NewStatus
<1>7. BecomesDisconnected => NewStatus.status = DISCONNECTED /\ cs.status = CONNECTED
  BY DEF BecomesDisconnected
<1>8. SyncAfterStatus =>
         \/ sendSync /\ ~BecomesDisconnected
         \/ BecomesDisconnected /\ SenderIsCoordinator /\ TxSyncOnSyncing
  BY DEF SyncAfterStatus, LossInv, SyncWhileDown
<1>9. RxInIdle' /\ SlotFrame' /\ AckSound'
  BY <1>1 DEF LossInv, RxInIdle, SlotFrame, InSlot, AckSound
<1>10. NoFlushPending'
  BY DEF LossInv, NoFlushPending, TxCallback, TxDataAcked, TxDataLost, TxEmpty
<1>11. CASE TxDataAcked
  <2>1. SyncWhileDown'
    BY <1>1, <1>3, <1>7, <1>8, <1>11 DEF TxDataAcked, SyncWhileDown
  <2>2. Fresh'
    BY <1>2, <1>4, <1>11 DEF TxDataAcked, Fresh
  <2>3. NoSilentLoss'
    BY <1>2, <1>3, <1>11 DEF TxDataAcked, LossInv, NoSilentLoss
  <2> QED BY <1>9, <1>10, <2>1, <2>2, <2>3 DEF LossInv
<1>12. CASE TxDataLost
  <2>1. SyncWhileDown'
    BY <1>1, <1>3, <1>7, <1>8, <1>12 DEF TxDataLost, SyncWhileDown
  <2>2. Fresh'
    BY <1>2, <1>3, <1>12 DEF TxDataLost, LossInv, Fresh
  <2>3. NoSilentLoss'
    BY <1>2, <1>12 DEF TxDataLost, LossInv, NoSilentLoss
  <2> QED BY <1>9, <1>10, <2>1, <2>2, <2>3 DEF LossInv
<1>13. CASE TxEmpty
  <2>1. SyncWhileDown'
    <3>1. sendSync' => SenderIsCoordinator /\ TxSyncOnSyncing
      BY <1>8, <1>13 DEF TxEmpty, LossInv, SyncWhileDown
    <3>2. sendSync' => NewStatus.status = DISCONNECTED
      BY <1>5, <1>13, <3>1 DEF TxEmpty, IsConnected
    <3> QED BY <1>1, <3>1, <3>2 DEF SyncWhileDown
  <2>2. Fresh'
    <3>1. CASE Acknowledged
      BY <1>2, <1>4, <1>13, <3>1 DEF TxEmpty, Fresh
    <3>2. CASE ~Acknowledged
      <4>1. sendSync => sendSync'
        <5> SUFFICES ASSUME sendSync PROVE sendSync'
          OBVIOUS
        <5>1. SenderIsCoordinator /\ cs.status = DISCONNECTED
          BY DEF LossInv, SyncWhileDown
        <5>2. NewStatus.status = DISCONNECTED /\ ~IsConnected(NewStatus)
          BY <1>6, <3>2, <5>1 DEF IsConnected, CONNECTED, DISCONNECTED
        <5>3. ~BecomesDisconnected /\ SyncAfterStatus
          BY <5>1 DEF BecomesDisconnected, SyncAfterStatus, CONNECTED, DISCONNECTED
        <5> QED BY <1>13, <5>2, <5>3 DEF TxEmpty
      <4> QED BY <1>2, <1>13, <3>2, <4>1 DEF TxEmpty, LossInv, Fresh
    <3> QED BY <3>1, <3>2
  <2>3. NoSilentLoss'
    BY <1>2, <1>13 DEF TxEmpty, LossInv, NoSilentLoss
  <2> QED BY <1>9, <1>10, <2>1, <2>2, <2>3 DEF LossInv
<1> QED BY <1>11, <1>12, <1>13 DEF TxCallback

(* The receiver's callback turns what was pending into what is known.       *)
LEMMA RxCallbackLoss ==
  ASSUME TypeInv, LossInv, RxCallback PROVE LossInv'
<1>1. /\ UNCHANGED <<txFlush, sendSync, cs, txPhase, tx, txSeq, txq, txIn, acked>>
      /\ rxIn'.kind = "idle"
  BY DEF RxCallback, senderVars, IdleFrame
<1>2. EffSeq' = EffSeq
  BY <1>1 DEF RxCallback, RxMissed, RxInternal, RxStored, RxOverrun, EffSeq
<1>3. Reached \subseteq Reached'
  <2>1. taken \cup overruns \cup PendingNew \subseteq taken' \cup overruns'
    BY DEF RxCallback, RxMissed, RxInternal, RxStored, RxOverrun, PendingNew
  <2> QED BY <2>1 DEF Reached
<1>4. NoFlushPending' /\ RxInIdle' /\ SyncWhileDown' /\ SlotFrame'
  BY <1>1 DEF LossInv, NoFlushPending, RxInIdle, SyncWhileDown, SlotFrame, InSlot
<1>5. AckSound' /\ Fresh' /\ NoSilentLoss'
  BY <1>1, <1>2, <1>3 DEF LossInv, AckSound, Acknowledged, Fresh, NoSilentLoss
<1> QED BY <1>4, <1>5 DEF LossInv

(* A flush brings either number back to its default, which the other device *)
(* never holds.                                                             *)
LEMMA TxReconnectLoss ==
  ASSUME TypeInv, LossInv, NEW flush \in BOOLEAN, TxReconnect(flush)
  PROVE  LossInv'
<1>1. /\ UNCHANGED <<txFlush, rxPhase, rxIn, rxSeq, tx, txIn, taken, overruns, acked>>
      /\ txPhase' = "between" /\ cs'.status = DISCONNECTED
      /\ sendSync' = IF SenderIsCoordinator THEN TxSyncOnSyncing ELSE sendSync
  BY DEF TxReconnect, receiverVars, StatusReset
<1>2. Reached' = Reached /\ EffSeq' = EffSeq
  BY <1>1 DEF Reached, PendingNew, Duplicate, EffSeq
<1>3. Fresh'
  <2>1. CASE flush
    <3>1. txSeq' = TX_DEFAULT_SAW_INDEX
      BY <2>1 DEF TxReconnect, SeqAfterFlush
    <3>2. EffSeq # TX_DEFAULT_SAW_INDEX
      BY EffSeqType DEF TX_DEFAULT_SAW_INDEX, RX_DEFAULT_SAW_INDEX
    <3> QED BY <1>2, <3>1, <3>2 DEF Fresh
  <2>2. CASE ~flush
    <3>1. txq' = txq /\ txSeq' = txSeq
      BY <2>2 DEF TxReconnect
    <3>2. sendSync => sendSync'
      BY <1>1 DEF LossInv, SyncWhileDown
    <3> QED BY <1>2, <3>1, <3>2 DEF LossInv, Fresh
  <2> QED BY <2>1, <2>2
<1>4. NoFlushPending' /\ RxInIdle' /\ SyncWhileDown' /\ SlotFrame' /\ AckSound'
  BY <1>1 DEF LossInv, NoFlushPending, RxInIdle, SyncWhileDown, SlotFrame, InSlot,
              AckSound
<1>5. NoSilentLoss'
  BY <1>1, <1>2 DEF LossInv, NoSilentLoss
<1> QED BY <1>3, <1>4, <1>5 DEF LossInv

LEMMA RxReconnectLoss ==
  ASSUME TypeInv, LossInv, NEW flush \in BOOLEAN, RxReconnect(flush)
  PROVE  LossInv'
<1>1. /\ UNCHANGED <<txFlush, rxIn, sendSync, cs, txPhase, tx, txSeq, txq, txIn,
                     taken, overruns, acked>>
      /\ rxIn.kind = "idle"
      /\ rxSeq' = IF flush THEN RX_DEFAULT_SAW_INDEX ELSE rxSeq
  BY DEF RxReconnect, senderVars, LossInv, RxInIdle, SeqAfterFlush
<1>2. Reached' = Reached
  BY <1>1 DEF Reached, PendingNew
<1>3. /\ EffSeq' = IF flush THEN RX_DEFAULT_SAW_INDEX ELSE EffSeq
      /\ txSeq # RX_DEFAULT_SAW_INDEX
  BY <1>1 DEF EffSeq, TypeInv, TypeOK, SenderTypeOK, TX_DEFAULT_SAW_INDEX,
              RX_DEFAULT_SAW_INDEX
<1>4. NoFlushPending' /\ RxInIdle' /\ SyncWhileDown' /\ SlotFrame'
  BY <1>1 DEF LossInv, NoFlushPending, RxInIdle, SyncWhileDown, SlotFrame, InSlot
<1>5. AckSound' /\ Fresh' /\ NoSilentLoss'
  BY <1>1, <1>2, <1>3 DEF LossInv, AckSound, Acknowledged, Fresh, NoSilentLoss
<1> QED BY <1>4, <1>5 DEF LossInv

LEMMA NextLoss ==
  ASSUME GuaranteedMode, TypeInv, LossInv, [Next]_vars
  PROVE  LossInv'
<1>1. CASE Send
  BY <1>1, SendLoss
<1>2. CASE ReadDone \/ SyncChange
  <2>1. UNCHANGED <<txFlush, rxPhase, rxIn, rxSeq, sendSync, cs, txPhase, tx, txSeq,
                    txq, txIn, taken, overruns, acked>>
    BY <1>2 DEF ReadDone, SyncChange, senderVars, receiverVars, historyVars
  <2> QED BY <2>1, UntouchedLoss
<1>3. CASE TxFlushRequest
  BY <1>3 DEF TxFlushRequest, GuaranteedMode
<1>4. CASE TxPrepare
  BY <1>4, TxPrepareLoss
<1>5. CASE TxCallback
  BY <1>5, TxCallbackLoss
<1>6. CASE \E flush \in BOOLEAN : TxReconnect(flush)
  BY <1>6, TxReconnectLoss
<1>7. CASE RxPrepare
  BY <1>7, RxPrepareLoss
<1>8. CASE RxCallback
  BY <1>8, RxCallbackLoss
<1>9. CASE \E flush \in BOOLEAN : RxReconnect(flush)
  BY <1>9, RxReconnectLoss
<1>10. CASE Exchange
  BY <1>10, ExchangeMissedLoss, ExchangeReceivedLoss DEF Exchange
<1>11. CASE UNCHANGED vars
  BY <1>11, UntouchedLoss DEF vars, senderVars, receiverVars, historyVars
<1> QED BY <1>1, <1>2, <1>3, <1>4, <1>5, <1>6, <1>7, <1>8, <1>9, <1>10, <1>11
        DEF Next, App, Sender, Receiver

(* In guaranteed delivery mode without auto-sync and credit flow control a  *)
(* payload reported as sent has reached the receiver's MAC: for every queue *)
(* size, role, connection threshold, loss pattern and sequence of           *)
(* reconnections with or without a flush on either side.                    *)
THEOREM NothingSilentlyLost ==
  ASSUME GuaranteedMode PROVE Spec => []NoSilentLoss
<1>1. Init => TypeInv /\ LossInv
  BY InitType, InitLoss
<1>2. TypeInv /\ LossInv /\ [Next]_vars => (TypeInv /\ LossInv)'
  BY NextType, NextLoss
<1>3. LossInv => NoSilentLoss
  BY DEF LossInv
<1> QED BY <1>1, <1>2, <1>3, PTL DEF Spec
=============================================================================
