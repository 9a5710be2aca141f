------------------------------- MODULE MacLink -------------------------------
(***************************************************************************)
(* One main connection of the SPARK MAC layer (wps_mac.c, wps_mac_xlayer.c, *)
(* wps_mac_protocols.c) with acknowledgement and stop-and-wait ARQ: the MAC  *)
(* of the device that sends on it, the MAC of the device that receives on   *)
(* it, and the radio slot between them.                                     *)
(*                                                                         *)
(* In its time slot the connection goes through three phases on each side:  *)
(* "between" slots of this connection, "armed" once the callback that ended *)
(* the previous slot prepared it (process_next_timeslot), and "event" once  *)
(* the radio finished and the PHY signalled the outcome (wps_mac_phy_       *)
(* callback).  Other connections' slots lie between two slots of this one,  *)
(* which is why processing an outcome and preparing the next slot are two   *)
(* callbacks here.  Applications run between any two callbacks.             *)
(***************************************************************************)
EXTENDS SawArq, CreditFlowCtrl, ConnectStatus, Sequences, FiniteSets

CONSTANTS
    NumMsgs,          \* bound: payloads the application submits, 1..NumMsgs
    TxQueueSize,      \* queue_size of the connection at the sender
    RxQueueSize,      \* queue_size of the connection at the receiver
    SenderIsNode,     \* role of the sender: NETWORK_NODE, else NETWORK_COORDINATOR
    AutoSync,         \* swc_connection_set_auto_sync
    TxSyncOnSyncing,  \* cfg.tx_sync_frame_on_syncing, the same on both devices
    TtlTicks,         \* BOOLEAN: a time deadline is configured
    TtlRetries,       \* try_deadline, 0 for none
    UseTxFlush,       \* BOOLEAN: the application uses swc_send_tx_flush_request
    SharedRxPool,     \* BOOLEAN: other connections share the receiver's node pool
    MaxRestarts       \* bound: disconnect/connect cycles, both devices together

ASSUME MacLinkAssumption ==
    /\ NumMsgs \in Nat /\ TxQueueSize \in Nat /\ RxQueueSize \in Nat
    /\ TxQueueSize >= 2 /\ RxQueueSize >= 2     \* WPS_MIN_QUEUE_SIZE
    /\ SenderIsNode \in BOOLEAN /\ AutoSync \in BOOLEAN
    /\ TxSyncOnSyncing \in BOOLEAN /\ TtlTicks \in BOOLEAN
    /\ TtlRetries \in Nat /\ UseTxFlush \in BOOLEAN /\ SharedRxPool \in BOOLEAN
    /\ MaxRestarts \in Nat

VARIABLES
    \* the sender
    next,       \* the id of the next payload the application will submit
    txq,        \* xlayer_queue: ids of the payloads waiting, oldest first
    retry,      \* frame.retry_count of the oldest payload
    txSeq,      \* stop_and_wait_arq.seq_num
    credits,    \* credit_flow_ctrl.credits_count
    skipped,    \* credit_flow_ctrl.skipped_frames_count
    sendSync,   \* send_sync_frame
    cs,         \* connect_status
    txFlush,    \* tx_flush
    synced,     \* slave_sync_state = STATE_SYNCED; TRUE at a coordinator
    txPhase,    \* "between", "armed", "event"
    tx,         \* main_xlayer: the frame armed for the slot
    txIn,       \* the outcome the PHY signalled
    txReply,    \* the credit field of the acknowledgement received
    \* the receiver
    rxq,        \* xlayer_queue: ids stored and not yet read
    rxSeq,      \* stop_and_wait_arq.seq_num
    rxNode,     \* a node was free for the slot: rx_node # NULL
    reply,      \* the credit field of the acknowledgement armed
    rxSynced,   \* as synced, at the receiver
    rxPhase,
    rxIn,       \* what the radio received
    \* history
    taken,      \* ids stored in the receiver's queue at some time
    again,      \* ids stored a second time
    overruns,   \* ids refused with the RX_OVERRUN event
    acked,      \* ids reported to the sending application with tx_success
    dropped,    \* ids reported with tx_drop, or removed by a queue flush
    restarts,   \* disconnect/connect cycles so far
    wasDown     \* the link was declared disconnected, or a device restarted

senderVars   == <<next, txq, retry, txSeq, credits, skipped, sendSync, cs,
                  txFlush, synced, txPhase, tx, txIn, txReply>>
receiverVars == <<rxq, rxSeq, rxNode, reply, rxSynced, rxPhase, rxIn>>
historyVars  == <<taken, again, overruns, acked, dropped, restarts, wasDown>>
vars == <<senderVars, receiverVars, historyVars>>

-----------------------------------------------------------------------------
(* Frames.  A frame has a payload (data) or is the header alone; "idle"     *)
(* stands for empty_frame_tx with no header: nothing is sent.               *)

Msgs == 1..NumMsgs
NoId == 0

DataFrame(id, seq) == [kind |-> "data",   id |-> id,   seq |-> seq]
HeaderFrame(seq)   == [kind |-> "header", id |-> NoId, seq |-> seq]
IdleFrame(seq)     == [kind |-> "idle",   id |-> NoId, seq |-> seq]

Frame == [kind : {"data"}, id : Msgs, seq : SeqNum]
            \cup [kind : {"header", "idle"}, id : {NoId}, seq : SeqNum]

GuaranteedDelivery == IsGuaranteedDeliveryMode(TtlTicks, TtlRetries)

SenderIsCoordinator == ~SenderIsNode

Ids(q) == {q[i] : i \in DOMAIN q}

-----------------------------------------------------------------------------
Init ==
    /\ next = 1 /\ txq = <<>> /\ retry = 0 /\ txSeq = TX_DEFAULT_SAW_INDEX
    /\ credits = InitCredits /\ skipped = 0
    /\ sendSync = (SenderIsCoordinator /\ TxSyncOnSyncing)
    /\ cs = StatusReset /\ txFlush = FALSE /\ synced = SenderIsCoordinator
    /\ txPhase = "between" /\ tx = IdleFrame(0) /\ txIn = "wait" /\ txReply = 0
    /\ rxq = <<>> /\ rxSeq = RX_DEFAULT_SAW_INDEX /\ rxNode = FALSE /\ reply = 0
    /\ rxSynced = SenderIsNode /\ rxPhase = "between" /\ rxIn = IdleFrame(0)
    /\ taken = {} /\ again = {} /\ overruns = {} /\ acked = {} /\ dropped = {}
    /\ restarts = 0 /\ wasDown = FALSE

-----------------------------------------------------------------------------
(* The applications.                                                        *)

(* xlayer_queue_enqueue_node.                                               *)
EnqueueAtHead(q, id) == <<id>> \o q      \* mutant: xlayer_queue_enqueue_at_head
Enqueue(q, id) == Append(q, id)

(* swc_connection_send, wps_send: the payload joins the queue if it fits.   *)
Send ==
    /\ next <= NumMsgs
    /\ Len(txq) < TxQueueSize
    /\ txq' = Enqueue(txq, next)
    /\ next' = next + 1
    /\ UNCHANGED <<retry, txSeq, credits, skipped, sendSync, cs, txFlush,
                   synced, txPhase, tx, txIn, txReply, receiverVars, historyVars>>

(* swc_connection_receive_complete, wps_read_done.                          *)
ReadDone ==
    /\ rxq # <<>>
    /\ rxq' = Tail(rxq)
    /\ UNCHANGED <<senderVars, rxSeq, rxNode, reply, rxSynced, rxPhase, rxIn,
                   historyVars>>

(* swc_send_tx_flush_request: the flag is taken when a slot is prepared.    *)
TxFlushRequest ==
    /\ UseTxFlush /\ ~txFlush
    /\ txFlush' = TRUE
    /\ UNCHANGED <<next, txq, retry, txSeq, credits, skipped, sendSync, cs,
                   synced, txPhase, tx, txIn, txReply, receiverVars, historyVars>>

(* The sender is a node: it finds and loses its synchronisation with the    *)
(* frames of another connection, in other slots.                            *)
SyncChange ==
    /\ SenderIsNode
    /\ synced' = ~synced
    /\ UNCHANGED <<next, txq, retry, txSeq, credits, skipped, sendSync, cs,
                   txFlush, txPhase, tx, txIn, txReply, receiverVars, historyVars>>

-----------------------------------------------------------------------------
(* The sender prepares the slot: prepare_tx_main, fill_header.              *)

(* How many of the oldest payloads flush_timeout_frames_before_sending may  *)
(* drop.  A time deadline may have passed for any of them; the retries      *)
(* deadline can only have passed for the oldest, the others were not tried. *)
TimeoutDrops ==
    IF GuaranteedDelivery THEN {0}
    ELSE {n \in 0..Len(txq) :
            /\ n = 0 => ~(txq # <<>> /\ IsRetriesTimeout(retry, TtlRetries))
            /\ n = 1 => TtlTicks \/ IsRetriesTimeout(retry, TtlRetries)
            /\ n > 1 => TtlTicks}

(* retry_count++ of the payload found in time, after n were dropped; above  *)
(* the deadline its value no longer matters.                                *)
CountedRetry(n) ==
    LET tried == IF n = 0 THEN retry ELSE 0
    IN  IF tried < TtlRetries THEN tried + 1 ELSE TtlRetries

(* The frames a coordinator with a pending sync frame holds back.           *)
NeverHeldBack == FALSE                  \* mutant: no sync frame after a disconnect
HeldBack == sendSync /\ SenderIsCoordinator

(* xlayer_queue_get_node: the payload to send.                              *)
NewestPayload(q) == q[Len(q)]           \* mutant: the wrong end of the queue
OldestPayload(q) == Head(q)

(* wps_mac_xlayer_get_xlayer_for_tx_main, for the queue q and the skipped   *)
(* counter k as the preparation left them; the header carries the sequence  *)
(* number whatever the frame.                                               *)
FrameFor(q, k) ==
    LET available == IsAvailable(credits) /\ q # <<>>
        poll == (AutoSync /\ synced) \/ IsSkippedFramesExceed(k)
    IN  CASE available /\ HeldBack -> HeaderFrame(txSeq)
          [] available /\ ~HeldBack /\ synced -> DataFrame(OldestPayload(q), txSeq)
          [] ~available \/ (~HeldBack /\ ~synced) ->
                IF poll THEN HeaderFrame(txSeq) ELSE IdleFrame(txSeq)

(* The queue once n payloads expired, and once a requested flush took the   *)
(* oldest one left; send_done clears the request, so a drop consumes it.    *)
InTime(n) == SubSeq(txq, n + 1, Len(txq))
Flushes(n) == txFlush /\ n = 0 /\ InTime(n) # <<>>
Kept(n) == IF Flushes(n) THEN Tail(InTime(n)) ELSE InTime(n)

TxPrepare ==
    /\ txPhase = "between"
    /\ \E n \in TimeoutDrops :
          /\ txq' = Kept(n)
          /\ retry' = IF GuaranteedDelivery \/ Flushes(n) \/ Kept(n) = <<>>
                      THEN 0 ELSE CountedRetry(n)
          /\ dropped' = dropped \cup (Ids(txq) \ Ids(Kept(n)))
          /\ tx' = FrameFor(Kept(n), SkippedAfterAsking(credits, skipped))
    /\ skipped' = SkippedAfterAsking(credits, skipped)
    /\ txFlush' = FALSE
    /\ txPhase' = "armed"
    /\ UNCHANGED <<next, txSeq, credits, sendSync, cs, synced, txIn, txReply,
                   receiverVars, taken, again, overruns, acked, restarts, wasDown>>

-----------------------------------------------------------------------------
(* The receiver prepares the slot: prepare_rx_main, prepare_tx_empty_conn_  *)
(* auto, fill_ack_header.                                                   *)

(* wps_mac_xlayer_get_xlayer_for_rx: is there a node for the reception?     *)
(* The pool has RxQueueSize nodes for this connection; connections that     *)
(* share it may take them or leave more.                                    *)
FreeNode == {free \in BOOLEAN : SharedRxPool \/ (free <=> Len(rxq) < RxQueueSize)}

RxPrepare ==
    /\ rxPhase = "between"
    /\ rxNode' \in FreeNode
    /\ reply' = Advertised(RxQueueSize - Len(rxq))
    /\ rxPhase' = "armed"
    /\ UNCHANGED <<senderVars, rxq, rxSeq, rxSynced, rxIn, historyVars>>

(* While it is not synchronised, a receiver that expects sync frames bounds *)
(* the reception to the header: the radio rejects a longer frame.           *)
AcceptsPayload == rxSynced \/ ~TxSyncOnSyncing \/ ~rxNode

-----------------------------------------------------------------------------
(* The slot: the radios exchange the frame and its acknowledgement, and the *)
(* PHYs signal the outcome (process_event_tx, process_event_rx).            *)

(* Nothing is received: nothing was sent, the frame was lost or its CRC     *)
(* failed, or no channel was clear.                                         *)
ExchangeMissed ==
    /\ txPhase = "armed" /\ rxPhase = "armed"
    /\ txIn' = IF tx.kind = "idle" THEN "wait" ELSE "lost"
    /\ rxIn' = IdleFrame(0)
    /\ txPhase' = "event" /\ rxPhase' = "event"
    /\ UNCHANGED <<next, txq, retry, txSeq, credits, skipped, sendSync, cs,
                   txFlush, synced, tx, txReply, rxq, rxSeq, rxNode, reply,
                   rxSynced, historyVars>>

(* The frame is received.  Its acknowledgement is lost, or received, or     *)
(* (with credits) received with a header the sender cannot use.             *)
ExchangeReceived(outcome) ==
    /\ txPhase = "armed" /\ rxPhase = "armed"
    /\ tx.kind # "idle"
    /\ tx.kind = "data" => AcceptsPayload
    /\ outcome = "ackNoReply" => CreditFlow
    /\ txIn' = outcome
    /\ txReply' = IF outcome = "ack" THEN reply ELSE txReply
    /\ rxIn' = tx
    /\ txPhase' = "event" /\ rxPhase' = "event"
    /\ UNCHANGED <<next, txq, retry, txSeq, credits, skipped, sendSync, cs,
                   txFlush, synced, tx, rxq, rxSeq, rxNode, reply, rxSynced,
                   historyVars>>

Exchange ==
    \/ ExchangeMissed
    \/ \E outcome \in {"ack", "ackNoReply", "lost"} : ExchangeReceived(outcome)

-----------------------------------------------------------------------------
(* The sender's callback: process_tx_main or process_tx_main_empty, then    *)
(* process_rx_auto for the acknowledgement's credit field.                  *)

Acknowledged == txIn \in {"ack", "ackNoReply"}

MainOutcome == IF Acknowledged THEN "good" ELSE txIn

(* update_connect_status_main, one slot having elapsed.                     *)
NewStatus == UpdateConnectStatus(cs, MainOutcome, synced, 1)
BecomesDisconnected == cs.status = CONNECTED /\ NewStatus.status = DISCONNECTED
SyncAfterStatus ==
    IF BecomesDisconnected /\ SenderIsCoordinator THEN TxSyncOnSyncing
                                                  ELSE sendSync

(* wps_mac_receive_credit_flow_control_header_acknowledge.                  *)
CreditsAfterReply(c) == IF CreditFlow /\ txIn = "ack" THEN txReply ELSE c

(* The payload was acknowledged: the sequence number moves on, send_done    *)
(* removes it from the queue and forgets a flush request.                   *)
TxDataAcked ==
    /\ txPhase = "event" /\ tx.kind = "data" /\ Acknowledged
    /\ txSeq' = IncSeqNum(txSeq)
    /\ credits' = CreditsAfterReply(CreditsAfterAck(credits))
    /\ skipped' = 0
    /\ txFlush' = FALSE
    /\ txq' = Tail(txq)
    /\ retry' = 0
    /\ acked' = acked \cup {tx.id}
    /\ sendSync' = SyncAfterStatus
    /\ UNCHANGED dropped

(* The payload was not acknowledged and stays at the head of the queue.     *)
TxDataLost ==
    /\ txPhase = "event" /\ tx.kind = "data" /\ ~Acknowledged
    /\ sendSync' = SyncAfterStatus
    /\ UNCHANGED <<txSeq, credits, skipped, txFlush, txq, retry, acked, dropped>>

(* A header-only frame, or nothing, was sent.  A link found connected ends  *)
(* the sync frames; an acknowledged header moves the sequence number on.    *)
TxEmpty ==
    /\ txPhase = "event" /\ tx.kind # "data"
    /\ sendSync' = (SyncAfterStatus /\ ~(SenderIsCoordinator /\ IsConnected(NewStatus)))
    /\ txSeq' = IF Acknowledged THEN IncSeqNum(txSeq) ELSE txSeq
    /\ credits' = CreditsAfterReply(credits)
    /\ UNCHANGED <<skipped, txFlush, txq, retry, acked, dropped>>

TxCallback ==
    /\ TxDataAcked \/ TxDataLost \/ TxEmpty
    /\ cs' = NewStatus
    /\ wasDown' = (wasDown \/ BecomesDisconnected)
    /\ txPhase' = "between"
    /\ UNCHANGED <<next, synced, tx, txIn, txReply, receiverVars,
                   taken, again, overruns, restarts>>

-----------------------------------------------------------------------------
(* The receiver's callback: process_rx_main, update_sync.                   *)

Duplicate == IsRxFrameDuplicate(rxIn.seq, rxSeq)

(* Nothing was received.  A node whose losses lasted too long (link_tdma_   *)
(* sync_slave_adjust) starts searching again.                               *)
RxMissed ==
    /\ rxIn.kind = "idle"
    /\ rxSynced' \in (IF SenderIsNode THEN {rxSynced} ELSE {rxSynced, FALSE})
    /\ UNCHANGED <<rxq, rxSeq, taken, again, overruns>>

(* A header alone, or a duplicate, only updates the sequence number.        *)
RxInternal ==
    /\ rxIn.kind = "header" \/ (rxIn.kind = "data" /\ Duplicate)
    /\ rxSeq' = RxSeqNum(rxIn.seq)
    /\ rxSynced' = TRUE
    /\ UNCHANGED <<rxq, taken, again, overruns>>

(* A new payload: stored, or refused when the queue is full or the slot was *)
(* armed without a node.  Either way the radio has acknowledged it.         *)
HasRoom == Len(rxq) < RxQueueSize /\ rxNode

RxStored ==
    /\ rxIn.kind = "data" /\ ~Duplicate /\ HasRoom
    /\ rxSeq' = RxSeqNum(rxIn.seq)
    /\ rxSynced' = TRUE
    /\ rxq' = Enqueue(rxq, rxIn.id)
    /\ taken' = taken \cup {rxIn.id}
    /\ again' = IF rxIn.id \in taken THEN again \cup {rxIn.id} ELSE again
    /\ UNCHANGED overruns

RxOverrun ==
    /\ rxIn.kind = "data" /\ ~Duplicate /\ ~HasRoom
    /\ rxSeq' = RxSeqNum(rxIn.seq)
    /\ rxSynced' = TRUE
    /\ overruns' = overruns \cup {rxIn.id}
    /\ UNCHANGED <<rxq, taken, again>>

RxCallback ==
    /\ rxPhase = "event"
    /\ RxMissed \/ RxInternal \/ RxStored \/ RxOverrun
    /\ rxPhase' = "between"
    /\ rxIn' = IdleFrame(0)
    /\ UNCHANGED <<senderVars, rxNode, reply, acked, dropped, restarts, wasDown>>

-----------------------------------------------------------------------------
(* A disconnect request and the connection that follows.  The request is    *)
(* served when the radio has been configured, never between the radio's     *)
(* event and its callback; reset_connections_parameters clears the status,  *)
(* wps_mac_reset the synchronisation.  In between the application may flush *)
(* the stopped connection (swc_connection_flush_queue), which also brings   *)
(* the sequence number back to its default.                                 *)

FlushKeepsSeq(seq, default) == seq         \* mutant: link_saw_arq_reset forgotten
SeqAfterFlush(seq, default) == default

TxReconnect(flush) ==
    /\ txPhase # "event" /\ restarts < MaxRestarts
    /\ restarts' = restarts + 1
    /\ wasDown' = TRUE
    /\ cs' = StatusReset
    /\ sendSync' = IF SenderIsCoordinator THEN TxSyncOnSyncing ELSE sendSync
    /\ synced' = SenderIsCoordinator
    /\ txq' = IF flush THEN <<>> ELSE txq
    /\ retry' = IF flush THEN 0 ELSE retry
    /\ txSeq' = IF flush THEN SeqAfterFlush(txSeq, TX_DEFAULT_SAW_INDEX) ELSE txSeq
    /\ dropped' = IF flush THEN dropped \cup Ids(txq) ELSE dropped
    /\ txPhase' = "between"
    /\ UNCHANGED <<next, credits, skipped, txFlush, tx, txIn, txReply,
                   receiverVars, taken, again, overruns, acked>>

RxReconnect(flush) ==
    /\ rxPhase # "event" /\ restarts < MaxRestarts
    /\ restarts' = restarts + 1
    /\ wasDown' = TRUE
    /\ rxSynced' = SenderIsNode
    /\ rxq' = IF flush THEN <<>> ELSE rxq
    /\ rxSeq' = IF flush THEN SeqAfterFlush(rxSeq, RX_DEFAULT_SAW_INDEX) ELSE rxSeq
    /\ rxPhase' = "between"
    /\ UNCHANGED <<senderVars, rxNode, reply, rxIn, taken, again, overruns,
                   acked, dropped>>

-----------------------------------------------------------------------------
Sender   == TxPrepare \/ TxCallback \/ \E flush \in BOOLEAN : TxReconnect(flush)
Receiver == RxPrepare \/ RxCallback \/ \E flush \in BOOLEAN : RxReconnect(flush)
App      == Send \/ ReadDone \/ TxFlushRequest

Next == App \/ SyncChange \/ Sender \/ Receiver \/ Exchange

Spec == Init /\ [][Next]_vars

(* Fairness: the radio's interrupts run every slot and their callbacks are  *)
(* served, the receiving application reads, and the medium does not lose    *)
(* every payload, nor every header, nor every acknowledgement, for ever.    *)
Fairness ==
    /\ WF_vars(TxPrepare) /\ WF_vars(RxPrepare)
    /\ WF_vars(TxCallback) /\ WF_vars(RxCallback)
    /\ WF_vars(Exchange) /\ WF_vars(ReadDone)
    /\ SF_vars(tx.kind = "data" /\ ExchangeReceived("ack"))
    /\ SF_vars(tx.kind = "header" /\ ExchangeReceived("ack"))

FairSpec == Spec /\ Fairness

(* The callbacks are served but the medium may lose everything.             *)
LossySpec ==
    /\ Spec
    /\ WF_vars(TxPrepare) /\ WF_vars(RxPrepare)
    /\ WF_vars(TxCallback) /\ WF_vars(RxCallback) /\ WF_vars(Exchange)
-----------------------------------------------------------------------------
(* Properties.                                                              *)

SenderTypeOK ==
    /\ next \in 1..(NumMsgs + 1)
    /\ txq \in Seq(Msgs) /\ Len(txq) <= TxQueueSize
    /\ retry \in 0..TtlRetries
    /\ txSeq \in {0, 1, TX_DEFAULT_SAW_INDEX}
    /\ credits \in Nat /\ skipped \in 0..(SkipWrap - 1)
    /\ sendSync \in BOOLEAN /\ cs \in StatusRecord
    /\ txFlush \in BOOLEAN /\ synced \in BOOLEAN
    /\ txPhase \in {"between", "armed", "event"}
    /\ tx \in Frame /\ txIn \in {"ack", "ackNoReply", "lost", "wait"}
    /\ txReply \in Nat

ReceiverTypeOK ==
    /\ rxq \in Seq(Msgs) /\ Len(rxq) <= RxQueueSize
    /\ rxSeq \in {0, 1, RX_DEFAULT_SAW_INDEX}
    /\ rxNode \in BOOLEAN /\ reply \in Nat /\ rxSynced \in BOOLEAN
    /\ rxPhase \in {"between", "armed", "event"}
    /\ rxIn \in Frame

HistoryTypeOK ==
    /\ taken \subseteq Msgs /\ again \subseteq Msgs /\ overruns \subseteq Msgs
    /\ acked \subseteq Msgs /\ dropped \subseteq Msgs
    /\ restarts \in 0..MaxRestarts /\ wasDown \in BOOLEAN

(* Every variable has its type; the sequence number a sender holds is never *)
(* the receivers' default and the other way round.                          *)
TypeOK == SenderTypeOK /\ ReceiverTypeOK /\ HistoryTypeOK

(* Payloads the receiving MAC has had in hand: stored, refused with the     *)
(* overrun event, or received in the slot whose callback has yet to run.    *)
PendingNew == IF rxIn.kind = "data" /\ ~Duplicate THEN {rxIn.id} ELSE {}
Reached == taken \cup overruns \cup PendingNew

(* A payload reported as sent (tx_success) was taken by the receiver or     *)
(* reported there as an overrun: none is acknowledged by the radio and then *)
(* silently discarded as a duplicate, whatever acknowledgements are lost    *)
(* and whichever device reconnects or flushes its queue.                    *)
NoSilentLoss == acked \subseteq Reached

(* A payload stored for the first time is newer than all stored before it.  *)
StoredInOrder ==
    [][\A new \in taken' \ taken : \A old \in taken : old < new]_vars

(* As long as the link stays up no payload is stored twice: retransmissions *)
(* after a lost acknowledgement are recognised.                             *)
ExactlyOnceWhileUp == ~wasDown => again = {}

(* Without reconnections only the first payload to get through can be       *)
(* stored twice: its sequence number 2 is remembered as 0.                  *)
OnlyFirstRepeated ==
    restarts = 0 => \A i \in again : 1..(i - 1) \subseteq dropped

(* With credit flow control, and as long as the link stays up, a payload    *)
(* never meets a full queue or a slot armed without a node, although the    *)
(* credits a sender acts on were counted slots ago.                         *)
NoOverrunWhileUp == ~wasDown => overruns = {}

(* When payloads expire, only the payload right behind an expired one can   *)
(* be acknowledged and yet be lost: it inherits a used sequence number.     *)
LossOnlyAfterDrop == \A i \in acked \ Reached : i - 1 \in dropped

(* Every payload submitted eventually leaves the queue, acknowledged or     *)
(* dropped.                                                                 *)
EventuallySettled ==
    \A i \in Msgs : (i < next) ~> (i \in acked \cup dropped)

(* In guaranteed delivery mode the connection is a ReliableLink.            *)
RL == INSTANCE ReliableLink WITH
        submitted <- next - 1,
        settled   <- next - 1 - Len(txq),
        reached   <- Reached,
        confirmed <- acked
ReliableDelivery == RL!Spec
=============================================================================
