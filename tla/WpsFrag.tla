------------------------------- MODULE WpsFrag -------------------------------
(***************************************************************************)
(* Fragmentation (wps_frag.c) on one connection, both ends.  The sender     *)
(* cuts a payload into fragments that share a transaction number and later  *)
(* turns acknowledgements of fragments into one success callback per        *)
(* payload; the receiver moves every frame that arrives from the fragment   *)
(* queue to the connection's queue, follows the fragments' numbers, throws  *)
(* transactions with holes away and tells the application when a payload    *)
(* is complete.  The application then reads it fragment by fragment.        *)
(*                                                                         *)
(* The connection below delivers in order and at most once, which is what   *)
(* MacLink checks; frames may expire, with or without having been received, *)
(* and be refused by a full receiver.  wps_frag_send runs in the            *)
(* application and is interrupted by slots and callbacks between its        *)
(* fragments.  Callbacks run one after the other, in the order in which the *)
(* MAC queued them and some time after the frames that caused them.         *)
(***************************************************************************)
EXTENDS Naturals, Sequences, FiniteSets, SequencesExt

CONSTANTS
    NumMsgs,             \* bound: payloads the application tries to send
    MaxFragments,        \* most fragments of a payload; the reader's buffer
    TxQueueSize,         \* max_size of the sending connection's queue
    MAX_TRANSACTION_ID,
    Setups               \* how the two ends are configured and used

SetupType == [polling : BOOLEAN,  \* the application polls the enqueued count
                                  \* instead of reading in the callback
              lossy : BOOLEAN,    \* payloads have a deadline
              exact : BOOLEAN,    \* sizes that fill the last fragment too
              queueSize : Nat,    \* max_size of the receiver's two queues
              poolSize : Nat]     \* nodes in the receiver's pool

ASSUME WpsFragAssumption ==
    /\ NumMsgs \in Nat /\ MaxFragments \in 1..256 /\ TxQueueSize \in Nat \ {0}
    /\ MAX_TRANSACTION_ID \in Nat \ {0}
    /\ Setups \subseteq SetupType
    /\ \A s \in Setups : s.queueSize > 0 /\ s.poolSize >= s.queueSize

VARIABLES
    setup,      \* chosen once
    sentCount,  \* payloads given to wps_frag_send so far
    sending,    \* the call of wps_frag_send in progress, or NotSending
    nextId,     \* the static transaction_id of wps_frag_send
    txq,        \* the sender's queue
    meta,       \* meta_data_queue_tx
    remaining,  \* remaining_fragment
    acks,       \* TX success callbacks waiting to run
    reports,    \* TX success callbacks given to the application
    events,     \* the receiver's callbacks waiting to run
    overrun,    \* wps_error = WPS_RX_OVERRUN_ERROR
    loaded,     \* the count a polling reader is about to decrement, or NotReading
    rx,         \* the receiver's queues and frag_t, a record
    accepted,   \* history: fragments of each payload whose send succeeded
    stored      \* history: how many fragments of each payload were stored

senderVars == <<sentCount, sending, nextId, txq, meta, remaining, acks, reports, accepted>>
receiverVars == <<events, overrun, loaded, rx, stored>>
vars == <<setup, senderVars, receiverVars>>

NotSending == [msg |-> 0, count |-> 0, next |-> 0]
NotReading == 0

(* The transfer type of fragment num of a payload of count fragments.       *)
TransferType(num, count) ==
    CASE count = 1 -> "full"
      [] count > 1 /\ num < count - 1 -> "nonlast"
      [] OTHER -> "last"

(* A frame: its transaction control and number, and whose payload it holds. *)
Frame(num, count, id, msg) ==
    [type |-> TransferType(num, count), tid |-> id, num |-> num, msg |-> msg]

Frames == [type : {"full", "nonlast", "last"}, tid : 0..MAX_TRANSACTION_ID - 1,
           num : 0..MaxFragments - 1, msg : 1..NumMsgs]

Init ==
    /\ setup \in Setups
    /\ sentCount = 0 /\ sending = NotSending /\ nextId = 0
    /\ txq = <<>> /\ meta = <<>> /\ remaining = 0 /\ acks = 0 /\ reports = 0
    /\ events = <<>> /\ overrun = FALSE /\ loaded = NotReading
    /\ rx = [frag |-> <<>>, queue |-> <<>>, pool |-> setup.poolSize,
             index |-> 0, tid |-> 0, dropped |-> FALSE, count |-> 0, read |-> <<>>]
    /\ accepted = [m \in 1..NumMsgs |-> 0]
    /\ stored = [m \in 1..NumMsgs |-> 0]

-----------------------------------------------------------------------------
(* The sender.  check_queue_space counts one fragment less than are sent    *)
(* when the size fills a whole number of fragments.                         *)
Predicted(count, exact) == IF exact THEN count - 1 ELSE count

SendBegin(count, exact) ==
    /\ sending = NotSending
    /\ sentCount < NumMsgs
    /\ exact => setup.exact /\ count > 2
    /\ TxQueueSize - Len(txq) >= Predicted(count, exact)
    /\ sentCount' = sentCount + 1
    /\ sending' = [msg |-> sentCount + 1, count |-> count, next |-> 0]
    /\ UNCHANGED <<setup, nextId, txq, meta, remaining, acks, reports, accepted, receiverVars>>

(* One of send_full_frame, send_first/middle/last_fragment, or its failure, *)
(* which returns from wps_frag_send at once.                                *)
SendFragment ==
    /\ sending # NotSending
    /\ sending.next < sending.count
    /\ IF Len(txq) < TxQueueSize
         THEN /\ txq' = Append(txq, Frame(sending.next, sending.count, nextId, sending.msg))
              /\ sending' = [sending EXCEPT !.next = @ + 1]
         ELSE /\ sending' = NotSending
              /\ UNCHANGED txq
    /\ UNCHANGED <<setup, sentCount, nextId, meta, remaining, acks, reports, accepted, receiverVars>>

(* The end of wps_frag_send: the meta data and the next transaction.  The   *)
(* number recorded is that of the last fragment, or 1 for a full frame.     *)
SendEnd ==
    LET recorded == IF sending.count = 1 THEN 1 ELSE sending.count - 1
    IN /\ sending # NotSending
       /\ sending.next = sending.count
       /\ IF Len(meta) < setup.queueSize
            THEN /\ meta' = Append(meta, recorded)
                 /\ remaining' = IF remaining = 0 THEN recorded ELSE remaining
            ELSE UNCHANGED <<meta, remaining>>
       /\ nextId' = (nextId + 1) % MAX_TRANSACTION_ID
       /\ accepted' = [accepted EXCEPT ![sending.msg] = sending.count]
       /\ sending' = NotSending
       /\ UNCHANGED <<setup, sentCount, txq, acks, reports, receiverVars>>

(* wps_frag_tx_success_callback                                             *)
TxSuccess ==
    /\ acks > 0
    /\ acks' = acks - 1
    /\ IF remaining > 0
         THEN /\ remaining' = remaining - 1
              /\ UNCHANGED <<reports, meta>>
         ELSE /\ reports' = reports + 1
              /\ meta' = IF meta = <<>> THEN meta ELSE Tail(meta)
              /\ remaining' = IF Len(meta) > 1 THEN meta[2] ELSE remaining
    /\ UNCHANGED <<setup, sentCount, sending, nextId, txq, accepted, receiverVars>>

-----------------------------------------------------------------------------
(* The connection.  A received frame takes a node of the pool and goes to   *)
(* the fragment queue, unless the queue the application reads is full or    *)
(* the pool is empty.  The node of a frame that a full fragment queue       *)
(* refuses belongs to nobody.                                               *)
HasPlaceWithoutNode == Len(rx.queue) < setup.queueSize    \* mutant
HasPlace == Len(rx.queue) < setup.queueSize /\ rx.pool > 0

Receive(frame) ==
    IF HasPlace
      THEN /\ rx' = [rx EXCEPT !.pool = @ - 1,
                               !.frag = IF Len(@) < setup.queueSize THEN Append(@, frame) ELSE @]
           /\ events' = Append(events, "received")
           /\ stored' = [stored EXCEPT ![frame.msg] = @ + 1]
           /\ UNCHANGED <<overrun, loaded>>
      ELSE /\ overrun' = TRUE
           /\ events' = Append(events, "overrun")
           /\ UNCHANGED <<loaded, rx, stored>>

(* The head of the sender's queue is received and acknowledged.             *)
Deliver ==
    /\ txq # <<>>
    /\ txq' = Tail(txq)
    /\ acks' = acks + 1
    /\ Receive(Head(txq))
    /\ UNCHANGED <<setup, sentCount, sending, nextId, meta, remaining, reports, accepted>>

(* The head of the sender's queue reaches its deadline without an           *)
(* acknowledgement; the receiver may have it all the same.                  *)
Expire ==
    /\ setup.lossy
    /\ txq # <<>>
    /\ txq' = Tail(txq)
    /\ \/ Receive(Head(txq))
       \/ UNCHANGED receiverVars
    /\ UNCHANGED <<setup, sentCount, sending, nextId, meta, remaining, acks, reports, accepted>>

-----------------------------------------------------------------------------
(* The receiver.  The operators below take and return the record rx.        *)

(* wps_read_done, n times: the frames leave, their nodes return to the pool.*)
ReadDoneKeepingNode(r, n) ==    \* mutant
    [r EXCEPT !.queue = SubSeq(@, n + 1, Len(@))]
ReadDone(r, n) == [r EXCEPT !.queue = SubSeq(@, n + 1, Len(@)), !.pool = @ + n]

(* Where the first frame of a set of frames is; 0 when there is none.       *)
FirstOf(places) == IF places = {} THEN 0 ELSE Min(places)

(* Frees the frames before the first of these places, or all.               *)
FreeUntil(r, places) ==
    ReadDone(r, IF places = {} THEN Len(r.queue) ELSE Min(places) - 1)

(* wps_read_error_flush: frees up to and with the next last fragment.       *)
ReadErrorFlush(r) ==
    LET at == FirstOf({i \in DOMAIN r.queue : r.queue[i].type = "last"})
    IN ReadDone(r, IF at = 0 THEN Len(r.queue) ELSE at)

(* wps_frag_read into a buffer for MaxFragments fragments.  It looks at the *)
(* types only: neither the transaction nor the number of the fragments      *)
(* after the first is compared.                                             *)
StartsPayload(f) == f.type = "full" \/ (f.type = "nonlast" /\ f.num = 0)

FragRead(r) ==
    LET end == FirstOf({i \in DOMAIN r.queue : r.queue[i].type # "nonlast"})
        length == IF end = 0 THEN Len(r.queue) ELSE end
        counted == [r EXCEPT !.count = @ - 1]
        AbortAfter(n) == ReadErrorFlush(ReadDone(counted, n))
    IN IF r.queue = <<>> THEN counted
       ELSE IF ~StartsPayload(Head(r.queue)) THEN AbortAfter(0)
       ELSE IF length > MaxFragments THEN AbortAfter(MaxFragments)
       ELSE IF end = 0 THEN ReadDone(counted, length)
       ELSE IF r.queue[end].type = "full" /\ end > 1 THEN AbortAfter(end - 1)
       ELSE [ReadDone(counted, end) EXCEPT !.read = Append(@, SubSeq(r.queue, 1, end))]

(* rx_success_callback of the application.                                  *)
NotifyReceived(r) ==
    LET counted == [r EXCEPT !.count = @ + 1]
    IN IF setup.polling THEN counted ELSE FragRead(counted)

(* wps_frag_flush_last_transaction                                          *)
FlushLastTransactionOldIndex(r) ==    \* mutant: fragment_index is not set
    LET rest == FreeUntil(r, {i \in DOMAIN r.queue : r.queue[i].tid # r.tid})
    IN IF rest.queue = <<>> THEN rest ELSE [rest EXCEPT !.tid = Head(rest.queue).tid]
FlushLastTransaction(r) ==
    LET rest == FreeUntil(r, {i \in DOMAIN r.queue : r.queue[i].tid # r.tid})
    IN IF rest.queue = <<>> THEN rest
       ELSE [rest EXCEPT !.tid = Head(rest.queue).tid, !.index = 1]

(* wps_frag_read_process_fail                                               *)
ReadProcessFail(r, id) ==
    LET starts == {i \in DOMAIN r.queue :
                      \/ r.queue[i].type = "full"
                      \/ r.queue[i].type = "nonlast" /\ r.queue[i].num = 0 /\ r.tid # id}
        rest == FreeUntil([r EXCEPT !.dropped = TRUE, !.index = 0], starts)
    IN IF rest.queue = <<>> THEN rest
       ELSE IF Head(rest.queue).type = "full" THEN NotifyReceived(rest)
       ELSE [rest EXCEPT !.dropped = FALSE, !.tid = Head(rest.queue).tid, !.index = 1]

(* The three cases of wps_frag_read_process, and its test of dropped_frame. *)
ProcessFull(r) ==
    NotifyReceived(IF r.index # 0 THEN FlushLastTransaction(r) ELSE r)

ProcessNonLast(r, f) ==
    IF f.num = r.index
      THEN IF f.num = 0 \/ f.tid = r.tid
             THEN [r EXCEPT !.tid = f.tid, !.index = @ + 1]
             ELSE ReadProcessFail(r, f.tid)
      ELSE IF f.tid # r.tid THEN FlushLastTransaction(r)
                            ELSE ReadProcessFail(r, f.tid)

ProcessLastAnyTransaction(r, f) ==    \* mutant: only the number is compared
    IF f.num = r.index THEN NotifyReceived([r EXCEPT !.index = 0])
    ELSE IF f.tid # r.tid THEN FlushLastTransaction(r)
    ELSE ReadProcessFail(r, f.tid)
ProcessLast(r, f) ==
    IF f.num = r.index /\ f.tid = r.tid THEN NotifyReceived([r EXCEPT !.index = 0])
    ELSE IF f.tid # r.tid THEN FlushLastTransaction(r)
    ELSE ReadProcessFail(r, f.tid)

ProcessFrame(r, f) ==
    IF f.type = "full" THEN ProcessFull([r EXCEPT !.dropped = FALSE])
    ELSE IF r.dropped /\ f.tid # r.tid THEN ReadProcessFail(r, f.tid)
    ELSE IF r.dropped /\ f.num # r.index THEN ReadDone(r, 1)
    ELSE IF f.type = "nonlast" THEN ProcessNonLast(r, f)
    ELSE ProcessLast(r, f)

(* frag_read: the oldest frame changes queues.  The node of a frame that    *)
(* the connection's queue refuses belongs to nobody, yet its frame is       *)
(* looked at.                                                               *)
MoveFrameAtHead(r) ==    \* mutant: xlayer_queue_enqueue_at_head
    [r EXCEPT !.frag = Tail(@),
              !.queue = IF Len(@) < setup.queueSize THEN <<Head(r.frag)>> \o @ ELSE @]
MoveFrame(r) ==
    [r EXCEPT !.frag = Tail(@),
              !.queue = IF Len(@) < setup.queueSize THEN Append(@, Head(r.frag)) ELSE @]

(* wps_frag_read_process and wps_overrun_process, in the order queued.      *)
RxCallback ==
    /\ events # <<>>
    /\ events' = Tail(events)
    /\ CASE Head(events) = "received" ->
              /\ rx' = IF rx.frag = <<>> THEN rx
                       ELSE ProcessFrame(MoveFrame(rx), Head(rx.frag))
              /\ UNCHANGED overrun
         [] Head(events) = "overrun" ->
              /\ rx' = IF overrun THEN ReadDone(rx, Len(rx.queue)) ELSE rx
              /\ overrun' = FALSE
    /\ UNCHANGED <<setup, senderVars, loaded, stored>>

(* A polling application reads while swc_connection_get_enqueued_count is   *)
(* not zero.  It runs in the main context: the count it decrements was      *)
(* loaded before the callbacks that preempt the read incremented it.        *)
PollRead ==
    /\ setup.polling
    /\ loaded = NotReading
    /\ rx.count > 0
    /\ loaded' = rx.count
    /\ rx' = [FragRead(rx) EXCEPT !.count = rx.count]
    /\ UNCHANGED <<setup, senderVars, events, overrun, stored>>

PollStoreCount ==
    /\ loaded # NotReading
    /\ rx' = [rx EXCEPT !.count = loaded - 1]
    /\ loaded' = NotReading
    /\ UNCHANGED <<setup, senderVars, events, overrun, stored>>

-----------------------------------------------------------------------------
Next ==
    \/ \E count \in 1..MaxFragments, exact \in BOOLEAN : SendBegin(count, exact)
    \/ SendFragment
    \/ SendEnd
    \/ TxSuccess
    \/ Deliver
    \/ Expire
    \/ RxCallback
    \/ PollRead
    \/ PollStoreCount

Spec == Init /\ [][Next]_vars
-----------------------------------------------------------------------------
TypeOK ==
    /\ setup \in Setups
    /\ sentCount \in 0..NumMsgs /\ nextId \in 0..MAX_TRANSACTION_ID - 1
    /\ sending \in [msg : 0..NumMsgs, count : 0..MaxFragments, next : 0..MaxFragments]
    /\ txq \in Seq(Frames) /\ Len(txq) <= TxQueueSize
    /\ meta \in Seq(1..MaxFragments) /\ Len(meta) <= setup.queueSize
    /\ remaining \in 0..MaxFragments /\ acks \in Nat /\ reports \in Nat
    /\ events \in Seq({"received", "overrun"}) /\ overrun \in BOOLEAN /\ loaded \in Nat
    /\ rx.frag \in Seq(Frames) /\ rx.queue \in Seq(Frames) /\ rx.read \in Seq(Seq(Frames))
    /\ Len(rx.frag) <= setup.queueSize /\ Len(rx.queue) <= setup.queueSize
    /\ rx.pool \in 0..setup.poolSize /\ rx.index \in 0..MaxFragments
    /\ rx.tid \in 0..MAX_TRANSACTION_ID - 1 /\ rx.dropped \in BOOLEAN /\ rx.count \in Nat
    /\ accepted \in [1..NumMsgs -> 0..MaxFragments] /\ stored \in [1..NumMsgs -> 0..MaxFragments]

(* What a read returned is the payload of one transaction, all of it and in *)
(* the order of its fragments.                                              *)
IsWhole(frames) ==
    /\ \A i \in DOMAIN frames : frames[i].num = i - 1 /\ frames[i].msg = frames[1].msg
    /\ Last(frames).type # "nonlast"

Complete(m) == accepted[m] > 0 /\ stored[m] = accepted[m]

(* The payloads before m of which some fragments were stored, and not all.  *)
Broken(m) == {k \in 1..m - 1 : stored[k] > 0 /\ ~Complete(k)}

(* A payload of more than two fragments was sent.                           *)
LongSent == sending.count > 2 \/ \E m \in 1..NumMsgs : accepted[m] > 2

(* Losses never make the receiver assemble a payload from fragments of      *)
(* different transactions or with one missing (wps_frag_read_process and    *)
(* wps_frag_read).  With payloads of more than two fragments, three broken  *)
(* transactions can (wps_frag_read_process_fail and                         *)
(* wps_frag_flush_last_transaction, and the frames they leave).             *)
Intact ==
    \A i \in DOMAIN rx.read :
        (LongSent => Cardinality(Broken(rx.read[i][1].msg)) < 3) => IsWhole(rx.read[i])

(* Payloads are read in the order they were sent and none is read twice.    *)
ReadInOrder ==
    \A i, j \in DOMAIN rx.read : i < j => rx.read[i][1].msg < rx.read[j][1].msg

(* Read, or whole in the queue for an application that polls.               *)
Available(m) ==
    \/ \E i \in DOMAIN rx.read : rx.read[i][1].msg = m
    \/ setup.polling /\ \E i \in DOMAIN rx.queue :
          rx.queue[i].msg = m /\ rx.queue[i].type # "nonlast"

(* A hole costs its own payload: any other, once all its fragments were     *)
(* stored, reaches the application.  When payloads of more than two         *)
(* fragments were sent it costs at most the next payload too, unless        *)
(* fragments of two broken ones meet (wps_frag_read_process).               *)
Resynchronises ==
    events = <<>> =>
        \A m \in 1..NumMsgs :
            /\ Complete(m)
            /\ LongSent => m - 1 \notin Broken(m) /\ Cardinality(Broken(m)) < 2
            => Available(m)

(* Flushing, failing and overrunning never lose or duplicate a node of the  *)
(* receiver's pool.                                                         *)
NodesConserved == rx.pool + Len(rx.frag) + Len(rx.queue) = setup.poolSize
=============================================================================
