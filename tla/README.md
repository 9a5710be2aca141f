# The SPARK wireless core in TLA+

This directory models, checks and proves properties of the SPARK SDK for the
SR1100 radio (`src/`): the protocol stack that carries payloads between a
network *coordinator* and its *nodes* over time-slotted ultra-wideband links.
The modules are translated from the C sources; `PROJECT.json` names, for every
definition, the lines it stands for.

## 1. The system

The SDK runs on a microcontroller with one or two radios. There is no
operating system underneath: the *application* runs in the main loop, the
*radio interrupt* runs the MAC state machine, and a lower-priority *callback
context* runs the application's callbacks. The three preempt one another.

| part | source | state | operations |
|---|---|---|---|
| Wireless core API | `api/swc/sr1100/swc_api.c` | connections, memory pool | send, receive, flush, connect, disconnect, configuration |
| Protocol stack (WPS) | `protocol_stack/wps.c` | connection table, request queue, `tx_node` | `wps_get_free_slot`, `wps_send`, `wps_read`, `wps_read_done`, requests |
| MAC | `wps_mac.c`, `wps_mac_xlayer.c`, `wps_mac_protocols.c` | armed frames, `rx_node`, per-connection ARQ, credits, sync flags | prepare a slot, process its outcome, serve requests |
| Stop-and-wait ARQ | `link/link_saw_arq.*` | 2-bit sequence number, duplicate flag, deadlines | increment, update on reception, time out, reset |
| Credit flow control | `link/link_credit_flow_ctrl.*` | credits, skipped slots | ask, spend, refill |
| Connection status | `link/link_connect_status.*` | connected or not, good frames, lost time | update per slot |
| Cross-layer queues | `xlayer/xlayer_queue.*` | linked list of nodes, free pools | enqueue, dequeue, free |
| Payload memory | `xlayer/xlayer_circular_data.*` | `head`, `tail`, `last_head` | allocate, free, roll back |
| Fragmentation | `protocol_stack/wps_frag.*` | reassembly state, success accounting | send and read transactions |
| PHY | `protocol_stack/sr1100/`, `phy/` | radio registers | exchange a frame and its acknowledgement |
| Multi radio | `multi_radio/wps_phy.c` | leading and following radio | arbitrate the two outcomes |
| Scheduler, priorities | `link_scheduler.c`, `wps_mac_timeslots.c`, `wps_conn_priority.c` | current slot | choose the slot's connection |
| Synchronisation | `link/sr1100/link_tdma_sync.c` | syncing or synced, offsets | adjust on reception, count losses |
| Pairing | `pairing/` | two state machines, timers | authenticate, exchange addresses |
| Audio core | `core/audio/` | pipelines, fallback mode | process, change mode with the link's quality |
| Applications | `app/` | example programs; headset and dongle | |

How they interact. A payload the application submits takes a node from a free
pool and a block of payload memory, and joins the connection's queue. The MAC
looks at the oldest node when it prepares the connection's slot, arms the radio
and, in the callback that follows the slot, removes the node if the
acknowledgement came. On the other side the MAC takes a free node before the
slot, the PHY allocates the payload's memory while it reads the frame out of
the radio, and the callback after the slot either queues the node or gives node
and memory back (a duplicate, an overrun, a header alone). The radio
acknowledges by itself, before any software has looked at the frame: whatever
the receiving MAC decides later, the sender is told the frame arrived.

What is hard here:

* *loss and retransmission*: a frame and its acknowledgement are lost
  separately; duplicates are recognised by one bit of sequence number;
* *frames the MAC sends on its own* (header-only sync frames, polls for
  credits) share the sequence number with the payloads;
* *stale decisions*: a slot is prepared one callback before its outcome is
  processed, and applications send, read, flush and disconnect in between;
* *asymmetric restarts*: each device disconnects, flushes its queue and
  connects again by itself;
* *give-ups*: time deadlines, try deadlines and flush requests remove payloads
  that the peer may have stored;
* *liveness*: a sender may be held back by credits, by sync frames or by lost
  synchronisation, and must get out of each;
* *memory*: a ring with roll-back, variable wrap positions and no
  empty/full flag, used from two contexts, without critical sections.

## 2. The modules

| module | models | kind |
|---|---|---|
| `SawArq` | `link_saw_arq.{h,c}` | operators |
| `CreditFlowCtrl` | `link_credit_flow_ctrl.{h,c}` and the credit field of the acknowledgement | operators |
| `ConnectStatus` | `link_connect_status.{h,c}` | operators on a record |
| `ReliableLink` | what a guaranteed connection promises | abstract specification |
| `MacLink` | one main connection, both ends: `wps_mac*.c`, the PHY's outcome, `wps_send`, `wps_read_done`, flush, disconnect | state machine |
| `MacLink_proofs` | type correctness, no silent loss | proofs |
| `MacLinkOrder_proofs` | payloads are stored in order; `MacLink` implements `ReliableLink` in guaranteed delivery mode | proofs |
| `MacLinkUp_proofs` | credits never overrun the receiver, what is stored twice, what deadlines may lose | proofs |
| `CircularData` | `xlayer_circular_data.{h,c}` with its callers' order of use | state machine |
| `CircularData_proofs` | type correctness, no overlap, always room | proofs |
| `WpsFrag` | `wps_frag.{h,c}`, both ends, over a connection as `MacLink` leaves it | state machine |
| `MCWpsFrag` | the set-ups of the two ends for TLC | model |
| `WpsFrag_proofs` | type correctness, order of reads, conservation of the receiver's nodes; payloads of two fragments are never assembled wrongly and always read once stored whole | proofs |
| `WpsRequests` | connecting and disconnecting, the request queue, the ratio requests and the armed receive node: `wps.c`, `swc_api.c`, `wps_mac.c`, `circular_queue.c`, `xlayer_queue.c` | state machine |
| `MCWpsRequests` | the devices for TLC | model |
| `WpsRequests_proofs` | type correctness, a connection ends when a call asks for it, ratios and requests in step, one owner per receive node | proofs |
| `Pairing` | `pairing/`: the two state machines, their callbacks, the mailbox, the discovery list | state machine |
| `MCPairing` | codes, roles, addresses and ways of running for TLC | model |
| `Pairing_proofs` | type correctness, the coordinator never gives an address twice, no acknowledgement missed, a success needs the same code, the coordinator succeeds only with an address a node took over | proofs |
| `AudioStream` | what an audio pipeline promises a listener | abstract specification |
| `SacPipeline` | `core/audio/api/sac_api.c` on `library/queue/queue.c`: one pipeline | state machine |
| `MCSacPipeline` | the pipelines for TLC | model |
| `SacPipeline_proofs` | type correctness, no node lost, a node for every packet, the overflow test, the size counted; `SacPipeline` implements `AudioStream` | proofs |

### MacLink

One connection, sender and receiver, each with its queue, its ARQ state and a
phase (`between` slots, `armed`, `event`). The names of the variables are the
code's: `txSeq` and `rxSeq` are `stop_and_wait_arq.seq_num` of the two devices,
`credits` and `skipped` the fields of `credit_flow_ctrl`, `sendSync` is
`send_sync_frame`, `cs` is `connect_status`, `rxNode` says whether `rx_node` is
non-NULL, `tx` is `main_xlayer`.

| action | code |
|---|---|
| `Send`, `ReadDone`, `TxFlushRequest` | `wps_get_free_slot` + `wps_send`, `wps_read_done`, `swc_send_tx_flush_request` |
| `TxPrepare` | `prepare_tx_main` (`flush_timeout_frames_before_sending`, `flush_tx_frame`), `wps_mac_xlayer_get_xlayer_for_tx_main`, `fill_header` |
| `RxPrepare` | `prepare_rx_main`, `wps_mac_xlayer_get_xlayer_for_rx`, `prepare_tx_empty_conn_auto`, `fill_ack_header` |
| `Exchange` | the slot itself and the PHY's verdict: `process_event_tx`, `process_event_rx` |
| `TxCallback` | `process_tx_main`, `process_tx_main_empty`, `process_rx_auto` for the credits, `update_connect_status_main` |
| `RxCallback` | `process_rx_main`, `extract_header_main`, `update_sync` |
| `TxReconnect`, `RxReconnect` | `process_disconnect_request`, `reset_connections_parameters`, `wps_mac_reset`, optionally `swc_connection_flush_queue` |
| `SyncChange` | a node's synchronisation changed by the frames of another connection |

The `taken`, `again`, `overruns`, `acked` and `dropped` sets are history: they
record what the code reports through its callbacks (RX success, RX overrun, TX
success, TX drop) and are read only by the properties. A payload is a number;
its content, size and time stamp are not modelled. A time deadline is a free
choice at each preparation, because the tick counter of the application and
the slot duration are not related in the code.

### CircularData

`head`, `tail` and `lastHead` are the fields of `xlayer_circular_data_t`; `live`
lists the blocks in use, oldest first, `pending` tells that the newest one is
not queued yet. `Allocate` is `xlayer_circular_data_allocate_space`;
`DropPending` gives the newest block back before its node was queued (a
duplicate, an overrun, a queue that refused the node); `FreeOldest` is
`wps_read_done` or `send_done`. `Spec` runs each operation atomically.
`PreemptedSpec` splits the free in two steps as `wps_read_done` runs it, with
the interrupt's allocation possible in between.

### WpsFrag

`wps_frag_send` cuts a payload into fragments and runs in the application while
slots and callbacks go on, so it is three kinds of steps: `SendBegin` with
`check_queue_space`, one `SendFragment` per node queued (or the failure that
ends the call), `SendEnd` with the meta data and the next transaction number.
`Deliver` and `Expire` are what the connection below does to the head of the
queue; `Receive` is the part of `process_rx_main` that takes a node, or sets
`wps_error` and reports an overrun. `TxSuccess` and `RxCallback` are the
callbacks `wps_frag_tx_success_callback`, `wps_frag_read_process` and
`wps_overrun_process`, run in the order they were queued. `rx` is the
receiver's `frag_t` and its two queues as one record, because the functions of
`wps_frag_read_process` call one another: `frag` and `queue` are
`frag.xlayer_queue` and `xlayer_queue`, `index`, `tid`, `dropped` and `count`
are `fragment_index`, `transaction_id`, `dropped_frame` and `enqueued_count`,
`pool` counts free nodes and `read` is the history of what `wps_frag_read`
returned. The operators that take and return such a record are the functions of
the same names.

A set-up says how the two ends are used: the application reads in its receive
callback, or polls `swc_connection_get_enqueued_count` (`PollRead` and
`PollStoreCount` are the two halves of a read the callbacks preempt); payloads
have a deadline or not; payloads may fill their fragments exactly or not. The
queue of callbacks is assumed not to overflow.

Fragments are numbers in a payload; their sizes only matter to
`check_queue_space` (`Predicted`) and to the reader's buffer, which holds
`MaxFragments` fragments. The fragment number is one byte in the header:
`MaxFragments <= 256` keeps it exact.

### WpsRequests

One device, between the calls of its application and the interrupts of its
radio. `signal` is `wps_mac.signal`, `started` is `is_started`, `synced` says
whether `slave_sync_state` is `STATE_SYNCED`, `rxNode` is `rx_node`, `pool` the
`free_rx_queue`, `queue` the connection's `xlayer_queue`; `requests` is
`request_queue`, `configs` the two iterators and the free space of
`schedule_ratio_cfg_queue`, `content` the active ratio in each of its slots. `pc`
is where the application is inside a call, `radio` what the next interrupt
will be, `accepted` and `timedOut` are history.

| action | code |
|---|---|
| `SlotsBegin`, `ConfigComplete`, `FrameOutcome` | `wps_mac_phy_callback` by its signal: the first slot; `process_pending_request`; the outcome of a slot and `process_next_timeslot` |
| `FillConfig`, `RequestRatio` | `wps_set_active_ratio`, up to the first and to the second enqueue |
| `Connect` | `swc_connect`, `wps_connect`, `wps_mac_reset` |
| `Disconnect` ... `DisconnectTimeout` | `swc_disconnect`, `wps_disconnect`: the test of fast sync, the direct end, the request, the wait and its timeout |
| `ReadDone`, `FreeRead` | `wps_read_done`, interrupted between the dequeue and the free |
| `Flush` | `swc_connection_flush_queue` |

A device's schedule is a sequence of slot kinds, which say what a slot does with
`rx_node`: take a node (a reception, main or auto reply), reset it (an
acknowledgement with a header), or keep it (a bare acknowledgement). The queues
are sequences: the linked list they stand for is one as long as no node is
inside two of them, and the only node in two is the last of one of them, whose
`next` nobody follows. Payload memory and duplicate numbers are the business of
`CircularData` and `MacLink`.

### Pairing

Each device runs a main loop, `pairing_process`, that executes the function of
its current state, and two callbacks that interrupt it. `state`, `event` and
`action` are `current_pairing_state`, `local_pairing_event` and the phase's
`pairing_..._action`; `box` is `received_pairing_command` with
`received_payload`, a mailbox of one message without a lock, static, so that it
survives a procedure; `main` is where the main loop is inside a state function,
which splits the functions that write what a callback writes too.

| action | code |
|---|---|
| `Start`, `Deinit` | `pairing_coordinator_start`, `pairing_node_start`, `pairing_deinit` |
| `Enter` | `enter_pairing` of either side |
| `SendMessage`, `SetWaitForAck` | `..._send_...`: the message is queued, then the state is set |
| `TestCommand`, `ClearCommand`, `CopyPayload` | `..._wait_...`: the command is tested, then cleared, then the payload used |
| `TakeAction` | `..._action`, with `pairing_address_get_available_node_id` before it in `CopyPayload` |
| `Idle` | a state function that does nothing in this iteration |
| `Callback` | `sent_message_..._callback`, `received_message_..._callback` |
| `Deliver`, `Acknowledge` | the connection below, as `MacLink` leaves it |

Every iteration ends with the timer, the application's callback and the loop's
test (`EndIteration`). A pairing connection uses automatic sync frames, so
`Acknowledge` may also be for a frame that was discarded: that is what
`maclink_autosync_loss` shows of it. Codes, serial numbers and addresses are
numbers; how an address is serialised from an identifier is a constant
function, because only whether two of them are equal matters.

### SacPipeline and AudioStream

A producer endpoint, `sac_pipeline_process` and the consumer endpoints of one
pipeline. `producerQueue`, `queue` and the three free lists are the queues of
`sac_pipeline_t`; `filling` and `playing` are `current_node` of a delayed
producer and consumer; `copies` is `copy_count` of the nodes that several
consumer queues share; `threshold`, `complete` and `buffered` are the fields
`buffering_threshold`, `buffering_complete` and `samples_buffered_size`.

| action | code |
|---|---|
| `Start`, `Stop` | `sac_pipeline_start`, `sac_pipeline_stop` |
| `ProduceDelayed`, `ProduceNow` | `sac_pipeline_produce`, `enqueue_producer_node` |
| `Begin` ... `Release` | `sac_pipeline_process`, one step per critical section of `queue.c` |
| `ConsumeDelayed`, `ConsumeNow` | `sac_pipeline_consume` with and without delay |

`sac_pipeline_produce` and `sac_pipeline_consume` run in interrupts and are one
step each; they may come between any two steps of process. `AudioStream` says
what is left without queues: packets are heard in the order they were produced,
none twice, and a lost one stays lost. `StreamSpec` maps its `transit` to
everything between producer and consumer, the packet process has in hand
included.

## 3. What is checked

All runs use small instances and finish within about a minute, the largest
within three.

| run | what it shows |
|---|---|
| `maclink_guaranteed` | guaranteed delivery, node sends, pool shared, one reconnection on either side with or without flush: type invariant, `NoSilentLoss`, `StoredInOrder`, and the refinement `ReliableDelivery` |
| `maclink_credit` | coordinator sends with credits: `NoOverrunWhileUp`, `ExactlyOnceWhileUp` |
| `maclink_deadlines` | deadlines and flush requests on a medium that may lose everything: `LossOnlyAfterDrop`, `OnlyFirstRepeated`, `EventuallySettled` |
| `maclink_live` | coordinator with credits and sync frames under fair delivery: `EventuallySettled` |
| `maclink_autosync_loss` | **violated**: auto sync loses an acknowledged payload (finding 1) |
| `circdata_fixed` | fixed block size: `TypeOK`, `NoOverlap`, `NeverStarved` |
| `circdata_preempted` | **violated**: a preempted free hands a block out twice (finding 2) |
| `frag_link` | reading in the callback on a connection that loses frames, and polling on one that does not: `TypeOK`, `Intact`, `ReadInOrder`, `Resynchronises`, `NodesConserved` |
| `requests` | five devices that connect and disconnect: `TypeOK`, `OneOwner`, `PoolRestored`, `ConfigsInStep`, `LastRatioWins`, `EndsOnlyWhenAsked`, `DisconnectEnds` |
| `requests_fast_sync` | **violated**: each disconnection of a listening node with fast sync loses a receive node (finding 3) |
| `pairing` | repeated, interrupted and attentive procedures, with equal and different codes: `TypeOK`, `DistinctAddresses`, `SameCode`, `AckNoticed`, `CoordinatorSuccess`, `NodeSuccess`, `PairingEnds` |
| `sac_pipeline` | five pipelines, started, stopped and started again: `TypeOK`, `NodesConserved`, `ProduceAlwaysSucceeds`, `NodeForEveryPacket`, `DropFindsPacket`, `AccountedFor`, and the refinement `StreamSpec` |

*Bounds.* `NumMsgs = 3` payloads let two frames with the same bit be separated
by one with the other, so that a number wraps around and an old frame can meet
a new one; `TxQueueSize = RxQueueSize = 2` is the smallest the API accepts
(`WPS_MIN_QUEUE_SIZE`) and makes both queues fill. `MaxRestarts = 1` lets one
side restart while the other does not, which is the asymmetric case.
`ConnectCount` and `DisconnectDuration` of 1 or 2 slots make the status change
with every short burst of losses. `SkipWrap` stands for 256: the properties
need it larger than the threshold of 3 and the small value makes it wrap inside
the run. The liveness run uses two payloads and `DisconnectDuration = 1`, which
still disconnects, polls and sends sync frames. `circdata_fixed` has seven
places in the buffer; the blocks' size is the unit. `frag_link` sends three
payloads of up to three fragments (first, middle, last): two can be broken and
a third follow whole. The receiver's queues hold three frames, the longest
payload, so they overrun; a polling application gets queues for all nine
fragments. `MAX_TRANSACTION_ID` is the code's 32. A third set-up
sends four payloads of at most two fragments to a queue of two frames
(`InBounds` keeps each set-up to its number and length of payloads). With five
short payloads, and with five of three fragments under the constraints of
`HolesSetups`, the properties also hold (not kept as runs). `requests` has
three receive nodes and a queue of three, as one receiving connection gets, and
room for two requests where the code has five: both queues fill, wrap and keep
requests over a disconnection. Its devices differ in what their slots do with
`rx_node`, in role and in fast sync; those whose slots keep `rx_node` read their
frames before they connect again, and have no fast sync as a node. Without
either restriction TLC finds a node with two owners or, with fast sync, a lost
one (finding 3). `RequestSize = 3` was also run. The `pairing`
run has one node, whose role is 2, the byte that means
"failed" in a response, and its serialised address is the coordinator's, so that
the search for a free address takes a step; two procedures on each side let one
side start over while the other is in the middle. A second node
multiplies the states beyond reach; `MCPairing!SecondNode` narrows the steps by
`ACTION_CONSTRAINTS` to what two nodes can do to each other, and the theorems
about `Pairing` hold for any number of nodes. `sac_pipeline` has queues of
one to three packets and six packets, so that every queue overflows and the pool
runs out; `MaxTicks = 1` means the period of the consumer's interrupt is longer
than the time between two queue operations of process. Without such a bound
process could be starved for ever, which the hardware's timer excludes. `Stop`
comes only while process is idle: process runs to its end in its own context.
Chained consumers are called next to process and do not preempt it, as in the
example applications; there is one producer.

*Fairness.* The radio raises an interrupt in every slot and the MAC's callbacks
run from it, hence weak fairness of preparing, exchanging and processing. The
medium is assumed to let a payload, and a header, through with its
acknowledgement infinitely often if they are sent infinitely often: strong
fairness of these two exchanges, as separate conjuncts, because a medium that
lets only headers through would be no medium. `ReadDone` is weakly fair: an
application that never reads blocks a connection with credits for ever, by
design. `maclink_deadlines` assumes no fairness of the medium at all. No
fairness is assumed of `Send`, of flush requests, of synchronisation changes
and of reconnections. In `WpsRequests` the radio's interrupts come,
except while a node with fast sync listens for its first frame, which may never
come, and a call of `wps_disconnect` goes on; nobody has to call or to read.
`wps_disconnect` waits one second, which is many slots: its timeout is only
possible while the radio listens. In `Pairing` the main loops run, a started procedure is
started, callbacks run and the slots come back: weak fairness of each.
`PairingEnds` is stated for `attentive` set-ups only, where a message is read
before the next one comes, nobody gives up, no acknowledged frame is discarded
and the delay of `pairing_deinit` outlasts the last retransmissions: the code has
no retry, so a procedure that loses a message ends by its timeout. Deadlock
checking is on everywhere but in the `frag_link`, `pairing` and `sac_pipeline` runs,
where nothing is left to do after the last payload, procedure or packet.

*Mutants.* Every property of a passing run is known to fail when the code is
changed in a plausible way; the `* mutant` definitions are those changes and
are used nowhere else.

### Findings

1. An acknowledged header-only frame advances the sender's number and an
   unacknowledged one does not, while the receiver advances on every header. A
   lost acknowledgement of a sync frame followed by a payload ends in a payload
   that is acknowledged and discarded.
2. `wps_read_done` frees without a critical section; preempted between the
   comparison with `last_head` and the store of `head`, it makes the memory hand
   out the block just received a second time.
3. A node with fast sync that is disconnected while unsynced is stopped without
   the MAC, and nobody frees the node armed for the reception; the next
   connection takes another one. The pool has one node per queue entry of a
   receiving connection, so a few such disconnections leave none and every frame
   is an overrun.

More disagreements were seen while modelling; the properties of the passing
runs are stated around them.

* The receiver keeps `seq & 1`, but the first frame carries 2: when its
  acknowledgement is lost the retransmission compares 2 with 0 and is stored
  again, against `swc_api.h:107`. `OnlyFirstRepeated` shows that nothing else is
  repeated.
* `head == tail` is read as empty (`xlayer_circular_data.h:65`). A receive buffer
  has one block per queue entry, while a connection can own one node more than
  its queue holds, because the node comes from a pool several connections share.
  `NeverOverlaps` names the assumption that excludes it.
* `check_queue_space` rounds up, `wps_frag_send` adds an empty last fragment when
  the size is an exact multiple. With the queue full at that point the call fails
  half-way without taking a new transaction number, and after losses the two
  payloads that share it are joined. `MCWpsFrag!ExactSetups` is such a set-up.
* "Previous fragment is incomplete. Flush it before handling the current frame."
  (`wps_frag.c:568`): the flush removes the transaction at the head of the
  queue only, and the one before a fragment of a new transaction leaves that
  fragment in the queue. With three broken transactions (the first fragment of
  payload 1; the second of payloads 2 and 3; the first and third of payload 4;
  then the full frame 5) the callback announces the full frame while the
  fragments of payload 4 are at the head: `wps_frag_read`, which compares no
  numbers, returns them as a payload, and the frame stays in the queue.
  `Intact` is stated around it; `MCWpsFrag!HolesSetups`, with five payloads, the
  action constraint `Prompt`, the view `NoAcks` and the invariant `AlwaysWhole`,
  shows it.
* The transaction number has five bits. Two payloads 32 numbers apart with
  nothing stored in between are joined; a reader that polls joins fragments of
  two transactions when the connection loses frames and the queue is short.
* `wps_frag_read_process_fail` compares the transaction that arrived with the one
  expected, not with the fragment it looks at, and keeps the first fragment of
  the transaction that just broke. The flush before the next full frame then
  stops at a second stale fragment and the read throws the full frame away.
  `Resynchronises` shows the damage is limited: a payload stored completely is
  read unless payloads of more than two fragments were sent and the one before
  it, or two earlier ones, were broken.
* The pairing coordinator tests the command in its mailbox, clears it and copies
  the payload afterwards. The node's next message, its identification, may
  arrive in between: its second byte, the device role, is then read as the
  verdict on the application code. With role 2 the procedure ends with
  `PAIRING_EVENT_INVALID_APP_CODE` although both codes are equal. `SameCode`,
  which is about successes, holds.
* `pairing_node_start` does not clear the mailbox. A node that gave up with an
  authentication message unread answers it when it starts again, in whatever
  procedure the coordinator has reached by then. If another node was identified
  in that procedure and gave up, the first one reports success with the
  address the coordinator entered under the other node's role, and the entry of
  its own role stays empty, against `pairing_address.h:110`. `NodeSuccess` is
  about a node that pairs alone; `MCPairing!SecondNode`, with the constraints next
  to it and `OwnRole` as the property, shows the rest.
* The node, too, tests its mailbox and copies the payload afterwards. When the
  coordinator gives up in between and starts again, its authentication message
  replaces the addresses, the node takes the application code for them and
  reports success. `NodeSuccess` leaves out interrupted state functions of
  repeated procedures, the set-up `MCPairing!Overwritten`, in which TLC finds this
  with `OwnRole` as the property, one node and two procedures on each side. The
  coordinator is not misled in the same way: `SuccessMeansLearned` covers it.
* `swc_disconnect` clears `is_started` even when `wps_disconnect` failed or timed
  out, so `swc_connection_flush_queue` runs on a connected device, against
  `swc_api.h:1049`, and the request left in the queue may end a later
  connection: `EndsOnlyWhenAsked` holds until a call has timed out.
* `sac_pipeline_stop` leaves `buffering_complete` set, so a delayed consumer is
  not started again after a restart; no document says what a restart does.
* `lost_duration_us` is 16 bits wide while the limit may be 65000: a long slot can
  wrap it past the limit. The wrap is in `ConnectStatus!AddLost`; the runs use
  durations below it.

## 4. What is proved

The proofs hold for every value of the constants that satisfies the modules'
`ASSUME`s and the assumption stated with the theorem.

* `TypeCorrect` (`MacLink_proofs`): `Spec => []TypeOK`. The inductive invariant
  `TypeInv` adds one fact, `HeadArmed`: while a data frame is armed or its
  outcome pending, the payload it carries is still the head of the queue.
  Without it the `Tail(txq)` of an acknowledged payload could not be typed.
* `NothingSilentlyLost` (`MacLink_proofs`): `Spec => []NoSilentLoss` assuming
  `GuaranteedMode` (no deadlines, flush requests, auto sync or credits; each of
  them has a behaviour that loses or repeats a payload, see the findings and
  `LossOnlyAfterDrop`). `LossInv` relates the two sequence numbers through all
  phases of a slot: `SlotFrame` says what is on the air is what the sender
  armed, `AckSound` that a positive outcome means the receiver has the frame in
  hand, `Fresh` that a payload which has not reached the peer carries a number
  the receiver does not hold, `SyncWhileDown` that a coordinator's sync frames
  only exist while the link is down, `RxInIdle` that nothing is pending at the
  receiver outside its event. `NoSilentLoss` alone is not inductive: it says
  nothing of the numbers.
* `PayloadsStoredInOrder` (`MacLinkOrder_proofs`): `Spec => StoredInOrder`, in
  every configuration. `OrderInv` says that the queue holds the newest payloads
  without a gap (`QueueOrder`), that whatever is stored was once at its head
  (`TakenBound`), and the same of a payload received in the slot whose callback
  has yet to run, which is no older than anything stored (`PendingBound`). With
  `HeadArmed` the frame on the air carries the oldest payload, so deadlines,
  flushes and reconnections only move the bound up. No assumption on the mode is
  needed: the order does not depend on the sequence numbers.
* `DeliversReliably` (`MacLinkOrder_proofs`): `Spec => ReliableDelivery` assuming
  `GuaranteedMode`. The initial states correspond, and under `TypeInv`, `LossInv`
  and `OrderInv` every step of `MacLink` is a step of `ReliableLink` or a stutter:
  `Send` is a `Submit`, a frame that gets through a `Reach` (or a repetition),
  the callback of an acknowledged payload a `Confirm`, a reconnection with a
  flush a `GiveUp`.
* `StoredOnceWhileUp` (`MacLinkUp_proofs`): `Spec => []ExactlyOnceWhileUp` for a
  coordinator that starts with sync frames (`SyncFirstMode`), with every other
  feature on or off. Before any payload a sync frame replaced the default number
  (`SyncBeforeAll`, `NumberSettled`), so a payload the receiver has carries the
  number it remembers (`Recognised`) and is recognised when it comes again. A
  node, or a coordinator without sync frames, has no such start: its first
  payload may be stored twice.
* `NoOverrunWithCredits` (`MacLinkUp_proofs`): `Spec => []NoOverrunWhileUp` in
  `CreditMode`: `SyncFirstMode` with credits, a receive pool of its own, guaranteed
  delivery and no flush requests. `CreditInv` relates what was counted at three
  moments to the room that is left: the credits of the sender, the payload in the
  receiver's hands included (`CreditsCovered`, `RoomForPending`), those in an
  acknowledgement that arrived (`ReplyCovered`) and those the receiver armed
  (`AdvertisedCovered`). A slot armed while the queue was full has no node even if
  the application reads in between, so `Room` depends on the phase.
* `OnlyFirstStoredTwice` (`MacLinkUp_proofs`): `Spec => []OnlyFirstRepeated`
  without sync frames and credits (`NoSyncMode`), whatever the deadlines:
  `FirstInv` says that the sender has its default number only while every payload
  before the oldest was dropped (`DefaultNumber`).
* `LostOnlyBehindDrop` (`MacLinkUp_proofs`): `Spec => []LossOnlyAfterDrop` without
  auto sync and credits (`PlainMode`), through deadlines, flushes and
  reconnections of either device. `DropInv` weakens the `Fresh` of `LossInv`: a
  payload the receiver never had looks new unless the one before it was dropped.
  With auto sync the property is false (finding 1).
* `TypeCorrect`, `NeverOverlaps` and `AlwaysRoom` (`CircularData_proofs`): the first
  for blocks of any sizes and numbers, the others for blocks of one unit and at
  most `BufferSize` of them. `IInv` says the live blocks are the consecutive
  positions, modulo the wrap, that end at `head` and start at `tail`.

* `NodesAreConserved` (`WpsFrag_proofs`): no node of the receiver's pool is lost
  or counted twice, assuming `PoolFits`, a pool no larger than each of the
  receiver's queues. Without it a full queue can refuse a node, and neither
  `process_rx_main` nor `frag_read` looks at the result. `NodeInv` adds to
  `NodesConserved` the types of what it counts; one `...Keeps` lemma per
  function says that it moves nodes between the queue and the pool only, and the
  lemma of a function cites those of the functions it calls.
* `ReadsInOrder` and `TypeCorrect` (`WpsFrag_proofs`): `Spec => []ReadInOrder` and
  `Spec => []TypeOK`, in every set-up, lossy or polling. `OrderInv` puts everything
  under way in one `Line`: what is in the connection's queue, the fragment queue,
  the sender's queue and the call that sends never goes back to an older payload
  or fragment, and what was read is older than all of it (`InOrder`).
  `Sizes` and `Storing` bound the queues and the fragments stored of each payload.
* `ShortPayloadsIntact` (`WpsFrag_proofs`): `Spec => []Intact`, however many payloads
  are broken, in `ShortMode`: at
  most two fragments to a payload, no more payloads than transaction numbers, and
  an application that reads in the callback from a queue that can hold a payload.
  The invariant is that between two callbacks the receiver is `Settled`: its queue
  is empty, or holds one fragment, of the transaction it expects; everything
  that arrives later is `Ahead` of that. One lemma per kind of frame shows that the
  callback settles again, through the flush, the failure and `dropped_frame`.
  The first two hypotheses and the reading in the callback are needed: TLC finds a
  wrong payload without each. A queue of one entry only adds a case.
* `NoPayloadForgotten` and `ShortPayloadsResynchronise` (`WpsFrag_proofs`): in
  `ShortMode` with `PoolFits`, a payload whose fragments were all stored is read by
  the time the callbacks have run, however broken those before it were; the
  second states the property of the run. The fragments in the fragment queue
  match, in order, the callbacks left to run for received frames (`Announced`, with
  the matching as a function from places to places), and a payload stored whole
  is read, or a full frame in that queue, or its last fragment is in front of
  it for the next callback, or its two fragments are next to each other in
  both (`Due`). `PoolFits` is needed, because a refused node is a fragment
  announced and not held.

* `AddressesStayDistinct` (`Pairing_proofs`): `Spec => []DistinctAddresses`, for
  any number of nodes, roles, addresses and procedures. Two facts carry it: once
  the coordinator entered a procedure, entry 0 holds its own address, so no node
  is given that one (`OwnFirst`); and no message of a node has a zero where the
  coordinator reads a role, so that entry stays. The latter must be followed
  through the node's state, its queue, the pending callbacks and the mailbox
  (`AnswersSet`, `QueuedNonzero`, `PendingNonzero`, `BoxNonzero`).
* `NoAckMissed` (`Pairing_proofs`): `Spec => []AckNoticed`. `FlightInv` says a
  device has at most one message under way, queued or in a pending callback, and
  one exactly when it waits for its acknowledgement or is about to.
* `SuccessNeedsSameCode` (`Pairing_proofs`): `Spec => []SameCode`. When every
  node's code differs from the coordinator's, no device gets past the
  authentication (`Stuck`), and what mailboxes, callbacks and queues hold,
  stale or read in the middle of a state function, is `Harmless`: the coordinator
  gets no verdict "succeeded", a node no code but the coordinator's. As no node
  gets far enough to send its identification, its role is never mistaken for a
  verdict.
* `SuccessMeansLearned` (`Pairing_proofs`): `Spec => CoordinatorSuccess`, with
  callbacks that interrupt state functions and any number of procedures and
  nodes, which pair one at a time. Each side goes through its phases once in a
  procedure, so an answer of an earlier one must be overtaken before the
  coordinator can wait for an answer again. `AnswerInv` says how: while the
  coordinator has an identification in hand (`InHand`), on its way (`Coming`) or
  has given an address (`Assigned`), an address message that a node may still take
  over is the current one (`Up`, `Current`), and an answer under way or in the
  coordinator's mailbox means that the current address was taken over
  (`Answers`, `Told`). `Track` adds where each side is and that one node pairs at a
  time. The step that needs the most is the arrival of an identification: the
  node that sent it has no acknowledgement pending (`FlightInv`), so nothing
  that is in front of it in its callbacks can make it answer.
* `TypeCorrect` (`Pairing_proofs`): `Spec => []TypeOK`, from the first two
  invariants and `Bounds`.
* `ConnectionEndsOnlyWhenAsked` (`WpsRequests_proofs`): `Spec =>
  EndsOnlyWhenAsked`, for all devices, ratios and queue sizes. `EndsOnlyWhenAsked`
  says nothing of the queue, so `IInv` does: until a call times out there is at
  most one request for a disconnection in it (`OnlyRequest`), and only while the
  call that enqueued it waits on a connected device (`CallWaits`); a call that is
  about to ask is made in a connection (`AsksConnected`). One served request then
  leaves none behind, through full queues and ratio requests that outlive a
  connection.
* `TypeCorrect`, `SlotsInStep` and `LastAcceptedActive` (`WpsRequests_proofs`):
  `Spec => []TypeOK`, `Spec => []ConfigsInStep`, `Spec => []LastRatioWins`, for all
  constants. `RatioInv` says that the ratio requests in the queue point to the
  slots between the two iterators, in their order (`InStep`, with one slot more
  while a call has filled it and not asked yet), and that the last of them, or the
  active ratio if there is none, is the one accepted last (`Latest`).
* `OneOwnerAlways` and `PoolWholeAgain` (`WpsRequests_proofs`): `Spec => []OneOwner`
  and `Spec => []PoolRestored`, assuming `NodesMode`: every slot of a schedule takes a
  node or resets `rx_node`; or the application reads before it connects again and there is no
  fast sync; or a coordinator with fast sync, which never asks the MAC. Without
  it TLC finds a node with two owners. `NodeInv` follows `rx_node` past the moment
  its node is queued (`StaleNode`): the disconnection that frees it again leaves a
  `Doubled` node, in the queue and in the pool, until it is read, and the pool,
  full by then, refuses the second one.
* `Invariance`, `ProducerFindsNode` and `Refinement` (`SacPipeline_proofs`):
  `Spec => []IInv`, `Spec => []ProduceAlwaysSucceeds` and `Spec => StreamSpec`,
  for every pipeline. `IInv` counts the producer's pool (`ProducerPool`) and
  orders what is under way (`ProducerOrder`, `ConsumerOrder`): from the last
  packet heard through the consumer's queue, the packet in process and the
  producer's queue to the one being filled, packets only get newer. Every action
  is then a `Put`, a `Play` or a `Lose` of `AudioStream`, or a stutter; the lemmas
  `Putting`, `Playing`, `Losing` and `Moving` are these four cases.
* `TypeCorrect`, `NoNodeLost`, `PacketFindsNode` and `SizeIsRight`
  (`SacPipeline_proofs`): `Spec => []TypeOK`, `[]NodesConserved`,
  `[]NodeForEveryPacket` and `[]AccountedFor`, assuming `ChainMode`: several
  consumers are called next to process and do not preempt it. With chained consumers that preempt it a
  packet played between two of its enqueues is freed and queued again, which TLC
  finds; the example applications do not do so. `ConsumerPool` counts the free
  nodes, the packet being played, the packets in the queues, as a set, and the one
  in process's hands; `Copies` says that `copy_count` is the number of queues that
  hold a packet, `Nested` that the queues are suffixes of one stream, `Room` that a
  queue that was checked still has a place; `Counted` says what `samples_buffered_size` counts at each step of
  process.
* `SomethingToDrop` (`SacPipeline_proofs`): `Spec => []DropFindsPacket` when fewer
  consumer interrupts than queue places come between test and drop (`DropMode`),
  which is sharp.

Only model-checked:

* liveness (`EventuallySettled`, `PairingEnds`, `DisconnectEnds`): the prover handles
  neither ENABLED nor liveness under fairness;
* `Resynchronises` and `Intact` for payloads of more than two fragments, and
  `Resynchronises` for a polling reader: they count broken payloads
  over the whole history, while the state of the receiver that misleads it depends
  on which fragments of each are left; we have no inductive description of it for
  payloads of three fragments;
* `NodeSuccess` of `Pairing`: it is about a single node's procedures with what
  earlier ones left, and compares two lists that different procedures of the
  coordinator wrote.

The provers do no induction over data through operators, so what the proofs count
are lengths and cardinalities, for which the library has theorems.

## 5. What is not modelled, and the plan

Order of the remaining work:

1. Proofs: `NodeSuccess` of `Pairing`; what the queue of a receiver of three
   fragments may hold, behind `Intact` and `Resynchronises`.
2. `WpsFrag`: success callbacks against acknowledged payloads, what a polling
   reader gets on a connection that loses frames, a pool shared by several
   connections, `wps_frag_get_read_payload_size`.
3. `CircularData` with queue flushes and the transmit-side preemption;
   composition of queue, node pool and payload memory.
4. `WpsRequests`: several receiving
   connections on one pool, two radios; the callback queue. Register requests are
   left out: no function of the wireless core's API makes one.
5. `PhyMode`: the announced change of the radio's mode and the handling of
   missed announcements.
6. `SacFallback`: triggers and recovery through the list of fallback modes;
   `MultiRadio`: arbitration of two radios.
7. `Pairing`: several nodes at a time, wireless errors; `SacPipeline`: the mixer
   and several producers.

Not modelled by intent: register programming, SPI transfers, drift and gain
arithmetic, statistics and formatting, audio sample processing, vendored code
(USB stack, CMSIS, board support). None of it decides what the protocol does
with a payload; where it decides whether a frame gets through, `MacLink` allows
both outcomes. Most of the repository's lines are of that kind: the vendor's
hardware libraries, the USB stack with its examples, register tables and
example applications. The protocol stack, pairing and the audio core's
pipeline, which the modules translate, are a small share of it.

The hazards this code is exposed to are listed in `PROJECT.json`, each with the
properties that cover it or the reason why none does yet.
