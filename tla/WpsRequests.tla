---------------------------- MODULE WpsRequests -----------------------------
(***************************************************************************)
(* One device between the application's calls and the radio's interrupts:    *)
(* connecting and disconnecting (wps.c, swc_api.c), the request queue that    *)
(* the MAC serves one request per slot (wps_mac.c), the schedule ratio        *)
(* requests with their configuration slots (circular_queue.c), fast sync, and  *)
(* the node armed for reception, which the MAC takes from the pool of receive  *)
(* nodes at every slot that receives (wps_mac_xlayer.c, xlayer_queue.c).      *)
(*                                                                         *)
(* An interrupt of the radio is one step and may come between any two         *)
(* statements of the application that touch shared state; the application     *)
(* reads its frames in a callback or its main loop.  Payloads, the other       *)
(* devices and the timing of slots are abstracted: a reception may fail, bring *)
(* a frame without payload (or a duplicate), or bring a payload.             *)
(***************************************************************************)
EXTENDS Naturals, Sequences, FiniteSets, Functions

CONSTANTS
    Setups,       \* configurations of the device
    NumNodes,     \* nodes of the receive pool (rx_queues_size)
    QueueSize,    \* size of the connection's receive queue
    RequestSize,  \* bound: WPS_DEFAULT_REQUEST_MEMORY_SIZE (5 in the code)
    Ratios        \* active ratios the application may ask for

Nodes == 1 .. NumNodes
NoNode == 0

(* What a slot does: receive; transmit and get a bare acknowledgement;        *)
(* transmit and receive on an auto reply connection; transmit and receive an  *)
(* acknowledgement with a header (ack_frame_enable).                         *)
SlotKinds == {"rx", "tx", "txAuto", "txAck"}

(* The schedule, the role, fast sync, and whether the application empties the *)
(* receive queue before it connects again.                                   *)
IsSetup(s) ==
    /\ s.slots \in Seq(SlotKinds) /\ s.slots # <<>>
    /\ s.node \in BOOLEAN /\ s.fastSync \in BOOLEAN /\ s.drains \in BOOLEAN

ASSUME RequestsAssumption ==
    /\ \A s \in Setups : IsSetup(s)
    /\ NumNodes \in Nat \ {0} /\ QueueSize \in Nat \ {0} /\ RequestSize \in Nat \ {0}
    /\ 100 \in Ratios

VARIABLES
    setup,      \* the device's configuration
    pc,         \* where the application is in wps_disconnect or wps_set_active_ratio
    started,    \* is_started of swc_api.c
    signal,     \* wps_mac.signal
    synced,     \* slave_sync_state = STATE_SYNCED
    radio,      \* what the radio's next interrupt will be
    slot,       \* current time slot
    rxNode,     \* wps_mac.rx_node
    pool,       \* free_rx_queue
    queue,      \* xlayer_queue of the connection
    held,       \* node that wps_read_done has dequeued and not yet freed
    requests,   \* request_queue
    configs,    \* schedule_ratio_cfg_queue: place to fill, place to empty, free space
    content,    \* active_ratio of each configuration slot
    active,     \* active_ratio of the connection
    accepted,   \* history: last ratio wps_set_active_ratio accepted
    timedOut    \* history: some wps_disconnect ended by its timeout

linkVars == <<signal, synced, radio, slot>>
nodeVars == <<rxNode, pool, queue, held>>
ratioVars == <<configs, content, active, accepted>>
vars == <<setup, pc, started, linkVars, nodeVars, requests, ratioVars, timedOut>>

Places == 0 .. RequestSize - 1
Locations == {"idle", "ratio", "ask", "wait", "direct"}

----------------------------------------------------------------------------
(* xlayer_queue_free_node: the node goes to the end of its home queue, which *)
(* refuses it when it is full.                                              *)
FreedWithoutLimit(nodes, n) ==                   \* mutant: no size test
    IF n = NoNode THEN nodes ELSE Append(nodes, n)
Freed(nodes, n) ==
    IF n = NoNode \/ Len(nodes) >= NumNodes THEN nodes ELSE Append(nodes, n)

(* One after the other, the nodes of a queue: those that still fit.          *)
FreedAll(nodes, q) ==
    LET places == NumNodes - Len(nodes)
    IN  nodes \o SubSeq(q, 1, IF Len(q) <= places THEN Len(q) ELSE places)

(* circular_queue_enqueue and circular_queue_dequeue on the indices.         *)
Enqueued(q) ==
    IF q.free = 0 THEN q
    ELSE [q EXCEPT !.in = (q.in + 1) % RequestSize, !.free = q.free - 1]
NeverDequeued(q) == q                            \* mutant: configuration slot leaks
Dequeued(q) ==
    IF q.free = RequestSize THEN q
    ELSE [q EXCEPT !.out = (q.out + 1) % RequestSize, !.free = q.free + 1]

(* circular_queue_get_free_slot(&request_queue) is not NULL.                 *)
AnyRoom(q) == TRUE                               \* mutant: full queue not noticed
HasRoom(q) == Len(q) < RequestSize
WithRequest(q, type, place) ==
    IF Len(q) < RequestSize
    THEN Append(q, [type |-> type, config |-> place]) ELSE q

Kind(i) == setup.slots[i]
Listens(kind) == kind \in {"rx", "txAuto"}
NextSlot == IF slot = Len(setup.slots) THEN 1 ELSE slot + 1

----------------------------------------------------------------------------
(* process_next_timeslot and prepare_frame, given the nodes and the sync      *)
(* state after the outcome of the last slot: a slot that receives takes a     *)
(* node whatever rx_node was, one with a bare acknowledgement keeps rx_node;  *)
(* an unsynced node with fast sync listens without end in a main reception.   *)
TakeUnlessArmed(nodes, armed) ==                 \* mutant: keeps what it has
    CASE armed # NoNode -> <<armed, nodes>>
      [] armed = NoNode /\ nodes = <<>> -> <<NoNode, nodes>>
      [] OTHER -> <<Head(nodes), Tail(nodes)>>
Take(nodes, armed) ==
    IF nodes = <<>> THEN <<NoNode, nodes>> ELSE <<Head(nodes), Tail(nodes)>>

Armed(kind, nodes, armed) ==
    CASE Listens(kind) -> Take(nodes, armed)
      [] kind = "txAck" -> <<NoNode, nodes>>
      [] OTHER -> <<armed, nodes>>

PrepareSlot(nodes, armed, sync) ==
    LET kind == Kind(NextSlot)
        after == Armed(kind, nodes, armed)
    IN  /\ slot' = NextSlot
        /\ rxNode' = after[1] /\ pool' = after[2]
        /\ radio' = IF kind = "rx" /\ setup.node /\ setup.fastSync /\ ~sync
                    THEN "listen" ELSE "config"

(* wps_mac_phy_callback, PHY_SIGNAL_CONNECT.                                 *)
SlotsBegin ==
    /\ radio = "start"
    /\ PrepareSlot(pool, rxNode, synced)
    /\ UNCHANGED <<setup, pc, started, signal, synced, queue, held>>
    /\ UNCHANGED <<requests, ratioVars, timedOut>>

(* process_rx_main and process_rx_auto: a payload with a node and a place in  *)
(* the queue is stored, and rx_node still points to it; anything else gives   *)
(* the node back.                                                           *)
Stored(outcome) ==
    /\ outcome = "payload" /\ Listens(Kind(slot))
    /\ Len(queue) < QueueSize /\ rxNode # NoNode
ArmedAfter(outcome) ==
    IF Listens(Kind(slot)) /\ ~Stored(outcome) THEN NoNode ELSE rxNode
PoolAfter(outcome) ==
    IF Listens(Kind(slot)) /\ ~Stored(outcome) THEN Freed(pool, rxNode) ELSE pool

(* update_sync: a frame received in a main reception synchronises a node, a   *)
(* missed one may have been the last of frame_lost_max_duration.             *)
SyncAfter(outcome) ==
    CASE Kind(slot) # "rx" \/ ~setup.node -> {synced}
      [] Kind(slot) = "rx" /\ setup.node /\ outcome # "missed" -> {TRUE}
      [] OTHER -> {FALSE, synced}

(* wps_mac_phy_callback, outcome of a frame: then the next slot is prepared. *)
FrameOutcome ==
    /\ radio \in {"frame", "listen"}
    /\ \E outcome \in {"missed", "nothing", "payload"} :
          /\ queue' = IF Stored(outcome) THEN Append(queue, rxNode) ELSE queue
          /\ synced' \in SyncAfter(outcome)
          /\ PrepareSlot(PoolAfter(outcome), ArmedAfter(outcome), synced')
    /\ UNCHANGED <<setup, pc, started, signal, held, requests, ratioVars, timedOut>>

(* process_schedule_request: the ratio of the slot the request points to      *)
(* becomes active and the oldest configuration slot is free again.           *)
ServeRatio ==
    /\ Head(requests).type = "ratio"
    /\ active' = content[Head(requests).config]
    /\ configs' = Dequeued(configs)
    /\ radio' = "frame"
    /\ UNCHANGED <<signal, pool>>

(* process_disconnect_request: the radio sleeps, the node at rx_node is freed *)
(* and rx_node keeps pointing to it.                                         *)
KeepsNode(nodes, n) == nodes                     \* mutant: the armed node is not freed
FreedArmed(nodes, n) == Freed(nodes, n)
ServeDisconnect ==
    /\ Head(requests).type = "disconnect"
    /\ radio' = "off"
    /\ signal' = "disconnect"
    /\ pool' = FreedArmed(pool, rxNode)
    /\ UNCHANGED <<configs, active>>

(* What is left of the request queue when its first request was served.      *)
RatioStays(q) == IF Head(q).type = "ratio" THEN q ELSE Tail(q)            \* mutant
DisconnectStays(q) == IF Head(q).type = "disconnect" THEN q ELSE Tail(q)  \* mutant
AfterServing(q) == Tail(q)

(* wps_mac_phy_callback, PHY_SIGNAL_CONFIG_COMPLETE: process_pending_request.  *)
ConfigComplete ==
    /\ radio = "config"
    /\ \/ /\ requests = <<>>
          /\ radio' = "frame"
          /\ UNCHANGED <<signal, pool, requests, configs, active>>
       \/ /\ requests # <<>>
          /\ ServeRatio \/ ServeDisconnect
          /\ requests' = AfterServing(requests)
    /\ UNCHANGED <<setup, pc, started, synced, slot, rxNode, queue, held>>
    /\ UNCHANGED <<content, accepted, timedOut>>

----------------------------------------------------------------------------
(* wps_set_active_ratio: with room in both queues the configuration slot is   *)
(* filled and enqueued, then the request that points to it.                  *)
FillConfig ==
    /\ pc = "idle" /\ configs.free > 0 /\ HasRoom(requests)
    /\ \E r \in Ratios : content' = [content EXCEPT ![configs.in] = r]
    /\ configs' = Enqueued(configs)
    /\ pc' = "ratio"
    /\ UNCHANGED <<setup, started, linkVars, nodeVars, requests>>
    /\ UNCHANGED <<active, accepted, timedOut>>

Filled == (configs.in + RequestSize - 1) % RequestSize

RequestRatio ==
    /\ pc = "ratio"
    /\ requests' = WithRequest(requests, "ratio", Filled)
    /\ accepted' = content[Filled]
    /\ pc' = "idle"
    /\ UNCHANGED <<setup, started, linkVars, nodeVars>>
    /\ UNCHANGED <<configs, content, active, timedOut>>

(* swc_connect and wps_connect: only a disconnected device does anything.    *)
Connect ==
    /\ pc = "idle" /\ signal = "disconnect"
    /\ setup.drains => queue = <<>> /\ held = NoNode
    /\ signal' = "connect" /\ synced' = FALSE /\ radio' = "start" /\ started' = TRUE
    /\ UNCHANGED <<setup, pc, slot, nodeVars, requests, ratioVars, timedOut>>

(* swc_disconnect and wps_disconnect up to the test of fast sync; a device     *)
(* that is disconnected gets an error, and is_started is cleared all the same. *)
Disconnect ==
    /\ pc = "idle"
    /\ \/ signal = "disconnect" /\ started' = FALSE /\ pc' = "idle"
       \/ signal = "connect" /\ started' = started
          /\ pc' = IF setup.fastSync /\ ~synced THEN "direct" ELSE "ask"
    /\ UNCHANGED <<setup, linkVars, nodeVars, requests, ratioVars, timedOut>>

(* An unsynced device with fast sync is stopped without the MAC.              *)
DirectDisconnect ==
    /\ pc = "direct"
    /\ radio' = "off" /\ signal' = "disconnect" /\ started' = FALSE /\ pc' = "idle"
    /\ UNCHANGED <<setup, synced, slot, nodeVars, requests, ratioVars, timedOut>>

(* Any other asks the MAC, unless the request queue is full ...              *)
AskDisconnect ==
    /\ pc = "ask"
    /\ IF HasRoom(requests)
       THEN pc' = "wait" /\ started' = started
       ELSE pc' = "idle" /\ started' = FALSE
    /\ requests' = WithRequest(requests, "disconnect", 0)
    /\ UNCHANGED <<setup, linkVars, nodeVars, ratioVars, timedOut>>

(* ... and waits for the signal to change ...                                *)
Disconnected ==
    /\ pc = "wait" /\ signal = "disconnect"
    /\ pc' = "idle" /\ started' = FALSE
    /\ UNCHANGED <<setup, linkVars, nodeVars, requests, ratioVars, timedOut>>

(* ... for a second at most, which is many slots: only a device that listens  *)
(* for its first frame serves no request that long.  The request stays.      *)
DisconnectTimeout ==
    /\ pc = "wait" /\ signal = "connect" /\ radio = "listen"
    /\ pc' = "idle" /\ started' = FALSE
    /\ timedOut' = TRUE
    /\ UNCHANGED <<setup, linkVars, nodeVars, requests, ratioVars>>

(* wps_read_done: the first node leaves the queue, then it is freed.         *)
ReadDone ==
    /\ held = NoNode /\ queue # <<>>
    /\ held' = Head(queue) /\ queue' = Tail(queue)
    /\ UNCHANGED <<setup, pc, started, linkVars, rxNode, pool>>
    /\ UNCHANGED <<requests, ratioVars, timedOut>>
FreeRead ==
    /\ held # NoNode
    /\ pool' = Freed(pool, held) /\ held' = NoNode
    /\ UNCHANGED <<setup, pc, started, linkVars, rxNode, queue>>
    /\ UNCHANGED <<requests, ratioVars, timedOut>>

(* swc_connection_flush_queue.                                              *)
Flush ==
    /\ pc = "idle" /\ ~started /\ held = NoNode /\ queue # <<>>
    /\ pool' = FreedAll(pool, queue)
    /\ queue' = <<>>
    /\ UNCHANGED <<setup, pc, started, linkVars, rxNode, held>>
    /\ UNCHANGED <<requests, ratioVars, timedOut>>

----------------------------------------------------------------------------
Init ==
    /\ setup \in Setups
    /\ pc = "idle" /\ started = FALSE
    /\ signal = "disconnect" /\ synced = FALSE /\ radio = "off" /\ slot = 1
    /\ rxNode = NoNode /\ pool = [n \in Nodes |-> n] /\ queue = <<>> /\ held = NoNode
    /\ requests = <<>>
    /\ configs = [in |-> 0, out |-> 0, free |-> RequestSize]
    /\ content = [p \in Places |-> 100] /\ active = 100 /\ accepted = 100
    /\ timedOut = FALSE

Radio == SlotsBegin \/ ConfigComplete \/ FrameOutcome
Call == DirectDisconnect \/ AskDisconnect \/ Disconnected \/ DisconnectTimeout
Application ==
    \/ FillConfig \/ RequestRatio \/ Connect \/ Disconnect \/ Call
    \/ ReadDone \/ FreeRead \/ Flush
Next == Radio \/ Application

(* The radio's interrupts come, except while it listens for a first frame;     *)
(* wps_disconnect goes on.  Nobody has to call or to read.                   *)
Fairness == WF_vars(radio # "listen" /\ Radio) /\ WF_vars(Call)
Spec == Init /\ [][Next]_vars /\ Fairness

----------------------------------------------------------------------------
(* The types of the variables; neither the pool nor a queue outgrows its size. *)
TypeOK ==
    /\ setup \in Setups
    /\ pc \in Locations /\ started \in BOOLEAN
    /\ signal \in {"connect", "disconnect"} /\ synced \in BOOLEAN
    /\ radio \in {"off", "start", "config", "frame", "listen"}
    /\ slot \in DOMAIN setup.slots
    /\ rxNode \in Nodes \cup {NoNode} /\ held \in Nodes \cup {NoNode}
    /\ pool \in Seq(Nodes) /\ Len(pool) <= NumNodes
    /\ queue \in Seq(Nodes) /\ Len(queue) <= QueueSize
    /\ requests \in Seq([type : {"ratio", "disconnect"}, config : Places])
    /\ Len(requests) <= RequestSize
    /\ configs \in [in : Places, out : Places, free : 0 .. RequestSize]
    /\ content \in [Places -> Ratios] /\ active \in Ratios /\ accepted \in Ratios
    /\ timedOut \in BOOLEAN

(* Places that hold node n: entries of the pool and the queue, the reader,    *)
(* and the reception that is armed.                                         *)
ReceptionArmed == radio \in {"config", "frame", "listen"} /\ Listens(Kind(slot))
Owners(n) ==
    Cardinality({i \in DOMAIN pool : pool[i] = n})
    + Cardinality({i \in DOMAIN queue : queue[i] = n})
    + (IF held = n THEN 1 ELSE 0)
    + (IF ReceptionArmed /\ rxNode = n THEN 1 ELSE 0)

(* While the device is connected a node never has two owners: the radio does  *)
(* not write into a frame that the application has still to read, although    *)
(* rx_node is neither reset when its node is queued (wps_mac.c:401) nor when  *)
(* a disconnection frees it (wps_mac.c:1523).  Without fast sync it always    *)
(* has one, so the receiver is not starved by reconnecting.                  *)
OneOwner ==
    radio # "off" => \A n \in Nodes :
        /\ Owners(n) <= 1
        /\ ~setup.fastSync => Owners(n) = 1

(* Once a device without fast sync is disconnected and its frames are read,   *)
(* the pool is whole again, whatever a disconnection freed twice or not.      *)
AllNodesHome == queue = <<>> /\ held = NoNode => Range(pool) = Nodes
PoolRestored == radio = "off" /\ ~setup.fastSync => AllNodesHome

(* The requests for a ratio point, in order, to the configuration slots in    *)
(* use, with the interrupt between the two queues: no slot leaks and none is  *)
(* filled again before it was served.                                        *)
RatioRequests == {i \in DOMAIN requests : requests[i].type = "ratio"}
Rank(i) == Cardinality({j \in RatioRequests : j < i})
ConfigsInStep ==
    /\ Cardinality(RatioRequests) + (IF pc = "ratio" THEN 1 ELSE 0)
          = RequestSize - configs.free
    /\ \A i \in RatioRequests :
          requests[i].config = (configs.out + Rank(i)) % RequestSize

(* With every ratio request served, across disconnections that left requests  *)
(* in the queue, the connection runs at the ratio that was accepted last.     *)
LastRatioWins == pc # "ratio" /\ RatioRequests = {} => active = accepted

(* A connection ends during a call that asks for it: no request of a call     *)
(* that returned is left in the queue to end a later connection, unless some   *)
(* call timed out before (its request stays, and serves or outlives the next). *)
EndsOnlyWhenAsked ==
    [][signal = "connect" /\ signal' = "disconnect"
         => pc \in {"wait", "direct"} \/ timedOut]_vars

(* The busy wait of wps_disconnect ends: with the device disconnected, or,     *)
(* with fast sync, possibly by its timeout.                                  *)
DisconnectEnds ==
    pc = "wait" ~> signal = "disconnect" \/ (setup.fastSync /\ pc = "idle")

(* "reset every layer in the WPS" (wps.h:827): a connection that starts with  *)
(* every frame read starts with every receive node free.                     *)
ConnectResets == radio = "start" => AllNodesHome
=============================================================================
