------------------------ MODULE WpsRequests_proofs --------------------------
(***************************************************************************)
(* Proofs about WpsRequests, for any devices, ratios and queue sizes.         *)
(*   - No connection ends without a call that asks for it.  Until a call      *)
(*     times out, the request queue holds at most one request for a           *)
(*     disconnection, and only while the call that enqueued it still waits    *)
(*     for a connected device.                                                *)
(*   - Configuration slots and requests stay in step, and the last ratio      *)
(*     accepted is the one that stays.                                        *)
(*   - A receive node has one owner and none is lost, in the schedules that   *)
(*     renew rx_node or whose application reads before it connects again.     *)
(***************************************************************************)
EXTENDS WpsRequests, FiniteSetTheorems, SequenceTheorems, TLAPS

Request == [type : {"ratio", "disconnect"}, config : Places]
Asks(q, i) == q[i].type = "disconnect"

Typed ==
    /\ requests \in Seq(Request)
    /\ configs.in \in Places
    /\ configs \in [in : Places, out : Places, free : Nat]

(* A call that is about to ask is made in a connection.  A request for a       *)
(* disconnection has a call that waits, and is the only one.                 *)
AsksConnected == pc = "ask" => signal = "connect"
CallWaits ==
    \A i \in 1 .. Len(requests) : Asks(requests, i) => pc = "wait" /\ signal = "connect"
OnlyRequest ==
    \A i, j \in 1 .. Len(requests) : Asks(requests, i) /\ Asks(requests, j) => i = j

IInv ==
    /\ Typed
    /\ timedOut \in BOOLEAN
    /\ ~timedOut => AsksConnected /\ CallWaits /\ OnlyRequest

(* The configuration slots have numbers, and the arithmetic of the circular   *)
(* queue stays among them.                                                  *)
LEMMA PlaceFacts ==
    /\ 0 \in Places
    /\ \A n \in Nat : n % RequestSize \in Places
    /\ \A p \in Places : (p + 1) % RequestSize \in Places
    /\ \A p \in Places : (p + RequestSize - 1) % RequestSize \in Places
<1>1. RequestSize \in Nat \ {0}
  BY RequestsAssumption
<1>2. \A n \in Nat : n % RequestSize \in Places
  BY <1>1 DEF Places
<1>3. \A p \in Places : p \in Nat /\ p + 1 \in Nat /\ p + RequestSize - 1 \in Nat
  BY <1>1 DEF Places
<1> QED
  BY <1>1, <1>2, <1>3 DEF Places

(* Enqueueing and dequeueing keep the indices among the slots.               *)
LEMMA QueueTypes ==
  ASSUME NEW q \in [in : Places, out : Places, free : Nat]
  PROVE  /\ Enqueued(q) \in [in : Places, out : Places, free : Nat]
         /\ Dequeued(q) \in [in : Places, out : Places, free : Nat]
<1>1. q.in \in Places /\ q.out \in Places /\ q.free \in Nat
  OBVIOUS
<1>2. Enqueued(q) \in [in : Places, out : Places, free : Nat]
  <2>1. (q.in + 1) % RequestSize \in Places
    BY <1>1, PlaceFacts
  <2>2. q.free # 0 => q.free - 1 \in Nat
    BY <1>1
  <2> QED
    BY <2>1, <2>2, Zenon DEF Enqueued
<1>3. Dequeued(q) \in [in : Places, out : Places, free : Nat]
  <2>1. (q.out + 1) % RequestSize \in Places
    BY <1>1, PlaceFacts
  <2>2. q.free + 1 \in Nat
    BY <1>1
  <2> QED
    BY <2>1, <2>2 DEF Dequeued
<1> QED
  BY <1>2, <1>3

(* What a request that finds room adds, and that a full queue stays.         *)
LEMMA RequestAdded ==
  ASSUME Typed, NEW t \in {"ratio", "disconnect"}, NEW c \in Places,
         NEW q, q = WithRequest(requests, t, c)
  PROVE  /\ q \in Seq(Request)
         /\ \A i \in 1 .. Len(q) :
               \/ i \in 1 .. Len(requests) /\ q[i] = requests[i]
               \/ i = Len(requests) + 1 /\ q[i].type = t
         /\ Len(requests) >= RequestSize => q = requests
<1>1. [type |-> t, config |-> c] \in Request
  BY DEF Request
<1>2. CASE Len(requests) < RequestSize
  <2>1. q = Append(requests, [type |-> t, config |-> c])
    BY <1>2 DEF WithRequest
  <2>2. RequestSize \in Nat /\ Len(requests) \in Nat
    BY RequestsAssumption DEF Typed
  <2> QED
    BY <1>1, <1>2, <2>1, <2>2 DEF Typed
<1>3. CASE ~(Len(requests) < RequestSize)
  BY <1>3 DEF WithRequest, Typed
<1> QED
  BY <1>2, <1>3

LEMMA InitInv == Init => IInv
<1> SUFFICES ASSUME Init PROVE IInv
  OBVIOUS
<1>1. Typed
  BY PlaceFacts, RequestsAssumption DEF Init, Typed
<1>2. requests = <<>> /\ pc = "idle" /\ timedOut = FALSE
  BY DEF Init
<1>3. 1 .. Len(requests) = {}
  BY <1>2
<1>4. CallWaits /\ OnlyRequest
  BY <1>3 DEF CallWaits, OnlyRequest
<1> QED
  BY <1>1, <1>2, <1>4 DEF IInv, AsksConnected

(* The first request is served: the rest keeps its order and its facts, and a *)
(* request for a disconnection leaves none behind.                           *)
LEMMA ServingKeeps ==
  ASSUME IInv, ConfigComplete
  PROVE  IInv'
<1>1. CASE requests = <<>>
  <2>1. UNCHANGED <<requests, configs, pc, signal, timedOut>>
    BY <1>1 DEF ConfigComplete
  <2> QED
    BY <2>1 DEF IInv, Typed, AsksConnected, CallWaits, OnlyRequest, Asks
<1>2. CASE requests # <<>>
  <2>1. /\ ServeRatio \/ ServeDisconnect
        /\ requests' = Tail(requests)
        /\ UNCHANGED <<pc, timedOut>>
    BY <1>2 DEF ConfigComplete, AfterServing
  <2>2. /\ requests' \in Seq(Request)
        /\ Len(requests') = Len(requests) - 1
        /\ \A i \in 1 .. Len(requests') :
              i + 1 \in 1 .. Len(requests) /\ requests'[i] = requests[i + 1]
        /\ 1 \in 1 .. Len(requests) /\ Head(requests) = requests[1]
        /\ Len(requests) \in Nat
    BY <1>2, <2>1 DEF IInv, Typed
  <2>3. Typed'
    BY <2>1, <2>2, QueueTypes DEF IInv, Typed, ServeRatio, ServeDisconnect
  <2>4. ASSUME ~timedOut PROVE OnlyRequest'
    BY <2>2, <2>4, SMTT(30) DEF IInv, OnlyRequest, Asks
  <2>5. ASSUME ~timedOut PROVE AsksConnected'
    <3>1. CASE ServeRatio
      BY <2>1, <2>5, <3>1 DEF IInv, AsksConnected, ServeRatio
    <3>2. CASE ServeDisconnect
      <4>1. Asks(requests, 1)
        BY <2>2, <3>2 DEF ServeDisconnect, Asks
      <4> QED
        BY <2>1, <2>2, <2>5, <4>1 DEF IInv, CallWaits, AsksConnected
    <3> QED
      BY <2>1, <3>1, <3>2
  <2>6. ASSUME ~timedOut PROVE CallWaits'
    <3>1. CASE ServeRatio
      BY <2>1, <2>2, <2>6, <3>1 DEF IInv, CallWaits, Asks, ServeRatio
    <3>2. CASE ServeDisconnect
      <4>1. Asks(requests, 1)
        BY <2>2, <3>2 DEF ServeDisconnect, Asks
      <4>2. \A i \in 1 .. Len(requests') : ~Asks(requests', i)
        BY <2>2, <2>6, <4>1 DEF IInv, OnlyRequest, Asks
      <4> QED
        BY <4>2 DEF CallWaits
    <3> QED
      BY <2>1, <3>1, <3>2
  <2> QED
    BY <2>1, <2>3, <2>4, <2>5, <2>6 DEF IInv
<1> QED
  BY <1>1, <1>2

LEMMA NextInv == IInv /\ [Next]_vars => IInv'
<1> SUFFICES ASSUME IInv, [Next]_vars PROVE IInv'
  OBVIOUS
<1> USE DEF linkVars, nodeVars, ratioVars
<1>1. CASE SlotsBegin
  BY <1>1 DEF SlotsBegin, IInv, Typed, AsksConnected, CallWaits, OnlyRequest, Asks
<1>2. CASE ConfigComplete
  BY <1>2, ServingKeeps
<1>3. CASE FrameOutcome
  BY <1>3 DEF FrameOutcome, IInv, Typed, AsksConnected, CallWaits, OnlyRequest, Asks
<1>4. CASE FillConfig
  <2>1. Typed'
    BY <1>4, QueueTypes DEF FillConfig, IInv, Typed
  <2> QED
    BY <1>4, <2>1 DEF FillConfig, IInv, AsksConnected, CallWaits, OnlyRequest, Asks
<1>5. CASE RequestRatio
  <2>1. Filled \in Places
    BY PlaceFacts DEF IInv, Typed, Filled
  <2>2. requests' = WithRequest(requests, "ratio", Filled)
    BY <1>5 DEF RequestRatio
  <2>3. /\ requests' \in Seq(Request)
        /\ \A i \in 1 .. Len(requests') :
              \/ i \in 1 .. Len(requests) /\ requests'[i] = requests[i]
              \/ i = Len(requests) + 1 /\ requests'[i].type = "ratio"
    BY <2>1, <2>2, RequestAdded DEF IInv
  <2>4. Typed'
    BY <1>5, <2>3 DEF RequestRatio, IInv, Typed
  <2>5. ~timedOut' => AsksConnected' /\ CallWaits' /\ OnlyRequest'
    BY <1>5, <2>3 DEF RequestRatio, IInv, AsksConnected, CallWaits, OnlyRequest, Asks
  <2> QED
    BY <1>5, <2>4, <2>5 DEF RequestRatio, IInv
<1>6. CASE Connect
  BY <1>6 DEF Connect, IInv, Typed, AsksConnected, CallWaits, OnlyRequest, Asks
<1>7. CASE Disconnect
  BY <1>7 DEF Disconnect, IInv, Typed, AsksConnected, CallWaits, OnlyRequest, Asks
<1>8. CASE DirectDisconnect
  BY <1>8 DEF DirectDisconnect, IInv, Typed, AsksConnected, CallWaits, OnlyRequest, Asks
<1>9. CASE AskDisconnect
  <2>1. requests' = WithRequest(requests, "disconnect", 0)
    BY <1>9 DEF AskDisconnect
  <2>2. /\ requests' \in Seq(Request)
        /\ \A i \in 1 .. Len(requests') :
              \/ i \in 1 .. Len(requests) /\ requests'[i] = requests[i]
              \/ i = Len(requests) + 1 /\ requests'[i].type = "disconnect"
        /\ Len(requests) >= RequestSize => requests' = requests
    <3>1. "disconnect" \in {"ratio", "disconnect"} /\ 0 \in Places
      BY PlaceFacts
    <3> QED
      BY <2>1, <3>1, RequestAdded DEF IInv
  <2>3. Typed'
    BY <1>9, <2>2 DEF AskDisconnect, IInv, Typed
  <2>4. ~timedOut => \A i \in 1 .. Len(requests) : ~Asks(requests, i)
    BY <1>9 DEF AskDisconnect, IInv, CallWaits
  <2>5. ~timedOut' => OnlyRequest'
    BY <1>9, <2>2, <2>4 DEF AskDisconnect, OnlyRequest, Asks
  <2>6. ~timedOut' => CallWaits'
    <3>1. CASE HasRoom(requests)
      <4>1. pc' = "wait" /\ UNCHANGED <<signal, timedOut>>
        BY <1>9, <3>1 DEF AskDisconnect
      <4> QED
        BY <1>9, <4>1 DEF AskDisconnect, IInv, AsksConnected, CallWaits
    <3>2. CASE ~HasRoom(requests)
      <4>1. requests' = requests /\ UNCHANGED timedOut
        BY <1>9, <2>2, <3>2, RequestsAssumption DEF AskDisconnect, HasRoom, IInv, Typed
      <4> QED
        BY <2>4, <4>1 DEF CallWaits
    <3> QED
      BY <3>1, <3>2
  <2>7. AsksConnected'
    BY <1>9 DEF AskDisconnect, AsksConnected
  <2> QED
    BY <1>9, <2>3, <2>5, <2>6, <2>7 DEF AskDisconnect, IInv
<1>10. CASE Disconnected
  BY <1>10 DEF Disconnected, IInv, Typed, AsksConnected, CallWaits, OnlyRequest, Asks
<1>11. CASE DisconnectTimeout
  BY <1>11 DEF DisconnectTimeout, IInv, Typed
<1>12. CASE ReadDone
  BY <1>12 DEF ReadDone, IInv, Typed, AsksConnected, CallWaits, OnlyRequest, Asks
<1>13. CASE FreeRead
  BY <1>13 DEF FreeRead, IInv, Typed, AsksConnected, CallWaits, OnlyRequest, Asks
<1>14. CASE Flush
  BY <1>14 DEF Flush, IInv, Typed, AsksConnected, CallWaits, OnlyRequest, Asks
<1>15. CASE UNCHANGED vars
  BY <1>15 DEF vars, IInv, Typed, AsksConnected, CallWaits, OnlyRequest, Asks
<1> QED
  BY <1>1, <1>2, <1>3, <1>4, <1>5, <1>6, <1>7, <1>8, <1>9, <1>10, <1>11, <1>12,
     <1>13, <1>14, <1>15 DEF Next, Radio, Application, Call

THEOREM Invariance == Spec => []IInv
  BY InitInv, NextInv, PTL DEF Spec

(* One step: only process_disconnect_request and the direct disconnection end *)
(* a connection, and each of them belongs to a call.                         *)
LEMMA StepEndsOnlyWhenAsked ==
  ASSUME IInv, [Next]_vars, signal = "connect", signal' = "disconnect", ~timedOut
  PROVE  pc \in {"wait", "direct"}
<1> USE DEF linkVars, nodeVars, ratioVars
<1>1. CASE ConfigComplete
  <2>1. requests # <<>> /\ (ServeRatio \/ ServeDisconnect)
    BY <1>1 DEF ConfigComplete
  <2>2. Head(requests).type = "disconnect"
    BY <2>1 DEF ServeRatio, ServeDisconnect
  <2>3. 1 \in 1 .. Len(requests) /\ Head(requests) = requests[1]
    BY <2>1 DEF IInv, Typed
  <2> QED
    BY <2>2, <2>3 DEF IInv, CallWaits, Asks
<1>2. CASE DirectDisconnect
  BY <1>2 DEF DirectDisconnect
<1>3. ConfigComplete \/ DirectDisconnect
  BY DEF Next, Radio, Application, Call, vars, SlotsBegin, FrameOutcome, FillConfig,
     RequestRatio, Connect, Disconnect, AskDisconnect, Disconnected,
     DisconnectTimeout, ReadDone, FreeRead, Flush
<1> QED
  BY <1>1, <1>2, <1>3

(* Only a call that asks for it ends a connection (wps_disconnect,            *)
(* process_disconnect_request), until a call has timed out.                  *)
THEOREM ConnectionEndsOnlyWhenAsked == Spec => EndsOnlyWhenAsked
<1>1. IInv /\ [Next]_vars =>
        [signal = "connect" /\ signal' = "disconnect"
            => pc \in {"wait", "direct"} \/ timedOut]_vars
  BY StepEndsOnlyWhenAsked
<1> QED
  BY <1>1, Invariance, PTL DEF Spec, EndsOnlyWhenAsked

-----------------------------------------------------------------------------
(* Types.                                                                   *)

NodeQueue(nodes, size) == nodes \in Seq(Nodes) /\ Len(nodes) <= size

LEMMA Sizes ==
    /\ NumNodes \in Nat /\ QueueSize \in Nat /\ RequestSize \in Nat
    /\ NumNodes > 0 /\ QueueSize > 0 /\ RequestSize > 0
BY RequestsAssumption

(* A slot number, and the one that follows it in the schedule.               *)
LEMMA SlotTypes ==
  ASSUME TypeOK
  PROVE  /\ NextSlot \in DOMAIN setup.slots
         /\ Kind(slot) \in SlotKinds
         /\ setup.node \in BOOLEAN /\ setup.fastSync \in BOOLEAN
<1>1. /\ setup.slots \in Seq(SlotKinds) /\ setup.slots # <<>>
      /\ setup.node \in BOOLEAN /\ setup.fastSync \in BOOLEAN
  BY RequestsAssumption DEF TypeOK, IsSetup
<1>2. /\ DOMAIN setup.slots = 1 .. Len(setup.slots) /\ Len(setup.slots) \in Nat
      /\ Len(setup.slots) > 0 /\ slot \in 1 .. Len(setup.slots)
  BY <1>1 DEF TypeOK
<1> QED
  BY <1>1, <1>2 DEF NextSlot, Kind

(* A node that is freed, or those of a queue, leave a pool of its size.      *)
LEMMA FreedType ==
  ASSUME NEW nodes, NodeQueue(nodes, NumNodes), NEW n \in Nodes \cup {NoNode}
  PROVE  NodeQueue(Freed(nodes, n), NumNodes)
BY Sizes DEF NodeQueue, Freed

LEMMA FreedAllType ==
  ASSUME NEW nodes, NodeQueue(nodes, NumNodes), NEW q \in Seq(Nodes)
  PROVE  NodeQueue(FreedAll(nodes, q), NumNodes)
<1> DEFINE places == NumNodes - Len(nodes)
           count == IF Len(q) <= places THEN Len(q) ELSE places
<1>1. /\ nodes \in Seq(Nodes) /\ Len(nodes) \in Nat /\ Len(q) \in Nat
      /\ count \in 0 .. Len(q) /\ Len(nodes) + count <= NumNodes
  BY Sizes DEF NodeQueue
<1> HIDE DEF count
<1>2. SubSeq(q, 1, count) \in Seq(Nodes) /\ Len(SubSeq(q, 1, count)) = count
  BY <1>1
<1>3. FreedAll(nodes, q) = nodes \o SubSeq(q, 1, count)
  BY DEF FreedAll, count
<1> QED
  BY <1>1, <1>2, <1>3 DEF NodeQueue

(* What a slot takes from the pool.                                         *)
LEMMA ArmedType ==
  ASSUME NEW kind, NEW nodes, NodeQueue(nodes, NumNodes), NEW n \in Nodes \cup {NoNode}
  PROVE  /\ Armed(kind, nodes, n)[1] \in Nodes \cup {NoNode}
         /\ NodeQueue(Armed(kind, nodes, n)[2], NumNodes)
<1>1. /\ Take(nodes, n)[1] \in Nodes \cup {NoNode}
      /\ NodeQueue(Take(nodes, n)[2], NumNodes)
  <2>1. CASE nodes = <<>>
    BY <2>1 DEF Take, NodeQueue
  <2>2. CASE nodes # <<>>
    <3>1. Head(nodes) \in Nodes /\ Tail(nodes) \in Seq(Nodes)
          /\ Len(Tail(nodes)) = Len(nodes) - 1 /\ Len(nodes) \in Nat
      BY <2>2 DEF NodeQueue
    <3> QED
      BY <2>2, <3>1, Sizes DEF Take, NodeQueue
  <2> QED
    BY <2>1, <2>2
<1>2. \/ Armed(kind, nodes, n) = Take(nodes, n)
      \/ Armed(kind, nodes, n) = <<NoNode, nodes>>
      \/ Armed(kind, nodes, n) = <<n, nodes>>
  BY DEF Armed
<1> QED
  BY <1>1, <1>2

LEMMA PrepareType ==
  ASSUME TypeOK, NEW nodes, NodeQueue(nodes, NumNodes), NEW n \in Nodes \cup {NoNode},
         NEW sync \in BOOLEAN, PrepareSlot(nodes, n, sync)
  PROVE  /\ slot' \in DOMAIN setup.slots
         /\ rxNode' \in Nodes \cup {NoNode}
         /\ NodeQueue(pool', NumNodes)
         /\ radio' \in {"listen", "config"}
BY SlotTypes, ArmedType DEF PrepareSlot

(* The configuration slots in use are counted.                              *)
LEMMA ConfigTypes ==
  ASSUME NEW q \in [in : Places, out : Places, free : 0 .. RequestSize]
  PROVE  /\ Enqueued(q) \in [in : Places, out : Places, free : 0 .. RequestSize]
         /\ Dequeued(q) \in [in : Places, out : Places, free : 0 .. RequestSize]
<1>1. q \in [in : Places, out : Places, free : Nat]
  BY Sizes
<1>2. /\ Enqueued(q) \in [in : Places, out : Places, free : Nat]
      /\ Dequeued(q) \in [in : Places, out : Places, free : Nat]
  BY <1>1, QueueTypes
<1>3. Enqueued(q).free <= RequestSize /\ Dequeued(q).free <= RequestSize
  BY Sizes DEF Enqueued, Dequeued
<1>4. \A c \in [in : Places, out : Places, free : Nat] :
         c.free <= RequestSize => c \in [in : Places, out : Places, free : 0 .. RequestSize]
  BY Sizes
<1> QED
  BY <1>2, <1>3, <1>4

(* The parts of TypeOK, by who owns the variables.                           *)
ControlType ==
    /\ setup \in Setups
    /\ pc \in Locations /\ started \in BOOLEAN
    /\ signal \in {"connect", "disconnect"} /\ synced \in BOOLEAN
    /\ radio \in {"off", "start", "config", "frame", "listen"}
    /\ slot \in DOMAIN setup.slots
    /\ timedOut \in BOOLEAN
NodeType ==
    /\ rxNode \in Nodes \cup {NoNode} /\ held \in Nodes \cup {NoNode}
    /\ NodeQueue(pool, NumNodes) /\ NodeQueue(queue, QueueSize)
RatioType ==
    /\ requests \in Seq(Request) /\ Len(requests) <= RequestSize
    /\ configs \in [in : Places, out : Places, free : 0 .. RequestSize]
    /\ content \in [Places -> Ratios] /\ active \in Ratios /\ accepted \in Ratios

LEMMA TypeParts == TypeOK <=> ControlType /\ NodeType /\ RatioType
BY DEF TypeOK, ControlType, NodeType, RatioType, NodeQueue, Request

LEMMA InitTypeOK == Init => TypeOK
<1> SUFFICES ASSUME Init PROVE ControlType /\ NodeType /\ RatioType
  BY TypeParts
<1>1. ControlType
  <2>1. setup \in Setups /\ setup.slots \in Seq(SlotKinds) /\ setup.slots # <<>>
    BY RequestsAssumption DEF Init, IsSetup
  <2>2. 1 \in DOMAIN setup.slots
    BY <2>1
  <2>3. started = FALSE /\ synced = FALSE /\ timedOut = FALSE
    BY DEF Init
  <2> QED
    BY <2>1, <2>2, <2>3 DEF Init, ControlType, Locations
<1>2. NodeType
  <2>1. pool = [n \in 1 .. NumNodes |-> n] /\ queue = <<>> /\ rxNode = NoNode /\ held = NoNode
    BY DEF Init, Nodes
  <2>2. pool \in Seq(Nodes) /\ Len(pool) = NumNodes
    BY <2>1, Sizes DEF Nodes
  <2> QED
    BY <2>1, <2>2, Sizes DEF NodeType, NodeQueue
<1>3. RatioType
  <2>1. 0 \in Places /\ 100 \in Ratios
    BY PlaceFacts, RequestsAssumption
  <2>2. requests \in Seq(Request) /\ Len(requests) = 0
    BY DEF Init
  <2> QED
    BY <2>1, <2>2, Sizes DEF Init, RatioType
<1> QED
  BY <1>1, <1>2, <1>3

(* The radio's interrupts.                                                   *)
LEMMA RadioTypes == TypeOK /\ Radio => TypeOK'
<1> SUFFICES ASSUME TypeOK, Radio PROVE ControlType' /\ NodeType' /\ RatioType'
  BY TypeParts DEF TypeOK, ControlType, NodeType, RatioType, NodeQueue, Request
<1> USE TypeParts DEF linkVars, nodeVars, ratioVars
<1>1. CASE SlotsBegin
  <2>1. /\ PrepareSlot(pool, rxNode, synced)
        /\ UNCHANGED <<setup, pc, started, signal, synced, queue, held, requests,
                       configs, content, active, accepted, timedOut>>
    BY <1>1 DEF SlotsBegin
  <2>2. /\ slot' \in DOMAIN setup.slots /\ rxNode' \in Nodes \cup {NoNode}
        /\ NodeQueue(pool', NumNodes) /\ radio' \in {"listen", "config"}
    BY <2>1, PrepareType DEF NodeType, ControlType
  <2> QED
    BY <2>1, <2>2 DEF ControlType, NodeType, RatioType
<1>2. CASE FrameOutcome
  <2>1. PICK outcome \in {"missed", "nothing", "payload"} :
          /\ queue' = IF Stored(outcome) THEN Append(queue, rxNode) ELSE queue
          /\ synced' \in SyncAfter(outcome)
          /\ PrepareSlot(PoolAfter(outcome), ArmedAfter(outcome), synced')
    BY <1>2 DEF FrameOutcome
  <2>2. UNCHANGED <<setup, pc, started, signal, held, requests, configs, content,
                    active, accepted, timedOut>>
    BY <1>2 DEF FrameOutcome
  <2>3. synced' \in BOOLEAN
    BY <2>1 DEF SyncAfter, ControlType
  <2>4. NodeQueue(PoolAfter(outcome), NumNodes) /\ ArmedAfter(outcome) \in Nodes \cup {NoNode}
    BY FreedType DEF PoolAfter, ArmedAfter, NodeType
  <2>5. /\ slot' \in DOMAIN setup.slots /\ rxNode' \in Nodes \cup {NoNode}
        /\ NodeQueue(pool', NumNodes) /\ radio' \in {"listen", "config"}
    BY <2>1, <2>3, <2>4, PrepareType
  <2>6. NodeQueue(queue', QueueSize)
    <3>1. CASE Stored(outcome)
      <4>1. /\ queue' = Append(queue, rxNode) /\ rxNode \in Nodes
            /\ Len(queue) < QueueSize /\ queue \in Seq(Nodes)
        BY <2>1, <3>1 DEF Stored, NodeType, NodeQueue
      <4> QED
        BY <4>1, Sizes DEF NodeQueue
    <3>2. CASE ~Stored(outcome)
      BY <2>1, <3>2 DEF NodeType
    <3> QED
      BY <3>1, <3>2
  <2> QED
    BY <2>2, <2>3, <2>5, <2>6 DEF ControlType, NodeType, RatioType
<1>3. CASE ConfigComplete /\ requests = <<>>
  BY <1>3 DEF ConfigComplete, ControlType, NodeType, RatioType
<1>4. CASE ConfigComplete /\ requests # <<>>
  <2>1. /\ ServeRatio \/ ServeDisconnect
        /\ requests' = Tail(requests)
        /\ UNCHANGED <<setup, pc, started, synced, slot, rxNode, queue, held, content,
                       accepted, timedOut>>
    BY <1>4 DEF ConfigComplete, AfterServing
  <2>2. /\ Head(requests) \in Request /\ Tail(requests) \in Seq(Request)
        /\ Len(Tail(requests)) = Len(requests) - 1 /\ Len(requests) \in Nat
    BY <1>4 DEF RatioType
  <2>3. requests' \in Seq(Request) /\ Len(requests') <= RequestSize
    BY <2>1, <2>2, Sizes DEF RatioType
  <2>4. CASE ServeRatio
    <3>1. content[Head(requests).config] \in Ratios
      BY <2>2 DEF RatioType, Request
    <3>2. RatioType'
      BY <2>1, <2>3, <2>4, <3>1, ConfigTypes DEF ServeRatio, RatioType
    <3> QED
      BY <2>1, <2>4, <3>2 DEF ServeRatio, ControlType, NodeType
  <2>5. CASE ServeDisconnect
    <3>1. NodeQueue(pool', NumNodes)
      BY <2>5, FreedType DEF ServeDisconnect, FreedArmed, NodeType
    <3> QED
      BY <2>1, <2>3, <2>5, <3>1 DEF ServeDisconnect, ControlType, NodeType, RatioType
  <2> QED
    BY <2>1, <2>4, <2>5
<1> QED
  BY <1>1, <1>2, <1>3, <1>4 DEF Radio

(* The application's calls.                                                  *)
LEMMA CallTypes ==
  TypeOK /\ (Connect \/ Disconnect \/ DirectDisconnect \/ Disconnected
               \/ DisconnectTimeout \/ AskDisconnect) => TypeOK'
<1> SUFFICES ASSUME TypeOK, Connect \/ Disconnect \/ DirectDisconnect \/ Disconnected
                              \/ DisconnectTimeout \/ AskDisconnect
             PROVE  ControlType' /\ NodeType' /\ RatioType'
  BY TypeParts DEF TypeOK, ControlType, NodeType, RatioType, NodeQueue, Request
<1> USE TypeParts DEF linkVars, nodeVars, ratioVars
<1>1. UNCHANGED <<setup, slot, rxNode, pool, queue, held, configs, content, active, accepted>>
  BY DEF Connect, Disconnect, DirectDisconnect, Disconnected, DisconnectTimeout,
         AskDisconnect
<1>2. NodeType'
  BY <1>1 DEF NodeType
<1>3. RatioType'
  <2>1. requests' = requests \/ requests' = WithRequest(requests, "disconnect", 0)
    BY DEF Connect, Disconnect, DirectDisconnect, Disconnected, DisconnectTimeout,
           AskDisconnect
  <2>2. WithRequest(requests, "disconnect", 0) \in Seq(Request)
        /\ Len(WithRequest(requests, "disconnect", 0)) <= RequestSize
    <3>1. [type |-> "disconnect", config |-> 0] \in Request
      BY PlaceFacts DEF Request
    <3> QED
      BY <3>1, Sizes DEF RatioType, WithRequest
  <2> QED
    BY <1>1, <2>1, <2>2 DEF RatioType
<1>4. ControlType'
  <2>1. pc' \in Locations /\ signal' \in {"connect", "disconnect"}
        /\ radio' \in {"off", "start", "config", "frame", "listen"}
    BY DEF Connect, Disconnect, DirectDisconnect, Disconnected, DisconnectTimeout,
           AskDisconnect, Locations, ControlType
  <2>2. started' \in BOOLEAN
    BY Zenon DEF Connect, Disconnect, DirectDisconnect, Disconnected, DisconnectTimeout,
                 AskDisconnect, ControlType
  <2>3. synced' \in BOOLEAN
    BY Zenon DEF Connect, Disconnect, DirectDisconnect, Disconnected, DisconnectTimeout,
                 AskDisconnect, ControlType
  <2>4. timedOut' \in BOOLEAN
    BY Zenon DEF Connect, Disconnect, DirectDisconnect, Disconnected, DisconnectTimeout,
                 AskDisconnect, ControlType
  <2> QED
    BY <1>1, <2>1, <2>2, <2>3, <2>4 DEF ControlType
<1> QED
  BY <1>2, <1>3, <1>4

LEMMA RatioTypes == TypeOK /\ (FillConfig \/ RequestRatio) => TypeOK'
<1> SUFFICES ASSUME TypeOK, FillConfig \/ RequestRatio
             PROVE  ControlType' /\ NodeType' /\ RatioType'
  BY TypeParts DEF TypeOK, ControlType, NodeType, RatioType, NodeQueue, Request
<1> USE TypeParts DEF linkVars, nodeVars, ratioVars
<1>1. /\ UNCHANGED <<setup, started, signal, synced, radio, slot, rxNode, pool, queue,
                     held, timedOut, active>>
      /\ pc' \in {"idle", "ratio"}
  BY DEF FillConfig, RequestRatio
<1>2. ControlType' /\ NodeType'
  BY <1>1 DEF ControlType, NodeType, Locations
<1>3. CASE FillConfig
  <2>1. PICK r \in Ratios : content' = [content EXCEPT ![configs.in] = r]
    BY <1>3 DEF FillConfig
  <2> QED
    BY <1>1, <1>2, <1>3, <2>1, ConfigTypes DEF FillConfig, RatioType
<1>4. CASE RequestRatio
  <2>1. Filled \in Places
    BY PlaceFacts DEF RatioType, Filled
  <2>2. WithRequest(requests, "ratio", Filled) \in Seq(Request)
        /\ Len(WithRequest(requests, "ratio", Filled)) <= RequestSize
    <3>1. [type |-> "ratio", config |-> Filled] \in Request
      BY <2>1 DEF Request
    <3> QED
      BY <3>1, Sizes DEF RatioType, WithRequest
  <2> QED
    BY <1>1, <1>2, <1>4, <2>1, <2>2 DEF RequestRatio, RatioType
<1> QED
  BY <1>3, <1>4

LEMMA ReaderTypes == TypeOK /\ (ReadDone \/ FreeRead \/ Flush) => TypeOK'
<1> SUFFICES ASSUME TypeOK, ReadDone \/ FreeRead \/ Flush
             PROVE  ControlType' /\ NodeType' /\ RatioType'
  BY TypeParts DEF TypeOK, ControlType, NodeType, RatioType, NodeQueue, Request
<1> USE TypeParts DEF linkVars, nodeVars, ratioVars
<1>1. UNCHANGED <<setup, pc, started, signal, synced, radio, slot, rxNode, requests,
                  configs, content, active, accepted, timedOut>>
  BY DEF ReadDone, FreeRead, Flush
<1>2. ControlType' /\ RatioType'
  BY <1>1 DEF ControlType, RatioType
<1>3. CASE ReadDone
  <2>1. /\ Head(queue) \in Nodes /\ Tail(queue) \in Seq(Nodes)
        /\ Len(Tail(queue)) = Len(queue) - 1 /\ Len(queue) \in Nat
    BY <1>3 DEF ReadDone, NodeType, NodeQueue
  <2> QED
    BY <1>1, <1>2, <1>3, <2>1, Sizes DEF ReadDone, NodeType, NodeQueue
<1>4. CASE FreeRead
  BY <1>1, <1>2, <1>4, FreedType DEF FreeRead, NodeType
<1>5. CASE Flush
  <2>1. NodeQueue(FreedAll(pool, queue), NumNodes)
    BY FreedAllType DEF NodeType, NodeQueue
  <2>2. NodeQueue(<<>>, QueueSize)
    BY Sizes DEF NodeQueue
  <2> QED
    BY <1>1, <1>2, <1>5, <2>1, <2>2 DEF Flush, NodeType
<1> QED
  BY <1>3, <1>4, <1>5

LEMMA StepTypes == TypeOK /\ [Next]_vars => TypeOK'
<1>1. TypeOK /\ UNCHANGED vars => TypeOK'
  BY DEF TypeOK, vars, linkVars, nodeVars, ratioVars
<1> QED
  BY <1>1, RadioTypes, CallTypes, RatioTypes, ReaderTypes DEF Next, Application, Call

(* Types, for any schedules, ratios and queue sizes: whatever is freed twice, *)
(* neither the pool nor a queue outgrows the memory it has.                  *)
THEOREM TypeCorrect == Spec => []TypeOK
BY InitTypeOK, StepTypes, PTL DEF Spec

-----------------------------------------------------------------------------
(* The schedule ratio requests and their configuration slots.                *)

(* The requests for a ratio of a queue, and how many come before a place.    *)
RatiosIn(q) == {i \in DOMAIN q : q[i].type = "ratio"}
Before(q, i) == {j \in RatiosIn(q) : j < i}

LEMMA SequenceForms ==
    /\ RatioRequests = RatiosIn(requests)
    /\ \A i \in RatioRequests : Rank(i) = Cardinality(Before(requests, i))
BY DEF RatioRequests, Rank, RatiosIn, Before

LEMMA SequenceFormsNext ==
    /\ RatioRequests' = RatiosIn(requests')
    /\ \A i \in RatioRequests' : Rank(i)' = Cardinality(Before(requests', i))
BY DEF RatioRequests, Rank, RatiosIn, Before

(* The set of places of a queue without its first, counted from there.       *)
LEMMA Shifted ==
  ASSUME NEW n \in Nat, NEW S \in SUBSET (1 .. n), NEW T,
         T = {j \in 1 .. (n - 1) : j + 1 \in S}
  PROVE  /\ IsFiniteSet(S) /\ IsFiniteSet(T)
         /\ Cardinality(S) \in Nat /\ Cardinality(T) \in Nat
         /\ Cardinality(S) = Cardinality(T) + (IF 1 \in S THEN 1 ELSE 0)
<1> DEFINE f == [s \in S \ {1} |-> s - 1]
<1>1. IsFiniteSet(S)
  BY FS_Interval, FS_Subset, 1 \in Int, n \in Int
<1>2. IsFiniteSet(S \ {1}) /\ Cardinality(S) \in Nat
      /\ Cardinality(S \ {1}) = IF 1 \in S THEN Cardinality(S) - 1 ELSE Cardinality(S)
  BY <1>1, FS_RemoveElement, FS_CardinalityType
<1>3. f \in Bijection(S \ {1}, T)
  <2>1. f \in [S \ {1} -> T]
    OBVIOUS
  <2>2. \A a, b \in S \ {1} : f[a] = f[b] => a = b
    OBVIOUS
  <2>3. \A t \in T : t + 1 \in S \ {1} /\ f[t + 1] = t
    OBVIOUS
  <2>4. \A t \in T : \E s \in S \ {1} : f[s] = t
    BY <2>3, Zenon
  <2> HIDE DEF f
  <2> QED
    BY <2>1, <2>2, <2>4 DEF Bijection, Injection, Surjection, IsInjective
<1>4. ExistsBijection(S \ {1}, T)
  BY <1>3 DEF ExistsBijection
<1>5. IsFiniteSet(T) /\ Cardinality(T) = Cardinality(S \ {1})
  BY <1>2, <1>4, FS_Bijection
<1> QED
  BY <1>1, <1>2, <1>5, FS_CardinalityType

(* The requests for a ratio that come before a place are fewer than all.      *)
LEMMA Ranks ==
  ASSUME NEW q \in Seq(Request)
  PROVE  /\ IsFiniteSet(RatiosIn(q)) /\ Cardinality(RatiosIn(q)) \in Nat
         /\ \A i \in RatiosIn(q) : /\ Cardinality(Before(q, i)) \in Nat
                                   /\ Cardinality(Before(q, i)) < Cardinality(RatiosIn(q))
<1>1. Len(q) \in Nat /\ RatiosIn(q) \subseteq 1 .. Len(q)
  BY DEF RatiosIn
<1>2. IsFiniteSet(RatiosIn(q)) /\ Cardinality(RatiosIn(q)) \in Nat
  <2>1. IsFiniteSet(1 .. Len(q))
    BY <1>1, FS_Interval, 1 \in Int, Len(q) \in Int
  <2> QED
    BY <1>1, <2>1, FS_Subset, FS_CardinalityType
<1>3. ASSUME NEW i \in RatiosIn(q)
      PROVE  /\ Cardinality(Before(q, i)) \in Nat
             /\ Cardinality(Before(q, i)) < Cardinality(RatiosIn(q))
  <2>1. IsFiniteSet(RatiosIn(q) \ {i})
        /\ Cardinality(RatiosIn(q) \ {i}) = Cardinality(RatiosIn(q)) - 1
    BY <1>2, FS_RemoveElement
  <2>2. Before(q, i) \subseteq RatiosIn(q) \ {i}
    BY <1>1 DEF Before
  <2>3. IsFiniteSet(Before(q, i))
        /\ Cardinality(Before(q, i)) <= Cardinality(RatiosIn(q) \ {i})
    BY <2>1, <2>2, FS_Subset
  <2> QED
    BY <1>2, <2>1, <2>3, FS_CardinalityType
<1> QED
  BY <1>2, <1>3

(* A request at the end: the others keep their places.                       *)
LEMMA RanksAppended ==
  ASSUME NEW q \in Seq(Request), NEW r \in Request, NEW e, e = Append(q, r)
  PROVE  /\ RatiosIn(e) = IF r.type = "ratio" THEN RatiosIn(q) \cup {Len(q) + 1}
                                               ELSE RatiosIn(q)
         /\ Cardinality(RatiosIn(e)) = Cardinality(RatiosIn(q))
                                         + (IF r.type = "ratio" THEN 1 ELSE 0)
         /\ \A i \in RatiosIn(q) : /\ e[i] = q[i] /\ i < Len(q) + 1
                                   /\ Before(e, i) = Before(q, i)
         /\ Before(e, Len(q) + 1) = RatiosIn(q)
<1>1. /\ Len(q) \in Nat /\ Len(e) = Len(q) + 1 /\ DOMAIN q = 1 .. Len(q)
      /\ DOMAIN e = 1 .. (Len(q) + 1)
      /\ e[Len(q) + 1] = r /\ \A i \in 1 .. Len(q) : e[i] = q[i]
  OBVIOUS
<1>2. RatiosIn(e) = IF r.type = "ratio" THEN RatiosIn(q) \cup {Len(q) + 1} ELSE RatiosIn(q)
  BY <1>1 DEF RatiosIn
<1>3. \A i \in RatiosIn(q) : i \in 1 .. Len(q)
  BY <1>1 DEF RatiosIn
<1>4. \A i \in RatiosIn(q) : e[i] = q[i] /\ i < Len(q) + 1
  BY <1>1, <1>3
<1>5. \A i \in RatiosIn(q) : Before(e, i) = Before(q, i)
  BY <1>1, <1>2, <1>3 DEF Before
<1>6. Before(e, Len(q) + 1) = RatiosIn(q)
  BY <1>1, <1>2, <1>3 DEF Before
<1>7. Cardinality(RatiosIn(e)) = Cardinality(RatiosIn(q)) + (IF r.type = "ratio" THEN 1 ELSE 0)
  <2>1. Len(q) + 1 \notin RatiosIn(q)
    BY <1>1, <1>3
  <2>2. IsFiniteSet(RatiosIn(q)) /\ Cardinality(RatiosIn(q)) \in Nat
    BY Ranks
  <2>3. Cardinality(RatiosIn(q) \cup {Len(q) + 1}) = Cardinality(RatiosIn(q)) + 1
    BY <2>1, <2>2, FS_AddElement
  <2> QED
    BY <1>2, <2>2, <2>3
<1> QED
  BY <1>2, <1>4, <1>5, <1>6, <1>7

(* The first request leaves: the others move up, by one rank if it asked for  *)
(* a ratio.                                                                 *)
LEMMA RanksTail ==
  ASSUME NEW q \in Seq(Request), q # <<>>, NEW t, t = Tail(q)
  PROVE  /\ \A i : i \in RatiosIn(t) <=> i \in 1 .. (Len(q) - 1) /\ i + 1 \in RatiosIn(q)
         /\ 1 \in RatiosIn(q) <=> Head(q).type = "ratio"
         /\ Cardinality(RatiosIn(q)) = Cardinality(RatiosIn(t))
                                         + (IF Head(q).type = "ratio" THEN 1 ELSE 0)
         /\ \A i \in RatiosIn(t) :
               /\ t[i] = q[i + 1]
               /\ Cardinality(Before(q, i + 1))
                     = Cardinality(Before(t, i)) + (IF Head(q).type = "ratio" THEN 1 ELSE 0)
         /\ Head(q).type = "ratio" => Head(q) = q[1] /\ Before(q, 1) = {}
<1>1. /\ Len(q) \in Nat /\ Len(q) > 0 /\ DOMAIN q = 1 .. Len(q) /\ Head(q) = q[1]
      /\ DOMAIN t = 1 .. (Len(q) - 1)
      /\ \A i \in 1 .. (Len(q) - 1) : t[i] = q[i + 1]
  OBVIOUS
<1>2. \A i : i \in RatiosIn(t) <=> i \in 1 .. (Len(q) - 1) /\ i + 1 \in RatiosIn(q)
  BY <1>1 DEF RatiosIn
<1>3. 1 \in RatiosIn(q) <=> Head(q).type = "ratio"
  BY <1>1 DEF RatiosIn
<1>4. RatiosIn(q) \in SUBSET (1 .. Len(q))
  BY <1>1 DEF RatiosIn
<1>5. Cardinality(RatiosIn(q)) = Cardinality(RatiosIn(t))
                                   + (IF Head(q).type = "ratio" THEN 1 ELSE 0)
  <2>1. RatiosIn(t) = {j \in 1 .. (Len(q) - 1) : j + 1 \in RatiosIn(q)}
    BY <1>2
  <2> QED
    BY <1>1, <1>3, <1>4, <2>1, Shifted
<1>6. ASSUME NEW i \in RatiosIn(t)
      PROVE  Cardinality(Before(q, i + 1))
                = Cardinality(Before(t, i)) + (IF Head(q).type = "ratio" THEN 1 ELSE 0)
  <2>1. i \in 1 .. (Len(q) - 1) /\ i + 1 \in RatiosIn(q)
    BY <1>2
  <2>2. Before(q, i + 1) \in SUBSET (1 .. Len(q))
    BY <1>4 DEF Before
  <2>3. Before(t, i) = {j \in 1 .. (Len(q) - 1) : j + 1 \in Before(q, i + 1)}
    <3>1. \A j \in 1 .. (Len(q) - 1) : j < i <=> j + 1 < i + 1
      BY <1>1, <2>1
    <3> QED
      BY <1>1, <1>2, <3>1 DEF Before
  <2>4. 1 \in Before(q, i + 1) <=> Head(q).type = "ratio"
    BY <1>3, <2>1 DEF Before
  <2> QED
    BY <1>1, <2>2, <2>3, <2>4, Shifted
<1>7. Before(q, 1) = {}
  BY <1>4 DEF Before
<1> QED
  BY <1>1, <1>2, <1>3, <1>5, <1>6, <1>7

LEMMA BeforeTail ==
  ASSUME NEW q \in Seq(Request), q # <<>>
  PROVE  \A i \in RatiosIn(Tail(q)) :
            Cardinality(Before(q, i + 1))
              = Cardinality(Before(Tail(q), i)) + (IF Head(q).type = "ratio" THEN 1 ELSE 0)
BY RanksTail, ZenonT(30)

(* Places around the ring of configuration slots.                            *)
LEMMA Ring ==
  ASSUME NEW p \in Places, NEW u \in Nat, u <= RequestSize
  PROVE  /\ u < RequestSize => (((p + u) % RequestSize) + 1) % RequestSize = (p + (u + 1)) % RequestSize
         /\ u >= 1 => /\ (((p + u) % RequestSize) + RequestSize - 1) % RequestSize
                            = (p + (u - 1)) % RequestSize
                      /\ (p + u) % RequestSize = (((p + 1) % RequestSize) + (u - 1)) % RequestSize
         /\ \A k \in Nat : k < u /\ u < RequestSize =>
               (p + k) % RequestSize # (p + u) % RequestSize
         /\ (p + 0) % RequestSize = p
<1>1. /\ RequestSize \in Nat /\ RequestSize > 0 /\ p \in Nat /\ p < RequestSize
  BY Sizes DEF Places
<1> DEFINE R == RequestSize
<1>2. \A n \in Nat : /\ n < R => n % R = n
                     /\ R <= n /\ n < R + R => n % R = n - R
  BY <1>1
<1>3. R \in Nat /\ R > 0 /\ p < R /\ u <= R
  BY <1>1
<1> HIDE DEF R
<1>4. u < R => (((p + u) % R) + 1) % R = (p + (u + 1)) % R
  <2>1. CASE p + u < R
    BY <1>1, <1>2, <1>3, <2>1
  <2>2. CASE p + u >= R /\ u < R
    <3>1. (p + u) % R = p + u - R
      BY <1>1, <1>2, <1>3, <2>2
    <3>2. (p + (u + 1)) % R = p + u + 1 - R
      BY <1>1, <1>2, <1>3, <2>2
    <3>3. (p + u - R + 1) % R = p + u - R + 1
      BY <1>1, <1>2, <1>3, <2>2
    <3> QED
      BY <1>1, <1>3, <3>1, <3>2, <3>3
  <2> QED
    BY <1>1, <1>3, <2>1, <2>2
<1>5. u >= 1 => (((p + u) % R) + R - 1) % R = (p + (u - 1)) % R
  <2>1. CASE u >= 1 /\ p + u < R
    <3>1. (p + u) % R = p + u /\ (p + (u - 1)) % R = p + u - 1
      BY <1>1, <1>2, <1>3, <2>1
    <3>2. (p + u + R - 1) % R = p + u - 1
      BY <1>1, <1>2, <1>3, <2>1
    <3> QED
      BY <3>1, <3>2
  <2>2. CASE u >= 1 /\ p + u >= R
    <3>1. (p + u) % R = p + u - R
      BY <1>1, <1>2, <1>3, <2>2
    <3>2. p + u - R + R - 1 = p + (u - 1)
      BY <1>1, <1>3
    <3> QED
      BY <3>1, <3>2
  <2> QED
    BY <1>1, <1>3, <2>1, <2>2
<1>6. u >= 1 => (p + u) % R = (((p + 1) % R) + (u - 1)) % R
  <2>1. CASE p + 1 < R /\ u >= 1
    <3>1. (p + 1) % R = p + 1
      BY <1>1, <1>2, <2>1
    <3> QED
      BY <1>1, <1>3, <3>1
  <2>2. CASE p + 1 = R /\ u >= 1
    <3>1. (p + 1) % R = 0
      BY <1>1, <1>2, <1>3, <2>2
    <3>2. (p + u) % R = u - 1
      BY <1>1, <1>2, <1>3, <2>2
    <3>3. (u - 1) % R = u - 1
      BY <1>1, <1>2, <1>3, <2>2
    <3> QED
      BY <1>1, <1>3, <3>1, <3>2, <3>3
  <2> QED
    BY <1>1, <1>3, <2>1, <2>2
<1>7. ASSUME NEW k \in Nat, k < u, u < R
      PROVE  (p + k) % R # (p + u) % R
  <2>1. CASE p + u < R
    BY <1>1, <1>2, <1>3, <1>7, <2>1
  <2>2. CASE p + u >= R /\ p + k < R
    BY <1>1, <1>2, <1>3, <1>7, <2>2
  <2>3. CASE p + k >= R
    BY <1>1, <1>2, <1>3, <1>7, <2>3
  <2> QED
    BY <1>1, <1>3, <2>1, <2>2, <2>3
<1>8. (p + 0) % R = p
  BY <1>1, <1>2, <1>3
<1> QED
  BY <1>4, <1>5, <1>6, <1>7, <1>8 DEF R

(* The configuration slots in use start at the place to empty: one for each    *)
(* request for a ratio, in order, and one more while a request is being made. *)
InStep(q, c, filling) ==
    /\ Cardinality(RatiosIn(q)) + filling = RequestSize - c.free
    /\ \A i \in RatiosIn(q) : q[i].config = (c.out + Cardinality(Before(q, i))) % RequestSize
    /\ c.in = (c.out + (RequestSize - c.free)) % RequestSize

(* The last ratio that was accepted is the one of the last request for a       *)
(* ratio, or the active one when there is none.                              *)
Latest(q, cont, act, acc) ==
    /\ RatiosIn(q) = {} => act = acc
    /\ \A i \in RatiosIn(q) :
          (\A j \in RatiosIn(q) : j <= i) => cont[q[i].config] = acc

Filling == IF pc = "ratio" THEN 1 ELSE 0
RatioInv ==
    /\ InStep(requests, configs, Filling)
    /\ Latest(requests, content, active, accepted)
    /\ pc = "ratio" => HasRoom(requests)

LEMMA RatioConsequences == RatioInv => ConfigsInStep /\ LastRatioWins
<1> SUFFICES ASSUME RatioInv PROVE ConfigsInStep /\ LastRatioWins
  OBVIOUS
<1>1. ConfigsInStep
  BY SequenceForms DEF RatioInv, InStep, Filling, ConfigsInStep
<1>2. LastRatioWins
  BY SequenceForms DEF RatioInv, Latest, LastRatioWins
<1> QED
  BY <1>1, <1>2

LEMMA RatioInit == Init => RatioInv
<1> SUFFICES ASSUME Init PROVE RatioInv
  OBVIOUS
<1>1. /\ requests = <<>> /\ pc = "idle" /\ active = 100 /\ accepted = 100
      /\ configs.in = 0 /\ configs.out = 0 /\ configs.free = RequestSize
  BY DEF Init
<1>2. RatiosIn(requests) = {}
  BY <1>1 DEF RatiosIn
<1>3. Cardinality(RatiosIn(requests)) = 0
  BY <1>2, FS_EmptySet
<1>4. (0 + (RequestSize - RequestSize)) % RequestSize = 0
  BY Sizes
<1> QED
  BY <1>1, <1>2, <1>3, <1>4, Sizes DEF RatioInv, InStep, Latest, Filling

(* What the types say of the two queues.                                     *)
LEMMA RatioState ==
  ASSUME TypeOK
  PROVE  /\ requests \in Seq(Request) /\ Len(requests) \in Nat
         /\ configs.in \in Places /\ configs.out \in Places
         /\ configs.free \in Nat /\ configs.free <= RequestSize
         /\ RequestSize - configs.free \in Nat /\ RequestSize - configs.free <= RequestSize
         /\ DOMAIN configs = {"in", "out", "free"}
         /\ content \in [Places -> Ratios]
         /\ \A i \in RatiosIn(requests) : requests[i].config \in Places
<1>1. TypeOK => RatioType
  BY TypeParts
<1>2. \A i \in RatiosIn(requests) : requests[i] \in Request
  BY <1>1 DEF RatioType, RatiosIn
<1>3. configs \in [in : Places, out : Places, free : 0 .. RequestSize]
  BY <1>1 DEF RatioType
<1> QED
  BY <1>1, <1>2, <1>3, Sizes DEF RatioType, Request

(* wps_set_active_ratio fills the slot after those in use: no other request    *)
(* points to it.                                                             *)
LEMMA FillKeeps ==
  ASSUME TypeOK, RatioInv, FillConfig
  PROVE  RatioInv'
<1> DEFINE used == RequestSize - configs.free
<1>1. /\ configs.free > 0 /\ HasRoom(requests) /\ pc = "idle" /\ pc' = "ratio"
      /\ configs' = Enqueued(configs)
      /\ UNCHANGED <<requests, active, accepted>>
  BY DEF FillConfig
<1>2. PICK r \in Ratios : content' = [content EXCEPT ![configs.in] = r]
  BY DEF FillConfig
<1>3. /\ used \in Nat /\ used < RequestSize
      /\ Cardinality(RatiosIn(requests)) = used
  BY <1>1, RatioState, Ranks, Sizes DEF RatioInv, InStep, Filling
<1>4. /\ configs'.in = (configs.in + 1) % RequestSize
      /\ configs'.out = configs.out /\ configs'.free = configs.free - 1
  BY <1>1, RatioState DEF Enqueued
<1>5. InStep(requests, configs', 1)
  <2>1. configs.in = (configs.out + used) % RequestSize
    BY DEF RatioInv, InStep
  <2>2. configs'.in = (configs.out + (used + 1)) % RequestSize
    <3>1. configs.out \in Places
      BY RatioState
    <3>2. used \in Nat /\ used <= RequestSize
      BY <1>3, Sizes
    <3> HIDE DEF used
    <3>3. (((configs.out + used) % RequestSize) + 1) % RequestSize
            = (configs.out + (used + 1)) % RequestSize
      BY <1>3, <3>1, <3>2, Ring, Zenon
    <3> QED
      BY <1>4, <2>1, <3>3
  <2>3. used + 1 = RequestSize - configs'.free
    BY <1>4, RatioState, Sizes
  <2> QED
    BY <1>3, <1>4, <2>2, <2>3 DEF RatioInv, InStep
<1>6. Latest(requests, content', active, accepted)
  <2>1. \A i \in RatiosIn(requests) : requests[i].config # configs.in
    <3> TAKE i \in RatiosIn(requests)
    <3>1. /\ requests[i].config = (configs.out + Cardinality(Before(requests, i))) % RequestSize
          /\ configs.in = (configs.out + used) % RequestSize
      BY DEF RatioInv, InStep
    <3>2. Cardinality(Before(requests, i)) \in Nat /\ Cardinality(Before(requests, i)) < used
      BY <1>3, RatioState, Ranks
    <3>3. configs.out \in Places
      BY RatioState
    <3>4. used \in Nat /\ used < RequestSize /\ used <= RequestSize
      BY <1>3, Sizes
    <3> HIDE DEF used
    <3>5. (configs.out + Cardinality(Before(requests, i))) % RequestSize
            # (configs.out + used) % RequestSize
      <4>1. \A k \in Nat : k < used /\ used < RequestSize =>
               (configs.out + k) % RequestSize # (configs.out + used) % RequestSize
        BY <3>3, <3>4, Ring, Zenon
      <4> QED
        BY <3>2, <3>4, <4>1, Zenon
    <3> QED
      BY <3>1, <3>5
  <2>2. \A i \in RatiosIn(requests) : content'[requests[i].config] = content[requests[i].config]
    BY <1>2, <2>1, RatioState
  <2> QED
    BY <2>2 DEF RatioInv, Latest
<1> QED
  BY <1>1, <1>5, <1>6 DEF RatioInv, Filling, HasRoom

(* The request that points to the filled slot is the last one.               *)
LEMMA RequestKeeps ==
  ASSUME TypeOK, RatioInv, RequestRatio
  PROVE  RatioInv'
<1> DEFINE used == RequestSize - configs.free
           r == [type |-> "ratio", config |-> Filled]
           n == Len(requests) + 1
<1>1. /\ pc = "ratio" /\ pc' = "idle" /\ accepted' = content[Filled]
      /\ requests' = WithRequest(requests, "ratio", Filled)
      /\ UNCHANGED <<configs, content, active>>
  BY DEF RequestRatio
<1>2. requests' = Append(requests, r)
  BY <1>1 DEF RatioInv, HasRoom, WithRequest
<1>3. r \in Request
  <2>1. Filled \in Places
    BY PlaceFacts, RatioState DEF Filled
  <2> QED
    BY <2>1 DEF Request
<1>4. /\ RatiosIn(requests') = RatiosIn(requests) \cup {n}
      /\ Cardinality(RatiosIn(requests')) = Cardinality(RatiosIn(requests)) + 1
      /\ \A i \in RatiosIn(requests) : /\ requests'[i] = requests[i] /\ i < n
                                       /\ Before(requests', i) = Before(requests, i)
      /\ Before(requests', n) = RatiosIn(requests)
  <2>1. requests \in Seq(Request)
    BY RatioState
  <2>2. r.type = "ratio"
    OBVIOUS
  <2>3. /\ RatiosIn(requests') = IF r.type = "ratio" THEN RatiosIn(requests) \cup {n}
                                                     ELSE RatiosIn(requests)
        /\ Cardinality(RatiosIn(requests')) = Cardinality(RatiosIn(requests))
                                                 + (IF r.type = "ratio" THEN 1 ELSE 0)
        /\ \A i \in RatiosIn(requests) : /\ requests'[i] = requests[i] /\ i < n
                                         /\ Before(requests', i) = Before(requests, i)
        /\ Before(requests', n) = RatiosIn(requests)
    <3> HIDE DEF r
    <3> QED
      BY <1>2, <1>3, <2>1, RanksAppended, ZenonT(30)
  <2> HIDE DEF n
  <2> QED
    BY <2>2, <2>3
<1>5. requests'[n] = r
  BY <1>2, <1>3, RatioState
<1>6. /\ Cardinality(RatiosIn(requests)) \in Nat
      /\ Cardinality(RatiosIn(requests)) + 1 = used /\ used \in Nat /\ used <= RequestSize
  BY <1>1, RatioState, Ranks, Sizes DEF RatioInv, InStep, Filling
<1>7. Filled = (configs.out + Cardinality(RatiosIn(requests))) % RequestSize
  <2>1. configs.in = (configs.out + used) % RequestSize /\ configs.out \in Places
    BY RatioState DEF RatioInv, InStep
  <2>2. Filled = (configs.out + (used - 1)) % RequestSize
    BY <1>6, <2>1, Ring DEF Filled
  <2> QED
    BY <1>6, <2>2
<1>8. InStep(requests', configs, 0)
  <2>1. Cardinality(RatiosIn(requests')) + 0 = RequestSize - configs.free
    BY <1>4, <1>6
  <2>2. \A i \in RatiosIn(requests') :
           requests'[i].config = (configs.out + Cardinality(Before(requests', i))) % RequestSize
    BY <1>4, <1>5, <1>7 DEF RatioInv, InStep
  <2> QED
    BY <2>1, <2>2 DEF RatioInv, InStep
<1>9. Latest(requests', content, active, accepted')
  <2>1. \A i \in RatiosIn(requests') : (\A j \in RatiosIn(requests') : j <= i) => i = n
    <3>1. n \in Nat /\ \A i \in RatiosIn(requests) : i \in Nat
      BY RatioState DEF RatiosIn
    <3> QED
      BY <1>4, <3>1
  <2>2. RatiosIn(requests') # {}
    BY <1>4
  <2> QED
    BY <1>1, <1>5, <2>1, <2>2 DEF Latest
<1> QED
  BY <1>1, <1>8, <1>9 DEF RatioInv, Filling

(* A request for a disconnection does not count.                             *)
LEMMA AskKeeps ==
  ASSUME TypeOK, RatioInv, AskDisconnect
  PROVE  RatioInv'
<1> DEFINE r == [type |-> "disconnect", config |-> 0]
<1>1. /\ pc = "ask" /\ pc' # "ratio"
      /\ requests' = WithRequest(requests, "disconnect", 0)
      /\ UNCHANGED <<configs, content, active, accepted>>
  BY DEF AskDisconnect, ratioVars
<1>2. CASE requests' = requests
  BY <1>1, <1>2 DEF RatioInv, Filling
<1>3. CASE requests' = Append(requests, r)
  <2>1. r \in Request /\ requests \in Seq(Request)
    BY PlaceFacts, RatioState DEF Request
  <2>2. /\ RatiosIn(requests') = RatiosIn(requests)
        /\ \A i \in RatiosIn(requests) : /\ requests'[i] = requests[i]
                                         /\ Before(requests', i) = Before(requests, i)
    BY <1>3, <2>1, RanksAppended, ZenonT(30)
  <2>3. InStep(requests', configs, 0)
    BY <1>1, <2>2 DEF RatioInv, InStep, Filling
  <2>4. Latest(requests', content, active, accepted)
    BY <2>2 DEF RatioInv, Latest
  <2> QED
    BY <1>1, <2>3, <2>4 DEF RatioInv, Filling
<1> QED
  BY <1>1, <1>2, <1>3 DEF WithRequest

(* process_schedule_request: the first request is served and its slot, the     *)
(* oldest, is free again; process_disconnect_request leaves the slots alone.  *)
LEMMA ServeKeeps ==
  ASSUME TypeOK, RatioInv, ConfigComplete
  PROVE  RatioInv'
<1>1. CASE requests = <<>>
  <2>1. UNCHANGED <<requests, configs, pc, content, active, accepted>>
    BY <1>1 DEF ConfigComplete
  <2> QED
    BY <2>1 DEF RatioInv, Filling, HasRoom
<1>2. CASE requests # <<>>
  <2> DEFINE used == RequestSize - configs.free
             ranked == IF Head(requests).type = "ratio" THEN 1 ELSE 0
  <2>1. /\ ServeRatio \/ ServeDisconnect
        /\ requests' = Tail(requests)
        /\ UNCHANGED <<pc, content, accepted>>
    BY <1>2 DEF ConfigComplete, AfterServing
  <2>2. /\ requests \in Seq(Request) /\ requests # <<>> /\ requests' \in Seq(Request)
        /\ Len(requests') = Len(requests) - 1 /\ Len(requests) \in Nat
    BY <1>2, <2>1, RatioState
  <2>3. /\ \A i : i \in RatiosIn(requests') <=> i \in 1 .. (Len(requests) - 1)
                                                /\ i + 1 \in RatiosIn(requests)
        /\ 1 \in RatiosIn(requests) <=> Head(requests).type = "ratio"
        /\ Cardinality(RatiosIn(requests)) = Cardinality(RatiosIn(requests')) + ranked
        /\ \A i \in RatiosIn(requests') :
              /\ requests'[i] = requests[i + 1]
              /\ Cardinality(Before(requests, i + 1))
                    = Cardinality(Before(requests', i)) + ranked
        /\ Head(requests).type = "ratio" => Head(requests) = requests[1]
                                            /\ Before(requests, 1) = {}
    <3>1. requests \in Seq(Request) /\ requests # <<>> /\ requests' = Tail(requests)
      BY <2>1, <2>2
    <3>2. \A i : i \in RatiosIn(requests') <=> i \in 1 .. (Len(requests) - 1)
                                                /\ i + 1 \in RatiosIn(requests)
      BY <3>1, RanksTail, Zenon
    <3>3. 1 \in RatiosIn(requests) <=> Head(requests).type = "ratio"
      BY <3>1, RanksTail, Zenon
    <3>4. Cardinality(RatiosIn(requests)) = Cardinality(RatiosIn(requests')) + ranked
      BY <3>1, RanksTail, Zenon
    <3>5. \A i \in RatiosIn(requests') :
              /\ requests'[i] = requests[i + 1]
              /\ Cardinality(Before(requests, i + 1))
                    = Cardinality(Before(requests', i)) + ranked
      <4> TAKE i \in RatiosIn(requests')
      <4>1. requests'[i] = requests[i + 1]
        BY <3>1, <3>2
      <4>2. Cardinality(Before(requests, i + 1))
              = Cardinality(Before(requests', i)) + ranked
        <5>1. \A k \in RatiosIn(Tail(requests)) :
                 Cardinality(Before(requests, k + 1))
                   = Cardinality(Before(Tail(requests), k)) + ranked
          BY <3>1, BeforeTail, Zenon
        <5> QED
          BY <3>1, <5>1, Zenon
      <4> QED
        BY <4>1, <4>2
    <3>6. Head(requests).type = "ratio" => Head(requests) = requests[1]
                                            /\ Before(requests, 1) = {}
      BY <3>1, RanksTail, Zenon
    <3> QED
      BY <3>2, <3>3, <3>4, <3>5, <3>6
  <2>4. /\ Cardinality(RatiosIn(requests')) \in Nat
        /\ \A i \in RatiosIn(requests') : Cardinality(Before(requests', i)) \in Nat
    BY <2>2, Ranks
  <2>5. Cardinality(RatiosIn(requests)) + Filling = used /\ used \in Nat /\ used <= RequestSize
    BY RatioState DEF RatioInv, InStep
  <2>6. pc' = "ratio" => HasRoom(requests')
    BY <2>1, <2>2, Sizes DEF RatioInv, HasRoom
  <2>7. \A i \in RatiosIn(requests') :
           (\A j \in RatiosIn(requests') : j <= i)
              => \A j \in RatiosIn(requests) : j <= i + 1
    <3>1. \A j \in RatiosIn(requests) : j \in 1 .. Len(requests)
      BY <2>2 DEF RatiosIn
    <3>2. \A j \in RatiosIn(requests) : j = 1 \/ j - 1 \in RatiosIn(requests')
      BY <2>2, <2>3, <3>1, SMTT(30)
    <3>3. \A i \in RatiosIn(requests') : i \in Nat /\ i >= 1
      BY <2>2, <2>3
    <3> QED
      BY <3>1, <3>2, <3>3
  <2>8. \A i \in RatiosIn(requests') :
           (\A j \in RatiosIn(requests') : j <= i) => content[requests'[i].config] = accepted
    BY <2>3, <2>7 DEF RatioInv, Latest
  <2>9. CASE ServeRatio
    <3>1. /\ Head(requests).type = "ratio" /\ ranked = 1
          /\ active' = content[Head(requests).config]
          /\ configs' = Dequeued(configs)
      BY <2>9 DEF ServeRatio
    <3>2. used >= 1 /\ configs.free # RequestSize
      BY <2>3, <2>4, <2>5, <3>1, Sizes DEF Filling
    <3>3. /\ configs'.in = configs.in /\ configs'.out = (configs.out + 1) % RequestSize
          /\ configs'.free = configs.free + 1
      BY <3>1, <3>2, RatioState DEF Dequeued
    <3>4. RequestSize - configs'.free = used - 1
      BY <3>3, RatioState, Sizes
    <3>5. configs.out \in Places
      BY RatioState
    <3>6. configs'.in = (configs'.out + (RequestSize - configs'.free)) % RequestSize
      BY <2>5, <3>2, <3>3, <3>4, <3>5, Ring DEF RatioInv, InStep
    <3>7. ASSUME NEW i \in RatiosIn(requests')
          PROVE  requests'[i].config
                   = (configs'.out + Cardinality(Before(requests', i))) % RequestSize
      <4> DEFINE u == Cardinality(Before(requests, i + 1))
      <4>1. i + 1 \in RatiosIn(requests)
        BY <2>3
      <4>2. requests'[i].config = (configs.out + u) % RequestSize
        BY <2>3, <4>1 DEF RatioInv, InStep
      <4>3. Cardinality(Before(requests', i)) \in Nat /\ u = Cardinality(Before(requests', i)) + 1
        BY <2>3, <2>4, <3>1
      <4>4. u \in Nat /\ u >= 1 /\ u - 1 = Cardinality(Before(requests', i))
        BY <4>3
      <4>5. u <= RequestSize
        <5>1. u < Cardinality(RatiosIn(requests)) /\ Cardinality(RatiosIn(requests)) \in Nat
          BY <2>2, <4>1, Ranks
        <5> QED
          BY <2>5, <4>4, <5>1, Sizes DEF Filling
      <4>6. (configs.out + u) % RequestSize
              = (((configs.out + 1) % RequestSize) + (u - 1)) % RequestSize
        BY <3>5, <4>4, <4>5, Ring
      <4> QED
        BY <3>3, <4>2, <4>4, <4>6
    <3>8. Cardinality(RatiosIn(requests')) + Filling = RequestSize - configs'.free
      BY <2>3, <2>4, <2>5, <3>1, <3>4 DEF Filling
    <3>9. InStep(requests', configs', Filling)
      BY <3>6, <3>7, <3>8 DEF InStep
    <3>10. RatiosIn(requests') = {} => active' = accepted
      <4>1. \A j \in RatiosIn(requests) : j \in 1 .. Len(requests)
        BY <2>2 DEF RatiosIn
      <4>2. \A j \in RatiosIn(requests) : j = 1 \/ j - 1 \in RatiosIn(requests')
        BY <2>2, <2>3, <4>1, SMTT(30)
      <4>3. RatiosIn(requests') = {} => \A j \in RatiosIn(requests) : j <= 1
        BY <4>2
      <4> QED
        BY <2>3, <3>1, <4>3 DEF RatioInv, Latest
    <3>11. Latest(requests', content, active', accepted)
      BY <2>8, <3>10 DEF Latest
    <3> QED
      BY <2>1, <2>6, <3>9, <3>11 DEF RatioInv, Filling
  <2>10. CASE ServeDisconnect
    <3>1. ranked = 0 /\ Head(requests).type = "disconnect" /\ UNCHANGED <<configs, active>>
      BY <2>10 DEF ServeDisconnect
    <3>2. InStep(requests', configs, Filling)
      <4>1. Cardinality(RatiosIn(requests')) + Filling = RequestSize - configs.free
        BY <2>3, <2>4, <2>5, <3>1 DEF Filling
      <4>2. \A i \in RatiosIn(requests') :
               Cardinality(Before(requests, i + 1)) = Cardinality(Before(requests', i))
        BY <2>3, <2>4, <3>1
      <4> QED
        BY <2>3, <4>1, <4>2 DEF RatioInv, InStep
    <3>3. RatiosIn(requests') = {} => RatiosIn(requests) = {}
      <4>1. \A j \in RatiosIn(requests) : j \in 1 .. Len(requests) /\ j # 1
        BY <2>2, <2>3, <3>1 DEF RatiosIn
      <4>2. \A j \in RatiosIn(requests) : j - 1 \in RatiosIn(requests')
        BY <2>2, <2>3, <4>1
      <4> QED
        BY <4>2
    <3>4. Latest(requests', content, active, accepted)
      BY <2>8, <3>3 DEF RatioInv, Latest
    <3> QED
      BY <2>1, <2>6, <3>1, <3>2, <3>4 DEF RatioInv, Filling
  <2> QED
    BY <2>1, <2>9, <2>10
<1> QED
  BY <1>1, <1>2

LEMMA RatioNext == TypeOK /\ RatioInv /\ [Next]_vars => RatioInv'
<1> SUFFICES ASSUME TypeOK, RatioInv, [Next]_vars PROVE RatioInv'
  OBVIOUS
<1>1. CASE \/ UNCHANGED vars \/ SlotsBegin \/ FrameOutcome \/ Connect \/ Disconnect
           \/ DirectDisconnect \/ Disconnected \/ DisconnectTimeout
           \/ ReadDone \/ FreeRead \/ Flush
  <2>1. /\ UNCHANGED <<requests, configs, content, active, accepted>>
        /\ pc' = "ratio" <=> pc = "ratio"
    BY <1>1 DEF vars, linkVars, nodeVars, ratioVars, SlotsBegin, FrameOutcome, Connect,
       Disconnect, DirectDisconnect, Disconnected, DisconnectTimeout, ReadDone, FreeRead,
       Flush
  <2> QED
    BY <2>1 DEF RatioInv, Filling, HasRoom
<1> QED
  BY <1>1, FillKeeps, RequestKeeps, AskKeeps, ServeKeeps
  DEF Next, Radio, Application, Call

(* No configuration slot leaks and none is filled again before it was served   *)
(* (wps_set_active_ratio, process_schedule_request), for any sizes.          *)
THEOREM SlotsInStep == Spec => []ConfigsInStep
BY InitTypeOK, StepTypes, RatioInit, RatioNext, RatioConsequences, PTL DEF Spec

(* With every request served, the connection runs at the ratio that was        *)
(* accepted last, across disconnections that left requests in the queue.     *)
THEOREM LastAcceptedActive == Spec => []LastRatioWins
BY InitTypeOK, StepTypes, RatioInit, RatioNext, RatioConsequences, PTL DEF Spec

-----------------------------------------------------------------------------
(* The receive nodes.                                                       *)

(* What makes a connection safe for its nodes: every slot takes a node or       *)
(* resets rx_node; or the frames are read before a reconnection, and there is  *)
(* no fast sync, whose disconnection forgets a node; or fast sync on a device   *)
(* that never synchronises, whose disconnections free nothing.               *)
Renews(s) == \A i \in DOMAIN s.slots : s.slots[i] # "tx"
NeverAsks(s) == s.fastSync /\ ~s.node
NodesMode ==
    \A s \in Setups : Renews(s) \/ (s.drains /\ ~s.fastSync) \/ NeverAsks(s)

(* Pool p, queue q, reader h and armed reception a share no node ...          *)
Apart(p, q, h, a) ==
    /\ \A i, j \in 1 .. Len(p) : p[i] = p[j] => i = j
    /\ \A i, j \in 1 .. Len(q) : q[i] = q[j] => i = j
    /\ \A i \in 1 .. Len(p), j \in 1 .. Len(q) : p[i] # q[j]
    /\ \A i \in 1 .. Len(p) : p[i] # h /\ p[i] # a
    /\ \A j \in 1 .. Len(q) : q[j] # h /\ q[j] # a
    /\ h = a => h = NoNode

(* ... they hold no more than there are, and together all of them if they are  *)
(* to be whole, as without fast sync.                                       *)
One(n) == IF n = NoNode THEN 0 ELSE 1
Total(p, q, h, a) == Len(p) + Len(q) + One(h) + One(a)
Covers(p, q, h, a) ==
    \A n \in Nodes : \/ n = h \/ n = a
                     \/ \E i \in 1 .. Len(p) : p[i] = n
                     \/ \E j \in 1 .. Len(q) : q[j] = n
Clean(whole, p, q, h, a) ==
    /\ Apart(p, q, h, a)
    /\ Total(p, q, h, a) <= NumNodes
    /\ whole => Total(p, q, h, a) = NumNodes /\ Covers(p, q, h, a)

ArmedNode == IF ReceptionArmed THEN rxNode ELSE NoNode
Front(q) == SubSeq(q, 1, Len(q) - 1)

(* A disconnection has freed the node of the last frame still to read: the     *)
(* others are in their places, and the pool will refuse that one.            *)
Doubled ==
    /\ setup.drains /\ ~setup.fastSync
    /\ queue # <<>> => Clean(TRUE, pool, Front(queue), held, NoNode)
    /\ queue = <<>> => held # NoNode /\ Clean(TRUE, pool, queue, NoNode, NoNode)

(* rx_node outside a reception: reset; or that of the last frame to be read.   *)
LastToRead ==
    /\ queue # <<>> => rxNode = queue[Len(queue)]
    /\ queue = <<>> /\ held # NoNode => rxNode = held
StaleNode ==
    radio # "off" /\ ~ReceptionArmed =>
        /\ Renews(setup) /\ radio # "start" => rxNode = NoNode
        /\ setup.drains => rxNode = NoNode \/ LastToRead

(* Only a device with fast sync is stopped without the MAC, and one that        *)
(* cannot synchronise always is.                                             *)
DirectOnly ==
    /\ pc = "direct" => setup.fastSync
    /\ NeverAsks(setup) =>
          /\ synced = FALSE /\ pc \notin {"ask", "wait"}
          /\ \A i \in 1 .. Len(requests) : ~Asks(requests, i)

NodeInv ==
    /\ radio # "off" => Clean(~setup.fastSync, pool, queue, held, ArmedNode)
    /\ radio = "off" => Clean(~setup.fastSync, pool, queue, held, NoNode) \/ Doubled
    /\ StaleNode
    /\ DirectOnly
    /\ signal = "disconnect" => radio = "off"

LEMMA NodeNumbers == \A n \in Nodes : n # NoNode
BY DEF Nodes, NoNode

LEMMA CleanSymmetric ==
  ASSUME NEW w, NEW p, NEW q, NEW h \in Nodes \cup {NoNode}, NEW a \in Nodes \cup {NoNode},
         NodeQueue(p, NumNodes), q \in Seq(Nodes), Clean(w, p, q, h, a)
  PROVE  Clean(w, p, q, a, h)
<1>1. Apart(p, q, a, h)
  BY DEF Clean, Apart
<1>2. Total(p, q, a, h) = Total(p, q, h, a)
  <2>1. Len(p) \in Nat /\ Len(q) \in Nat /\ One(h) \in Nat /\ One(a) \in Nat
    BY DEF NodeQueue, One
  <2> QED
    BY <2>1 DEF Total
<1>3. Covers(p, q, h, a) => Covers(p, q, a, h)
  BY DEF Covers
<1> QED
  BY <1>1, <1>2, <1>3 DEF Clean

(* xlayer_queue_free_node of the armed node: the pool has room for it.        *)
LEMMA CleanFreed ==
  ASSUME NEW w, NEW p, NEW q, NEW h \in Nodes \cup {NoNode}, NEW a \in Nodes \cup {NoNode},
         NodeQueue(p, NumNodes), q \in Seq(Nodes), Clean(w, p, q, h, a)
  PROVE  Clean(w, Freed(p, a), q, h, NoNode)
<1>1. CASE a = NoNode
  BY <1>1 DEF Freed
<1>2. CASE a # NoNode
  <2> DEFINE e == Append(p, a)
  <2>1. /\ p \in Seq(Nodes) /\ Len(p) \in Nat /\ Len(q) \in Nat
        /\ One(h) \in Nat /\ One(a) = 1 /\ One(NoNode) = 0
    BY <1>2 DEF NodeQueue, One
  <2>2. Len(p) < NumNodes
    BY <2>1, Sizes DEF Clean, Total
  <2>3. Freed(p, a) = e
    BY <1>2, <2>1, <2>2, Sizes DEF Freed
  <2>4. /\ Len(e) = Len(p) + 1 /\ e[Len(p) + 1] = a
        /\ \A i \in 1 .. Len(p) : e[i] = p[i]
    BY <2>1, <1>2
  <2> HIDE DEF e
  <2>5. \A i \in 1 .. Len(e) : i = Len(p) + 1 \/ i \in 1 .. Len(p)
    BY <2>1, <2>4
  <2>6. /\ \A j \in 1 .. Len(q) : q[j] \in Nodes /\ q[j] # NoNode
        /\ \A i \in 1 .. Len(p) : p[i] \in Nodes /\ p[i] # NoNode
    BY <2>1, NodeNumbers
  <2>7. Apart(e, q, h, NoNode)
    <3>1. \A i, j \in 1 .. Len(e) : e[i] = e[j] => i = j
      BY <2>1, <2>4, <2>5 DEF Clean, Apart
    <3>2. \A i \in 1 .. Len(e), j \in 1 .. Len(q) : e[i] # q[j]
      BY <2>1, <2>4, <2>5 DEF Clean, Apart
    <3>3. \A i \in 1 .. Len(e) : e[i] # h /\ e[i] # NoNode
      BY <1>2, <2>1, <2>4, <2>5, <2>6 DEF Clean, Apart
    <3> QED
      BY <2>6, <3>1, <3>2, <3>3 DEF Clean, Apart
  <2>8. Total(e, q, h, NoNode) = Total(p, q, h, a)
    BY <2>1, <2>4 DEF Total
  <2>9. Covers(p, q, h, a) => Covers(e, q, h, NoNode)
    <3>1. Len(p) + 1 \in 1 .. Len(e) /\ \A i \in 1 .. Len(p) : i \in 1 .. Len(e)
      BY <2>1, <2>4
    <3> QED
      BY <2>4, <3>1 DEF Covers
  <2> QED
    BY <2>3, <2>7, <2>8, <2>9 DEF Clean
<1> QED
  BY <1>1, <1>2

(* A slot that receives takes the first node of the pool, if there is one.    *)
LEMMA CleanTake ==
  ASSUME NEW w, NEW p, NEW q, NEW h \in Nodes \cup {NoNode}, NEW n,
         NodeQueue(p, NumNodes), q \in Seq(Nodes), Clean(w, p, q, h, NoNode)
  PROVE  Clean(w, Take(p, n)[2], q, h, Take(p, n)[1])
<1>1. CASE p = <<>>
  BY <1>1 DEF Take
<1>2. CASE p # <<>>
  <2> DEFINE a == Head(p)
             t == Tail(p)
  <2>1. Take(p, n)[1] = a /\ Take(p, n)[2] = t
    BY <1>2 DEF Take
  <2>2. /\ p \in Seq(Nodes) /\ Len(p) \in Nat /\ Len(q) \in Nat /\ Len(p) >= 1
        /\ Len(t) = Len(p) - 1 /\ \A i \in 1 .. Len(t) : t[i] = p[i + 1] /\ i + 1 \in 1 .. Len(p)
        /\ a = p[1] /\ 1 \in 1 .. Len(p)
    BY <1>2 DEF NodeQueue
  <2> HIDE DEF a, t
  <2>3. a \in Nodes /\ a # NoNode /\ One(a) = 1 /\ One(NoNode) = 0 /\ One(h) \in Nat
    BY <2>2, NodeNumbers DEF One
  <2>4. Apart(t, q, h, a)
    <3>1. \A i, j \in 1 .. Len(t) : t[i] = t[j] => i = j
      BY <2>2 DEF Clean, Apart
    <3>2. \A i \in 1 .. Len(t), j \in 1 .. Len(q) : t[i] # q[j]
      BY <2>2 DEF Clean, Apart
    <3>3. \A i \in 1 .. Len(t) : t[i] # h /\ t[i] # a
      BY <2>2 DEF Clean, Apart
    <3>4. h # a /\ \A j \in 1 .. Len(q) : q[j] # a
      BY <2>2 DEF Clean, Apart
    <3> QED
      BY <3>1, <3>2, <3>3, <3>4 DEF Clean, Apart
  <2>5. Total(t, q, h, a) = Total(p, q, h, NoNode)
    BY <2>2, <2>3 DEF Total
  <2>6. Covers(p, q, h, NoNode) => Covers(t, q, h, a)
    <3> SUFFICES ASSUME Covers(p, q, h, NoNode), NEW n1 \in Nodes,
                        n1 # h, n1 # a, \A j \in 1 .. Len(q) : q[j] # n1
                 PROVE  \E i \in 1 .. Len(t) : t[i] = n1
      BY DEF Covers
    <3>1. n1 # NoNode
      BY DEF Nodes, NoNode
    <3>2. PICK i \in 1 .. Len(p) : p[i] = n1
      BY <3>1 DEF Covers
    <3>3. i # 1 /\ i - 1 \in 1 .. Len(t)
      BY <2>2, <3>2
    <3>4. t[i - 1] = n1
      BY <2>2, <3>2, <3>3
    <3> QED
      BY <3>3, <3>4
  <2> QED
    BY <2>1, <2>4, <2>5, <2>6 DEF Clean
<1> QED
  BY <1>1, <1>2

(* A frame is stored in the armed node, and its first node is read.           *)
LEMMA CleanStored ==
  ASSUME NEW w, NEW p, NEW q, NEW h \in Nodes \cup {NoNode}, NEW a \in Nodes,
         NodeQueue(p, NumNodes), q \in Seq(Nodes), Clean(w, p, q, h, a)
  PROVE  Clean(w, p, Append(q, a), h, NoNode)
<1> DEFINE e == Append(q, a)
<1>1. /\ p \in Seq(Nodes) /\ Len(p) \in Nat /\ Len(q) \in Nat /\ a # NoNode
      /\ One(h) \in Nat /\ One(a) = 1 /\ One(NoNode) = 0
  BY DEF NodeQueue, One, Nodes, NoNode
<1>2. /\ Len(e) = Len(q) + 1 /\ e[Len(q) + 1] = a
      /\ \A i \in 1 .. Len(q) : e[i] = q[i]
  BY <1>1
<1> HIDE DEF e
<1>3. \A i \in 1 .. Len(e) : i = Len(q) + 1 \/ i \in 1 .. Len(q)
  BY <1>1, <1>2
<1>4. /\ \A j \in 1 .. Len(q) : q[j] \in Nodes /\ q[j] # NoNode
      /\ \A i \in 1 .. Len(p) : p[i] \in Nodes /\ p[i] # NoNode
  BY <1>1, NodeNumbers
<1>5. Apart(p, e, h, NoNode)
  <2>1. \A i, j \in 1 .. Len(e) : e[i] = e[j] => i = j
    BY <1>1, <1>2, <1>3 DEF Clean, Apart
  <2>2. \A i \in 1 .. Len(p), j \in 1 .. Len(e) : p[i] # e[j]
    BY <1>1, <1>2, <1>3 DEF Clean, Apart
  <2>3. \A i \in 1 .. Len(e) : e[i] # h /\ e[i] # NoNode
    BY <1>1, <1>2, <1>3, <1>4 DEF Clean, Apart
  <2> QED
    BY <1>4, <2>1, <2>2, <2>3 DEF Clean, Apart
<1>6. Total(p, e, h, NoNode) = Total(p, q, h, a)
  BY <1>1, <1>2 DEF Total
<1>7. Covers(p, q, h, a) => Covers(p, e, h, NoNode)
  <2>1. Len(q) + 1 \in 1 .. Len(e) /\ \A i \in 1 .. Len(q) : i \in 1 .. Len(e)
    BY <1>1, <1>2
  <2> QED
    BY <1>2, <2>1 DEF Covers
<1> QED
  BY <1>5, <1>6, <1>7 DEF Clean, e

LEMMA CleanRead ==
  ASSUME NEW w, NEW p, NEW q, NEW a \in Nodes \cup {NoNode},
         NodeQueue(p, NumNodes), q \in Seq(Nodes), q # <<>>, Clean(w, p, q, NoNode, a)
  PROVE  Clean(w, p, Tail(q), Head(q), a)
<1> DEFINE h == Head(q)
           t == Tail(q)
<1>1. /\ p \in Seq(Nodes) /\ Len(p) \in Nat /\ Len(q) \in Nat /\ Len(q) >= 1
      /\ Len(t) = Len(q) - 1 /\ \A i \in 1 .. Len(t) : t[i] = q[i + 1] /\ i + 1 \in 1 .. Len(q)
      /\ h = q[1] /\ 1 \in 1 .. Len(q)
  BY DEF NodeQueue
<1> HIDE DEF h, t
<1>2. h \in Nodes /\ h # NoNode /\ One(h) = 1 /\ One(NoNode) = 0 /\ One(a) \in Nat
  BY <1>1, NodeNumbers DEF One
<1>3. Apart(p, t, h, a)
  <2>1. \A i, j \in 1 .. Len(t) : t[i] = t[j] => i = j
    BY <1>1 DEF Clean, Apart
  <2>2. \A i \in 1 .. Len(p), j \in 1 .. Len(t) : p[i] # t[j]
    BY <1>1 DEF Clean, Apart
  <2>3. \A i \in 1 .. Len(t) : t[i] # h /\ t[i] # a
    BY <1>1 DEF Clean, Apart
  <2>4. h # a /\ \A i \in 1 .. Len(p) : p[i] # h
    BY <1>1 DEF Clean, Apart
  <2> QED
    BY <2>1, <2>2, <2>3, <2>4 DEF Clean, Apart
<1>4. Total(p, t, h, a) = Total(p, q, NoNode, a)
  BY <1>1, <1>2 DEF Total
<1>5. Covers(p, q, NoNode, a) => Covers(p, t, h, a)
  <2> SUFFICES ASSUME Covers(p, q, NoNode, a), NEW n \in Nodes,
                      n # h, n # a, \A i \in 1 .. Len(p) : p[i] # n
               PROVE  \E j \in 1 .. Len(t) : t[j] = n
    BY DEF Covers
  <2>1. n # NoNode
    BY DEF Nodes, NoNode
  <2>2. PICK j \in 1 .. Len(q) : q[j] = n
    BY <2>1 DEF Covers
  <2>3. j # 1 /\ j - 1 \in 1 .. Len(t)
    BY <1>1, <2>2
  <2>4. t[j - 1] = n
    BY <1>1, <2>2, <2>3
  <2> QED
    BY <2>3, <2>4
<1> QED
  BY <1>3, <1>4, <1>5 DEF Clean, h, t

(* The nodes of a queue follow those of the pool.                            *)
LEMMA CleanJoined ==
  ASSUME NEW w, NEW p, NEW q, NEW a \in Nodes \cup {NoNode},
         NodeQueue(p, NumNodes), q \in Seq(Nodes), Clean(w, p, q, NoNode, a)
  PROVE  Clean(w, p \o q, <<>>, NoNode, a)
<1> DEFINE e == p \o q
<1>1. /\ p \in Seq(Nodes) /\ Len(p) \in Nat /\ Len(q) \in Nat
      /\ One(a) \in Nat /\ One(NoNode) = 0 /\ Len(<<>>) = 0 /\ 1 .. 0 = {}
  BY DEF NodeQueue, One
<1>2. /\ Len(e) = Len(p) + Len(q)
      /\ \A i \in 1 .. Len(p) : e[i] = p[i]
      /\ \A i \in 1 .. Len(e) : i \notin 1 .. Len(p) => /\ i - Len(p) \in 1 .. Len(q)
                                                        /\ e[i] = q[i - Len(p)]
      /\ \A i \in 1 .. Len(p) : i \in 1 .. Len(e)
      /\ \A j \in 1 .. Len(q) : /\ Len(p) + j \in 1 .. Len(e)
                                /\ e[Len(p) + j] = q[j]
  BY <1>1, ConcatProperties
<1> HIDE DEF e
<1>3. Apart(e, <<>>, NoNode, a)
  <2>1. ASSUME NEW i \in 1 .. Len(e), NEW j \in 1 .. Len(e), e[i] = e[j]
        PROVE  i = j
    <3>1. CASE i \in 1 .. Len(p) /\ j \in 1 .. Len(p)
      <4>1. p[i] = p[j]
        BY <1>2, <2>1, <3>1
      <4> QED
        BY <3>1, <4>1 DEF Clean, Apart
    <3>2. CASE i \notin 1 .. Len(p) /\ j \notin 1 .. Len(p)
      <4>1. /\ i - Len(p) \in 1 .. Len(q) /\ j - Len(p) \in 1 .. Len(q)
            /\ q[i - Len(p)] = q[j - Len(p)]
        BY <1>2, <2>1, <3>2
      <4>2. i - Len(p) = j - Len(p)
        BY <4>1, Zenon DEF Clean, Apart
      <4> QED
        BY <1>1, <4>2
    <3>3. CASE i \in 1 .. Len(p) /\ j \notin 1 .. Len(p)
      <4>1. j - Len(p) \in 1 .. Len(q) /\ p[i] = q[j - Len(p)]
        BY <1>2, <2>1, <3>3
      <4> QED
        BY <3>3, <4>1, Zenon DEF Clean, Apart
    <3>4. CASE i \notin 1 .. Len(p) /\ j \in 1 .. Len(p)
      <4>1. i - Len(p) \in 1 .. Len(q) /\ p[j] = q[i - Len(p)]
        BY <1>2, <2>1, <3>4
      <4> QED
        BY <3>4, <4>1, Zenon DEF Clean, Apart
    <3> QED
      BY <3>1, <3>2, <3>3, <3>4
  <2>2. ASSUME NEW i \in 1 .. Len(e) PROVE e[i] # NoNode /\ e[i] # a
    <3>1. CASE i \in 1 .. Len(p)
      BY <1>2, <3>1 DEF Clean, Apart
    <3>2. CASE i \notin 1 .. Len(p)
      BY <1>2, <3>2 DEF Clean, Apart
    <3> QED
      BY <3>1, <3>2
  <2>3. \A j \in 1 .. Len(<<>>) : FALSE
    BY <1>1
  <2> QED
    BY <2>1, <2>2, <2>3 DEF Apart
<1>4. Total(e, <<>>, NoNode, a) = Total(p, q, NoNode, a)
  BY <1>1, <1>2 DEF Total
<1>5. Covers(p, q, NoNode, a) => Covers(e, <<>>, NoNode, a)
  <2> SUFFICES ASSUME Covers(p, q, NoNode, a), NEW n \in Nodes
               PROVE  n = NoNode \/ n = a \/ \E i \in 1 .. Len(e) : e[i] = n
    BY DEF Covers
  <2>1. CASE n = NoNode \/ n = a
    BY <2>1
  <2>2. ASSUME NEW i \in 1 .. Len(p), p[i] = n
        PROVE  \E k \in 1 .. Len(e) : e[k] = n
    BY <1>2, <2>2, Zenon
  <2>3. ASSUME NEW j \in 1 .. Len(q), q[j] = n
        PROVE  \E k \in 1 .. Len(e) : e[k] = n
    BY <1>2, <2>3, Zenon
  <2> QED
    BY <2>1, <2>2, <2>3, Zenon DEF Covers
<1> QED
  BY <1>3, <1>4, <1>5 DEF Clean, e

(* swc_connection_flush_queue: every node fits in the pool; of a queue whose   *)
(* last node is there already all but that one.                              *)
LEMMA FreedAllFits ==
  ASSUME NEW p, NEW q, NodeQueue(p, NumNodes), q \in Seq(Nodes)
  PROVE  /\ Len(p) + Len(q) <= NumNodes => FreedAll(p, q) = p \o q
         /\ q # <<>> /\ Len(p) + Len(q) = NumNodes + 1 => FreedAll(p, q) = p \o Front(q)
<1>1. Len(p) \in Nat /\ Len(q) \in Nat /\ SubSeq(q, 1, Len(q)) = q
  BY SubSeqFull DEF NodeQueue
<1>2. ASSUME Len(p) + Len(q) <= NumNodes PROVE FreedAll(p, q) = p \o q
  BY <1>1, <1>2, Sizes DEF FreedAll
<1>3. ASSUME q # <<>>, Len(p) + Len(q) = NumNodes + 1
      PROVE  FreedAll(p, q) = p \o Front(q)
  <2>1. NumNodes - Len(p) = Len(q) - 1 /\ ~(Len(q) <= NumNodes - Len(p))
    BY <1>1, <1>3, Sizes
  <2> QED
    BY <2>1 DEF FreedAll, Front
<1> QED
  BY <1>2, <1>3

(* All but the last node of a queue.                                         *)
LEMMA FrontFacts ==
  ASSUME NEW q \in Seq(Nodes), q # <<>>
  PROVE  /\ Front(q) \in Seq(Nodes) /\ Len(Front(q)) = Len(q) - 1
         /\ \A i \in 1 .. (Len(q) - 1) : Front(q)[i] = q[i]
         /\ Front(q) = <<>> <=> Tail(q) = <<>>
         /\ Tail(q) # <<>> => /\ Head(Front(q)) = Head(q)
                              /\ Front(Tail(q)) = Tail(Front(q))
                              /\ Tail(q)[Len(Tail(q))] = q[Len(q)]
         /\ Tail(q) = <<>> => Head(q) = q[Len(q)]
<1>1. /\ Len(q) \in Nat /\ Len(q) >= 1 /\ Head(q) = q[1]
      /\ Tail(q) \in Seq(Nodes) /\ Len(Tail(q)) = Len(q) - 1
      /\ \A i \in 1 .. (Len(q) - 1) : Tail(q)[i] = q[i + 1]
      /\ \A i \in 1 .. Len(q) : q[i] \in Nodes
  OBVIOUS
<1>2. /\ Front(q) \in Seq(Nodes) /\ Len(Front(q)) = Len(q) - 1
      /\ \A i \in 1 .. (Len(q) - 1) : Front(q)[i] = q[i]
  BY <1>1 DEF Front
<1>3. Front(q) = <<>> <=> Tail(q) = <<>>
  <2>1. \A s \in Seq(Nodes) : s = <<>> <=> Len(s) = 0
    BY EmptySeq
  <2> QED
    BY <1>1, <1>2, <2>1
<1>4. ASSUME Tail(q) # <<>>
      PROVE  /\ Head(Front(q)) = Head(q)
             /\ Front(Tail(q)) = Tail(Front(q))
             /\ Tail(q)[Len(Tail(q))] = q[Len(q)]
  <2>1. Len(q) >= 2
    BY <1>1, <1>4
  <2>2. Head(Front(q)) = Head(q)
    <3>1. Head(Front(q)) = Front(q)[1] /\ 1 \in 1 .. (Len(q) - 1)
      BY <1>1, <1>2, <2>1
    <3> QED
      BY <1>1, <1>2, <3>1
  <2>3. /\ Front(Tail(q)) \in Seq(Nodes) /\ Len(Front(Tail(q))) = Len(q) - 2
        /\ \A i \in 1 .. (Len(q) - 2) : Front(Tail(q))[i] = q[i + 1]
    <3>1. \A i \in 1 .. (Len(q) - 2) : i \in 1 .. (Len(q) - 1) /\ Tail(q)[i] \in Nodes
      BY <1>1, <2>1
    <3>2. /\ SubSeq(Tail(q), 1, Len(q) - 2) \in Seq(Nodes)
          /\ Len(SubSeq(Tail(q), 1, Len(q) - 2)) = Len(q) - 2
          /\ \A i \in 1 .. (Len(q) - 2) : SubSeq(Tail(q), 1, Len(q) - 2)[i] = Tail(q)[i]
      BY <1>1, <2>1, <3>1
    <3>3. Front(Tail(q)) = SubSeq(Tail(q), 1, Len(q) - 2)
      BY <1>1 DEF Front
    <3> QED
      BY <1>1, <3>1, <3>2, <3>3
  <2>4. /\ Tail(Front(q)) \in Seq(Nodes) /\ Len(Tail(Front(q))) = Len(q) - 2
        /\ \A i \in 1 .. (Len(q) - 2) : Tail(Front(q))[i] = q[i + 1]
    <3>1. Front(q) # <<>>
      BY <1>3, <1>4
    <3>2. /\ Tail(Front(q)) \in Seq(Nodes) /\ Len(Tail(Front(q))) = Len(Front(q)) - 1
          /\ \A i \in 1 .. Len(Tail(Front(q))) : Tail(Front(q))[i] = Front(q)[i + 1]
      <4> DEFINE f == Front(q)
      <4>1. f \in Seq(Nodes) /\ f # <<>>
        BY <1>2, <3>1
      <4> HIDE DEF f
      <4>2. /\ Tail(f) \in Seq(Nodes) /\ Len(Tail(f)) = Len(f) - 1
            /\ \A i \in 1 .. Len(Tail(f)) : Tail(f)[i] = f[i + 1]
        BY <4>1
      <4> QED
        BY <4>2 DEF f
    <3>3. \A i \in 1 .. (Len(q) - 2) : i + 1 \in 1 .. (Len(q) - 1)
      BY <1>1
    <3>4. Len(Tail(Front(q))) = Len(q) - 2
      <4>1. Len(Front(q)) = Len(q) - 1 /\ Len(Tail(Front(q))) = Len(Front(q)) - 1
        BY <1>2, <3>2, Zenon
      <4>2. Len(q) - 1 - 1 = Len(q) - 2
        BY <1>1
      <4> QED
        BY <4>1, <4>2, Zenon
    <3>5. ASSUME NEW i \in 1 .. (Len(q) - 2) PROVE Tail(Front(q))[i] = q[i + 1]
      <4>1. Tail(Front(q))[i] = Front(q)[i + 1]
        BY <3>2, <3>4, Zenon
      <4>2. Front(q)[i + 1] = q[i + 1]
        BY <1>2, <3>3, Zenon
      <4> QED
        BY <4>1, <4>2, Zenon
    <3> QED
      BY <3>2, <3>4, <3>5, Zenon
  <2>5. Front(Tail(q)) = Tail(Front(q))
    BY <2>3, <2>4, SeqEqual
  <2> QED
    BY <1>1, <2>1, <2>2, <2>5
<1>5. ASSUME Tail(q) = <<>> PROVE Head(q) = q[Len(q)]
  BY <1>1, <1>5, SMTT(30)
<1> QED
  BY <1>2, <1>3, <1>4, <1>5

(* The next slot is prepared.                                               *)
LEMMA Prepared ==
  ASSUME TypeOK, setup' = setup, NEW p, NodeQueue(p, NumNodes),
         NEW q \in Seq(Nodes), NEW h \in Nodes \cup {NoNode}, NEW w,
         NEW n \in Nodes \cup {NoNode}, NEW sync \in BOOLEAN,
         Clean(w, p, q, h, NoNode), PrepareSlot(p, n, sync)
  PROVE  /\ radio' \in {"listen", "config"}
         /\ Clean(w, pool', q, h, ArmedNode')
         /\ ~ReceptionArmed' => \/ rxNode' = NoNode
                                \/ ~Renews(setup) /\ rxNode' = n
<1>1. /\ radio' \in {"listen", "config"} /\ slot' = NextSlot
      /\ rxNode' = Armed(Kind(NextSlot), p, n)[1]
      /\ pool' = Armed(Kind(NextSlot), p, n)[2]
  BY DEF PrepareSlot
<1>2. NextSlot \in DOMAIN setup.slots /\ Kind(NextSlot) \in SlotKinds
  BY SlotTypes, RequestsAssumption DEF TypeOK, IsSetup, Kind
<1>3. ReceptionArmed' <=> Listens(Kind(NextSlot))
  BY <1>1 DEF ReceptionArmed, Kind
<1>4. CASE Listens(Kind(NextSlot))
  <2>1. Armed(Kind(NextSlot), p, n) = Take(p, n)
    <3>1. Kind(NextSlot) # "txAck"
      BY <1>4 DEF Listens
    <3> QED
      BY <1>4, <3>1 DEF Armed
  <2>2. rxNode' = Take(p, n)[1] /\ pool' = Take(p, n)[2]
    BY <1>1, <2>1, Zenon
  <2> QED
    BY <1>1, <1>3, <1>4, <2>2, CleanTake DEF ArmedNode
<1>5. CASE ~Listens(Kind(NextSlot))
  <2>1. pool' = p /\ ArmedNode' = NoNode
    BY <1>1, <1>3, <1>5 DEF Armed, ArmedNode
  <2>2. rxNode' = NoNode \/ (Kind(NextSlot) # "txAck" /\ rxNode' = n)
    BY <1>1, <1>5 DEF Armed
  <2>3. Kind(NextSlot) # "txAck" => Kind(NextSlot) = "tx"
    BY <1>2, <1>5 DEF SlotKinds, Listens
  <2>4. Kind(NextSlot) = "tx" => ~Renews(setup)
    BY <1>2 DEF Renews, Kind
  <2> QED
    BY <1>1, <2>1, <2>2, <2>3, <2>4
<1> QED
  BY <1>4, <1>5

(* The last node of a queue, put apart.                                      *)
LEMMA CleanLast ==
  ASSUME NEW w, NEW p, NEW q \in Seq(Nodes), q # <<>>, NEW h \in Nodes \cup {NoNode},
         NodeQueue(p, NumNodes), Clean(w, p, q, h, NoNode)
  PROVE  Clean(w, p, Front(q), h, q[Len(q)])
<1> DEFINE f == Front(q)
           a == q[Len(q)]
<1>1. /\ p \in Seq(Nodes) /\ Len(p) \in Nat /\ Len(q) \in Nat /\ Len(q) >= 1
      /\ Len(q) \in 1 .. Len(q) /\ a \in Nodes
  BY DEF NodeQueue
<1>2. /\ Len(f) = Len(q) - 1
      /\ \A i \in 1 .. Len(f) : f[i] = q[i] /\ i \in 1 .. Len(q) /\ i # Len(q)
  <2>1. \A i \in 1 .. (Len(q) - 1) : i \in 1 .. Len(q) /\ i # Len(q)
    BY <1>1
  <2>2. Len(f) = Len(q) - 1 /\ \A i \in 1 .. (Len(q) - 1) : f[i] = q[i]
    BY FrontFacts
  <2> HIDE DEF f
  <2> QED
    BY <2>1, <2>2
<1>3. a # NoNode /\ One(a) = 1 /\ One(NoNode) = 0 /\ One(h) \in Nat
  BY <1>1, NodeNumbers DEF One
<1>4. Apart(p, f, h, a)
  <2> HIDE DEF f
  <2>1. \A i, j \in 1 .. Len(f) : f[i] = f[j] => i = j
    BY <1>2 DEF Clean, Apart
  <2>2. \A i \in 1 .. Len(p), j \in 1 .. Len(f) : p[i] # f[j]
    BY <1>2 DEF Clean, Apart
  <2>3. \A i \in 1 .. Len(f) : f[i] # h /\ f[i] # a
    BY <1>1, <1>2 DEF Clean, Apart
  <2>4. h # a /\ \A i \in 1 .. Len(p) : p[i] # a
    BY <1>1 DEF Clean, Apart
  <2> QED
    BY <2>1, <2>2, <2>3, <2>4 DEF Clean, Apart
<1>5. Total(p, f, h, a) = Total(p, q, h, NoNode)
  <2> HIDE DEF f, a
  <2> QED
    BY <1>1, <1>2, <1>3 DEF Total
<1>6. Covers(p, q, h, NoNode) => Covers(p, f, h, a)
  <2> SUFFICES ASSUME Covers(p, q, h, NoNode), NEW n \in Nodes,
                      n # h, n # a, \A i \in 1 .. Len(p) : p[i] # n
               PROVE  \E j \in 1 .. Len(f) : f[j] = n
    BY DEF Covers
  <2>1. PICK j \in 1 .. Len(q) : q[j] = n
    BY NodeNumbers DEF Covers
  <2>2. j \in 1 .. (Len(q) - 1)
    BY <1>1, <2>1
  <2> HIDE DEF f
  <2> QED
    BY <1>2, <2>1, <2>2
<1> QED
  BY <1>4, <1>5, <1>6 DEF Clean

(* What the types say of the nodes.                                         *)
LEMMA NodeState ==
  ASSUME TypeOK
  PROVE  /\ NodeQueue(pool, NumNodes) /\ queue \in Seq(Nodes)
         /\ pool \in Seq(Nodes) /\ Len(pool) \in Nat /\ Len(queue) \in Nat
         /\ rxNode \in Nodes \cup {NoNode} /\ held \in Nodes \cup {NoNode}
         /\ ArmedNode \in Nodes \cup {NoNode}
         /\ setup \in Setups /\ requests \in Seq(Request)
         /\ Kind(slot) \in SlotKinds
<1>1. TypeOK => NodeType /\ RatioType /\ ControlType
  BY TypeParts
<1> QED
  BY <1>1, SlotTypes DEF NodeType, NodeQueue, RatioType, ControlType, ArmedNode

(* What a disconnection through the MAC leaves of a node armed before.        *)
LEMMA DisconnectKeeps ==
  ASSUME NodesMode, TypeOK, NodeInv, ConfigComplete, requests # <<>>, ServeDisconnect
  PROVE  /\ radio' = "off" /\ UNCHANGED <<setup, queue, held>>
         /\ Clean(~setup.fastSync, pool', queue, held, NoNode)
            \/ Doubled'
<1>1. /\ radio = "config" /\ radio' = "off" /\ pool' = Freed(pool, rxNode)
      /\ UNCHANGED <<setup, queue, held, rxNode>>
  BY DEF ConfigComplete, ServeDisconnect, FreedArmed
<1>2. Clean(~setup.fastSync, pool, queue, held, ArmedNode)
  BY <1>1 DEF NodeInv
<1>3. CASE ReceptionArmed
  <2>1. ArmedNode = rxNode
    BY <1>3 DEF ArmedNode
  <2> QED
    BY <1>1, <1>2, <2>1, NodeState, CleanFreed
<1>4. CASE ~ReceptionArmed
  <2>1. ArmedNode = NoNode
    BY <1>4 DEF ArmedNode
  <2>2. /\ Renews(setup) => rxNode = NoNode
        /\ setup.drains => rxNode = NoNode \/ LastToRead
    BY <1>1, <1>4 DEF NodeInv, StaleNode
  <2>3. CASE rxNode = NoNode
    BY <1>1, <1>2, <2>1, <2>3 DEF Freed
  <2>4. CASE rxNode # NoNode
    <3>1. ~NeverAsks(setup)
      <4>1. Asks(requests, 1) /\ 1 \in 1 .. Len(requests)
        <5>1. Head(requests) = requests[1] /\ Len(requests) \in Nat /\ Len(requests) > 0
          BY NodeState
        <5> QED
          BY <5>1 DEF ServeDisconnect, Asks
      <4> QED
        BY <4>1 DEF NodeInv, DirectOnly
    <3>2. setup.drains /\ ~setup.fastSync /\ LastToRead
      BY <2>2, <2>4, <3>1, NodeState DEF NodesMode
    <3>3. /\ Clean(TRUE, pool, queue, held, NoNode)
          /\ Len(pool) + Len(queue) + One(held) = NumNodes
      <4>1. (~setup.fastSync) = TRUE
        BY <3>2
      <4>2. Clean(TRUE, pool, queue, held, NoNode)
        BY <1>2, <2>1, <4>1
      <4>3. One(NoNode) = 0 /\ One(held) \in Nat
        BY DEF One
      <4> QED
        BY <4>2, <4>3, NodeState DEF Clean, Total
    <3>4. CASE queue = <<>> /\ held = NoNode
      <4>1. Len(pool) = NumNodes
        BY <3>3, <3>4, NodeState DEF One
      <4>2. pool' = pool
        BY <1>1, <4>1, Sizes DEF Freed
      <4> QED
        BY <1>1, <1>2, <2>1, <4>2
    <3>5. CASE queue # <<>>
      <4> DEFINE f == Front(queue)
      <4>1. f \in Seq(Nodes) /\ Len(f) = Len(queue) - 1 /\ Len(queue) >= 1
        BY <3>5, NodeState, FrontFacts
      <4>2. rxNode = queue[Len(queue)] /\ rxNode \in Nodes
        BY <2>4, <3>2, <3>5, NodeState DEF LastToRead
      <4>3. Len(pool) < NumNodes
        BY <3>3, <4>1, NodeState, Sizes DEF One
      <4>4. pool' = Freed(pool, rxNode)
        BY <1>1
      <4>5. Clean(TRUE, pool, f, held, rxNode)
        BY <3>3, <3>5, <4>2, NodeState, CleanLast
      <4>6. Clean(TRUE, pool', f, held, NoNode)
        BY <4>1, <4>4, <4>5, NodeState, CleanFreed
      <4> QED
        BY <1>1, <3>2, <3>5, <4>6 DEF Doubled
    <3>6. CASE queue = <<>> /\ held # NoNode
      <4>1. rxNode = held
        BY <3>2, <3>6 DEF LastToRead
      <4>2. Clean(TRUE, pool, queue, NoNode, held)
        BY <3>3, NodeState, CleanSymmetric
      <4>3. Clean(TRUE, pool', queue, NoNode, NoNode)
        BY <1>1, <4>1, <4>2, NodeState, CleanFreed
      <4> QED
        BY <1>1, <3>2, <3>6, <4>3 DEF Doubled
    <3> QED
      BY <3>4, <3>5, <3>6
  <2> QED
    BY <2>3, <2>4
<1> QED
  BY <1>3, <1>4

LEMMA NodeInit == Init => NodeInv
<1> SUFFICES ASSUME Init PROVE NodeInv
  OBVIOUS
<1>1. /\ radio = "off" /\ queue = <<>> /\ held = NoNode /\ pc = "idle" /\ synced = FALSE
      /\ requests = <<>>
  BY DEF Init
<1>2. pool = [n \in 1 .. NumNodes |-> n]
  BY DEF Init, Nodes
<1>3. Len(pool) = NumNodes /\ \A i \in 1 .. NumNodes : pool[i] = i
  BY <1>2, Sizes
<1>4. Len(queue) = 0 /\ 1 .. 0 = {} /\ One(NoNode) = 0
  BY <1>1 DEF One
<1>5. Apart(pool, queue, NoNode, NoNode)
  BY <1>3, <1>4 DEF Apart, NoNode
<1>6. Total(pool, queue, NoNode, NoNode) = NumNodes
  BY <1>3, <1>4, Sizes DEF Total
<1>7. Covers(pool, queue, NoNode, NoNode)
  BY <1>3 DEF Covers, Nodes
<1>8. Clean(~setup.fastSync, pool, queue, held, NoNode)
  BY <1>1, <1>5, <1>6, <1>7, Sizes DEF Clean
<1>9. DirectOnly
  <2>1. \A i \in 1 .. Len(requests) : FALSE
    BY <1>1
  <2> QED
    BY <1>1, <2>1 DEF DirectOnly
<1> QED
  BY <1>1, <1>8, <1>9 DEF NodeInv, StaleNode

(* A disconnection of a device that cannot synchronise is never asked for.    *)
LEMMA DirectNext ==
  ASSUME TypeOK, NodeInv, [Next]_vars
  PROVE  DirectOnly' /\ (signal' = "disconnect" => radio' = "off")
<1> USE DEF linkVars, nodeVars, ratioVars
<1>1. DirectOnly /\ (signal = "disconnect" => radio = "off")
  BY DEF NodeInv
<1>2. requests \in Seq(Request) /\ Len(requests) \in Nat
  BY NodeState
<1>3. CASE SlotsBegin \/ UNCHANGED vars \/ Connect \/ DirectDisconnect \/ Disconnected
           \/ DisconnectTimeout \/ ReadDone \/ FreeRead \/ Flush \/ FillConfig
  <2>1. /\ UNCHANGED <<setup, requests>>
        /\ pc' = pc \/ pc' = "idle" \/ pc' = "ratio"
        /\ synced' = synced \/ synced' = FALSE
        /\ signal' = "disconnect" => radio' = "off"
    BY <1>1, <1>3 DEF vars, SlotsBegin, Connect, DirectDisconnect, Disconnected,
       DisconnectTimeout, ReadDone, FreeRead, Flush, FillConfig, PrepareSlot
  <2> QED
    BY <1>1, <2>1 DEF DirectOnly, NeverAsks, Renews, Asks
<1>4. CASE FrameOutcome
  <2>1. /\ UNCHANGED <<setup, requests, pc, signal>> /\ radio # "off"
    BY <1>4 DEF FrameOutcome
  <2>2. NeverAsks(setup) => synced' = synced
    BY <1>4 DEF FrameOutcome, SyncAfter, NeverAsks
  <2> QED
    BY <1>1, <2>1, <2>2 DEF DirectOnly, NeverAsks, Asks
<1>5. CASE ConfigComplete
  <2>1. /\ UNCHANGED <<setup, pc, synced>> /\ radio = "config"
        /\ signal' = signal \/ radio' = "off"
        /\ requests' = requests \/ (requests # <<>> /\ requests' = Tail(requests))
    BY <1>5 DEF ConfigComplete, ServeRatio, ServeDisconnect, AfterServing
  <2>2. \A i \in 1 .. Len(requests') :
           \/ i \in 1 .. Len(requests) /\ requests'[i] = requests[i]
           \/ i + 1 \in 1 .. Len(requests) /\ requests'[i] = requests[i + 1]
    BY <1>2, <2>1
  <2> QED
    BY <1>1, <2>1, <2>2 DEF DirectOnly, NeverAsks, Asks
<1>6. CASE RequestRatio
  <2>1. /\ UNCHANGED <<setup, synced, signal, radio>> /\ pc' = "idle"
        /\ requests' = WithRequest(requests, "ratio", Filled)
    BY <1>6 DEF RequestRatio
  <2>2. \A i \in 1 .. Len(requests') :
           \/ i \in 1 .. Len(requests) /\ requests'[i] = requests[i]
           \/ requests'[i].type = "ratio"
    BY <1>2, <2>1 DEF WithRequest
  <2> QED
    BY <1>1, <2>1, <2>2 DEF DirectOnly, NeverAsks, Asks
<1>7. CASE Disconnect
  <2>1. /\ UNCHANGED <<setup, synced, signal, radio, requests>>
        /\ \/ pc' = "idle"
           \/ pc' = IF setup.fastSync /\ ~synced THEN "direct" ELSE "ask"
    BY <1>7 DEF Disconnect
  <2> QED
    BY <1>1, <2>1 DEF DirectOnly, NeverAsks, Asks
<1>8. CASE AskDisconnect
  <2>1. /\ UNCHANGED <<setup, synced, signal, radio>> /\ pc = "ask"
        /\ pc' = "wait" \/ pc' = "idle"
    BY <1>8 DEF AskDisconnect
  <2> QED
    BY <1>1, <2>1 DEF DirectOnly, NeverAsks
<1> QED
  BY <1>3, <1>4, <1>5, <1>6, <1>7, <1>8 DEF Next, Radio, Application, Call

(* The interrupts of the radio.                                             *)
LEMMA NodeRadio ==
  ASSUME NodesMode, TypeOK, TypeOK', NodeInv, DirectOnly',
         signal' = "disconnect" => radio' = "off", Radio
  PROVE  NodeInv'
<1> USE DEF linkVars, nodeVars, ratioVars
<1>1. CASE SlotsBegin
  <2>1. /\ radio = "start" /\ PrepareSlot(pool, rxNode, synced)
        /\ UNCHANGED <<setup, queue, held>>
    BY <1>1 DEF SlotsBegin
  <2>2. ArmedNode = NoNode /\ ~ReceptionArmed
    BY <2>1 DEF ArmedNode, ReceptionArmed
  <2>3. Clean(~setup.fastSync, pool, queue, held, NoNode)
    BY <2>1, <2>2 DEF NodeInv
  <2>4. synced \in BOOLEAN
    BY DEF TypeOK
  <2>5. /\ radio' \in {"listen", "config"}
        /\ Clean(~setup.fastSync, pool', queue, held, ArmedNode')
        /\ ~ReceptionArmed' => rxNode' = NoNode \/ (~Renews(setup) /\ rxNode' = rxNode)
    BY <2>1, <2>3, <2>4, NodeState, Prepared
  <2>6. setup.drains => rxNode = NoNode \/ LastToRead
    BY <2>1, <2>2 DEF NodeInv, StaleNode
  <2>7. StaleNode'
    BY <2>1, <2>5, <2>6 DEF StaleNode, LastToRead
  <2> QED
    BY <2>1, <2>5, <2>7 DEF NodeInv
<1>2. CASE FrameOutcome
  <2>1. PICK outcome \in {"missed", "nothing", "payload"} :
          /\ queue' = IF Stored(outcome) THEN Append(queue, rxNode) ELSE queue
          /\ synced' \in SyncAfter(outcome)
          /\ PrepareSlot(PoolAfter(outcome), ArmedAfter(outcome), synced')
    BY <1>2 DEF FrameOutcome
  <2>2. UNCHANGED <<setup, held>> /\ radio \in {"frame", "listen"}
    BY <1>2 DEF FrameOutcome
  <2>3. ReceptionArmed <=> Listens(Kind(slot))
    BY <2>2 DEF ReceptionArmed
  <2>4. Clean(~setup.fastSync, pool, queue, held, ArmedNode)
    BY <2>2 DEF NodeInv
  <2>5. /\ NodeQueue(PoolAfter(outcome), NumNodes)
        /\ ArmedAfter(outcome) \in Nodes \cup {NoNode}
        /\ queue' \in Seq(Nodes) /\ synced' \in BOOLEAN
    <3>1. NodeQueue(Freed(pool, rxNode), NumNodes)
      BY NodeState, FreedType
    <3>2. queue' \in Seq(Nodes) /\ synced' \in BOOLEAN
      BY DEF TypeOK
    <3> QED
      BY <3>1, <3>2, NodeState DEF PoolAfter, ArmedAfter
  <2>6. Clean(~setup.fastSync, PoolAfter(outcome), queue', held, NoNode)
    <3>1. CASE Stored(outcome)
      <4>1. ArmedNode = rxNode /\ rxNode \in Nodes /\ PoolAfter(outcome) = pool
        BY <2>3, <3>1, NodeState DEF Stored, ArmedNode, PoolAfter
      <4> QED
        BY <2>1, <2>4, <3>1, <4>1, NodeState, CleanStored
    <3>2. CASE ~Stored(outcome) /\ Listens(Kind(slot))
      <4>1. ArmedNode = rxNode /\ PoolAfter(outcome) = Freed(pool, rxNode)
        BY <2>3, <3>2 DEF ArmedNode, PoolAfter
      <4> QED
        BY <2>1, <2>4, <3>2, <4>1, NodeState, CleanFreed
    <3>3. CASE ~Listens(Kind(slot))
      BY <2>1, <2>3, <2>4, <3>3 DEF Stored, ArmedNode, PoolAfter
    <3> QED
      BY <3>1, <3>2, <3>3
  <2>7. /\ radio' \in {"listen", "config"}
        /\ Clean(~setup.fastSync, pool', queue', held, ArmedNode')
        /\ ~ReceptionArmed' =>
              rxNode' = NoNode \/ (~Renews(setup) /\ rxNode' = ArmedAfter(outcome))
    BY <2>1, <2>2, <2>5, <2>6, NodeState, Prepared
  <2>8. ASSUME setup.drains, rxNode' = ArmedAfter(outcome)
        PROVE  rxNode' = NoNode \/ LastToRead'
    <3>1. CASE Stored(outcome)
      <4>1. rxNode' = rxNode /\ queue' = Append(queue, rxNode)
        BY <2>1, <2>8, <3>1 DEF ArmedAfter
      <4>2. queue' # <<>> /\ queue'[Len(queue')] = rxNode
        BY <4>1, NodeState
      <4> QED
        BY <4>1, <4>2 DEF LastToRead
    <3>2. CASE ~Stored(outcome) /\ Listens(Kind(slot))
      BY <2>8, <3>2 DEF ArmedAfter
    <3>3. CASE ~Listens(Kind(slot))
      <4>1. rxNode' = rxNode /\ queue' = queue
        BY <2>1, <2>8, <3>3 DEF ArmedAfter, Stored
      <4>2. rxNode = NoNode \/ LastToRead
        BY <2>2, <2>3, <2>8, <3>3 DEF NodeInv, StaleNode
      <4> QED
        BY <2>2, <4>1, <4>2 DEF LastToRead
    <3> QED
      BY <3>1, <3>2, <3>3
  <2>9. StaleNode'
    BY <2>2, <2>7, <2>8 DEF StaleNode
  <2> QED
    BY <2>2, <2>7, <2>9 DEF NodeInv
<1>3. CASE ConfigComplete /\ requests # <<>> /\ ServeDisconnect
  <2>1. /\ radio' = "off" /\ UNCHANGED <<setup, queue, held>>
        /\ Clean(~setup.fastSync, pool', queue, held, NoNode) \/ Doubled'
    BY <1>3, DisconnectKeeps
  <2> QED
    BY <2>1 DEF NodeInv, StaleNode
<1>4. CASE ConfigComplete /\ ~(requests # <<>> /\ ServeDisconnect)
  <2>1. /\ radio = "config" /\ radio' = "frame"
        /\ UNCHANGED <<setup, slot, rxNode, pool, queue, held>>
    BY <1>4 DEF ConfigComplete, ServeRatio
  <2>2. (ReceptionArmed' <=> ReceptionArmed) /\ ArmedNode' = ArmedNode
    BY <2>1 DEF ReceptionArmed, ArmedNode, Kind
  <2> QED
    BY <2>1, <2>2 DEF NodeInv, StaleNode, LastToRead
<1> QED
  BY <1>1, <1>2, <1>3, <1>4 DEF Radio

(* The reader.                                                              *)
LEMMA NodeReader ==
  ASSUME NodesMode, TypeOK, TypeOK', NodeInv, DirectOnly',
         signal' = "disconnect" => radio' = "off", ReadDone \/ FreeRead \/ Flush
  PROVE  NodeInv'
<1> USE DEF linkVars, nodeVars, ratioVars
<1> DEFINE whole == ~setup.fastSync
<1>1. /\ UNCHANGED <<setup, radio, slot, rxNode>>
      /\ (ReceptionArmed' <=> ReceptionArmed) /\ ArmedNode' = ArmedNode
  BY DEF ReadDone, FreeRead, Flush, ReceptionArmed, ArmedNode, Kind
<1>2. CASE ReadDone
  <2>1. /\ held = NoNode /\ queue # <<>> /\ held' = Head(queue) /\ queue' = Tail(queue)
        /\ UNCHANGED pool
    BY <1>2 DEF ReadDone
  <2>2. \A n \in Nodes \cup {NoNode} :
           Clean(whole, pool, queue, held, n) => Clean(whole, pool', queue', held', n)
    BY <2>1, NodeState, CleanRead
  <2>3. Doubled => Clean(whole, pool', queue', held', NoNode) \/ Doubled'
    <3> SUFFICES ASSUME Doubled PROVE Doubled'
      OBVIOUS
    <3>1. Clean(TRUE, pool, Front(queue), NoNode, NoNode)
      BY <2>1 DEF Doubled
    <3>2. Head(queue) \in Nodes /\ Head(queue) # NoNode
      BY <2>1, NodeState, NodeNumbers
    <3>3. CASE Tail(queue) = <<>>
      <4>1. Front(queue) = <<>>
        BY <2>1, <3>3, NodeState, FrontFacts
      <4> QED
        BY <1>1, <2>1, <3>1, <3>2, <3>3, <4>1 DEF Doubled
    <3>4. CASE Tail(queue) # <<>>
      <4>1. /\ Front(queue) # <<>> /\ Front(queue) \in Seq(Nodes)
            /\ Head(Front(queue)) = Head(queue)
            /\ Front(Tail(queue)) = Tail(Front(queue))
        BY <2>1, <3>4, NodeState, FrontFacts
      <4>2. Clean(TRUE, pool, Front(Tail(queue)), Head(queue), NoNode)
        BY <3>1, <4>1, NodeState, CleanRead
      <4> QED
        BY <1>1, <2>1, <3>4, <4>2 DEF Doubled
    <3> QED
      BY <3>3, <3>4
  <2>4. LastToRead => LastToRead'
    BY <1>1, <2>1, NodeState, FrontFacts DEF LastToRead
  <2>5. StaleNode'
    BY <1>1, <2>4 DEF NodeInv, StaleNode
  <2> QED
    BY <1>1, <2>2, <2>3, <2>5, NodeState DEF NodeInv
<1>3. CASE FreeRead
  <2>1. /\ held # NoNode /\ pool' = Freed(pool, held) /\ held' = NoNode
        /\ UNCHANGED queue
    BY <1>3 DEF FreeRead
  <2>2. \A n \in Nodes \cup {NoNode} :
           Clean(whole, pool, queue, held, n) => Clean(whole, pool', queue', held', n)
    <3> TAKE n \in Nodes \cup {NoNode}
    <3> HAVE Clean(whole, pool, queue, held, n)
    <3>1. Clean(whole, pool, queue, n, held)
      BY NodeState, CleanSymmetric
    <3>2. Clean(whole, pool', queue, n, NoNode)
      BY <2>1, <3>1, NodeState, CleanFreed
    <3>3. NodeQueue(pool', NumNodes)
      BY <2>1, NodeState, FreedType
    <3> QED
      BY <2>1, <3>2, <3>3, NodeState, CleanSymmetric
  <2>3. Doubled => Clean(whole, pool', queue', held', NoNode) \/ Doubled'
    <3> SUFFICES ASSUME Doubled
                 PROVE  Clean(whole, pool', queue', held', NoNode) \/ Doubled'
      OBVIOUS
    <3>1. CASE queue = <<>>
      <4>1. Clean(TRUE, pool, queue, NoNode, NoNode) /\ ~setup.fastSync
        BY <3>1 DEF Doubled
      <4>2. Len(pool) = NumNodes
        BY <3>1, <4>1, NodeState DEF Clean, Total, One
      <4>3. pool' = pool
        BY <2>1, <4>2, Sizes DEF Freed
      <4>4. whole = TRUE
        BY <4>1
      <4> QED
        BY <2>1, <4>1, <4>3, <4>4
    <3>2. CASE queue # <<>>
      <4>1. Front(queue) \in Seq(Nodes)
        BY <3>2, NodeState, FrontFacts
      <4>2. Clean(TRUE, pool, Front(queue), held, NoNode)
        BY <3>2 DEF Doubled
      <4>3. Clean(TRUE, pool, Front(queue), NoNode, held)
        BY <4>1, <4>2, NodeState, CleanSymmetric
      <4>4. Clean(TRUE, pool', Front(queue), NoNode, NoNode)
        BY <2>1, <4>1, <4>3, NodeState, CleanFreed
      <4> QED
        BY <1>1, <2>1, <3>2, <4>4 DEF Doubled
    <3> QED
      BY <3>1, <3>2
  <2>4. LastToRead => LastToRead'
    BY <1>1, <2>1 DEF LastToRead
  <2>5. StaleNode'
    BY <1>1, <2>4 DEF NodeInv, StaleNode
  <2> QED
    BY <1>1, <2>2, <2>3, <2>5, NodeState DEF NodeInv
<1>4. CASE Flush
  <2>1. /\ held = NoNode /\ queue # <<>> /\ pool' = FreedAll(pool, queue) /\ queue' = <<>>
        /\ held' = NoNode
    BY <1>4 DEF Flush
  <2>2. \A n \in Nodes \cup {NoNode} :
           Clean(whole, pool, queue, held, n) => Clean(whole, pool', queue', held', n)
    <3> TAKE n \in Nodes \cup {NoNode}
    <3> HAVE Clean(whole, pool, queue, held, n)
    <3>1. Len(pool) + Len(queue) <= NumNodes
      <4>1. One(held) = 0 /\ (One(n) = 0 \/ One(n) = 1)
        BY <2>1 DEF One
      <4>2. Total(pool, queue, held, n) <= NumNodes
        BY DEF Clean
      <4> QED
        BY <4>1, <4>2, NodeState, Sizes DEF Total
    <3>2. pool' = pool \o queue
      BY <2>1, <3>1, NodeState, FreedAllFits
    <3> QED
      BY <2>1, <3>2, NodeState, CleanJoined
  <2>3. Doubled => Clean(whole, pool', queue', held', NoNode)
    <3> HAVE Doubled
    <3>1. Clean(TRUE, pool, Front(queue), NoNode, NoNode) /\ whole = TRUE
      BY <2>1 DEF Doubled
    <3>2. /\ Front(queue) \in Seq(Nodes) /\ Len(Front(queue)) = Len(queue) - 1
      BY <2>1, NodeState, FrontFacts
    <3>3. Len(pool) + Len(queue) = NumNodes + 1
      BY <3>1, <3>2, NodeState, Sizes DEF Clean, Total, One
    <3>4. pool' = pool \o Front(queue)
      BY <2>1, <3>3, NodeState, FreedAllFits
    <3> QED
      BY <2>1, <3>1, <3>2, <3>4, NodeState, CleanJoined
  <2>4. LastToRead'
    BY <2>1 DEF LastToRead
  <2>5. StaleNode'
    BY <1>1, <2>4 DEF NodeInv, StaleNode
  <2> QED
    BY <1>1, <2>2, <2>3, <2>5, NodeState DEF NodeInv
<1> QED
  BY <1>2, <1>3, <1>4

(* The calls: only a connection and a direct disconnection touch the radio.   *)
LEMMA NodeCalls ==
  ASSUME NodesMode, TypeOK, NodeInv, DirectOnly',
         signal' = "disconnect" => radio' = "off",
         Connect \/ Disconnect \/ Call \/ FillConfig \/ RequestRatio \/ UNCHANGED vars
  PROVE  NodeInv'
<1> USE DEF linkVars, nodeVars, ratioVars
<1>1. CASE Connect
  <2>1. /\ signal = "disconnect" /\ radio' = "start"
        /\ setup.drains => queue = <<>> /\ held = NoNode
        /\ UNCHANGED <<setup, slot, rxNode, pool, queue, held>>
    BY <1>1 DEF Connect
  <2>2. radio = "off"
    BY <2>1 DEF NodeInv
  <2>3. ~Doubled
    BY <2>1 DEF Doubled
  <2>4. Clean(~setup.fastSync, pool, queue, held, NoNode)
    BY <2>2, <2>3 DEF NodeInv
  <2>5. ~ReceptionArmed' /\ ArmedNode' = NoNode
    BY <2>1 DEF ReceptionArmed, ArmedNode
  <2>6. StaleNode'
    BY <2>1 DEF StaleNode, LastToRead
  <2> QED
    BY <2>1, <2>4, <2>5, <2>6 DEF NodeInv
<1>2. CASE DirectDisconnect
  <2>1. /\ pc = "direct" /\ radio' = "off"
        /\ UNCHANGED <<setup, slot, rxNode, pool, queue, held>>
    BY <1>2 DEF DirectDisconnect
  <2>2. setup.fastSync /\ (~setup.fastSync) = FALSE
    BY <2>1 DEF NodeInv, DirectOnly
  <2>3. Clean(FALSE, pool, queue, held, NoNode)
    <3>1. CASE radio = "off"
      BY <2>2, <3>1 DEF NodeInv, Doubled
    <3>2. CASE radio # "off"
      <4>1. Clean(FALSE, pool, queue, held, ArmedNode)
        BY <2>2, <3>2 DEF NodeInv
      <4>2. /\ Len(pool) \in Nat /\ Len(queue) \in Nat /\ One(held) \in Nat
            /\ One(ArmedNode) \in Nat /\ One(NoNode) = 0
        BY NodeState DEF One
      <4>3. Total(pool, queue, held, NoNode) <= NumNodes
        BY <4>1, <4>2, Sizes DEF Clean, Total
      <4>4. /\ \A i \in 1 .. Len(pool) : pool[i] # NoNode
            /\ \A j \in 1 .. Len(queue) : queue[j] # NoNode
        BY NodeState, NodeNumbers
      <4>5. Apart(pool, queue, held, NoNode)
        BY <4>1, <4>4 DEF Clean, Apart
      <4> QED
        BY <4>3, <4>5 DEF Clean
    <3> QED
      BY <3>1, <3>2
  <2> QED
    BY <2>1, <2>2, <2>3 DEF NodeInv, StaleNode
<1>3. CASE Disconnect \/ AskDisconnect \/ Disconnected \/ DisconnectTimeout
           \/ FillConfig \/ RequestRatio \/ UNCHANGED vars
  <2>1. UNCHANGED <<setup, radio, slot, rxNode, pool, queue, held>>
    BY <1>3 DEF Disconnect, AskDisconnect, Disconnected, DisconnectTimeout, FillConfig,
       RequestRatio, vars
  <2>2. (ReceptionArmed' <=> ReceptionArmed) /\ ArmedNode' = ArmedNode
    BY <2>1 DEF ReceptionArmed, ArmedNode, Kind
  <2> QED
    BY <2>1, <2>2 DEF NodeInv, StaleNode, LastToRead, Doubled
<1> QED
  BY <1>1, <1>2, <1>3 DEF Call

LEMMA NodeNext ==
  ASSUME NodesMode, TypeOK, TypeOK', NodeInv, [Next]_vars
  PROVE  NodeInv'
BY DirectNext, NodeRadio, NodeReader, NodeCalls DEF Next, Application

(* A queue that holds no node twice holds a node at one place or at none.     *)
LEMMA Occurrences ==
  ASSUME NEW s \in Seq(Nodes), NEW n,
         \A i, j \in 1 .. Len(s) : s[i] = s[j] => i = j
  PROVE  Cardinality({i \in DOMAIN s : s[i] = n})
            = IF \E i \in 1 .. Len(s) : s[i] = n THEN 1 ELSE 0
<1>1. DOMAIN s = 1 .. Len(s)
  OBVIOUS
<1>2. CASE \E i \in 1 .. Len(s) : s[i] = n
  <2>1. PICK i \in 1 .. Len(s) : s[i] = n
    BY <1>2
  <2>2. {j \in DOMAIN s : s[j] = n} = {i}
    BY <1>1, <2>1
  <2> QED
    BY <1>2, <2>2, FS_Singleton
<1>3. CASE ~\E i \in 1 .. Len(s) : s[i] = n
  <2>1. {j \in DOMAIN s : s[j] = n} = {}
    BY <1>1, <1>3
  <2> QED
    BY <1>3, <2>1, FS_EmptySet
<1> QED
  BY <1>2, <1>3

LEMMA NodeConsequences ==
  ASSUME TypeOK, NodeInv
  PROVE  OneOwner /\ PoolRestored
<1>1. OneOwner
  <2> SUFFICES ASSUME radio # "off", NEW n \in Nodes
               PROVE  Owners(n) <= 1 /\ (~setup.fastSync => Owners(n) = 1)
    BY DEF OneOwner
  <2>1. Clean(~setup.fastSync, pool, queue, held, ArmedNode)
    BY DEF NodeInv
  <2> DEFINE inPool == \E i \in 1 .. Len(pool) : pool[i] = n
             inQueue == \E j \in 1 .. Len(queue) : queue[j] = n
  <2>2. n # NoNode
    BY NodeNumbers
  <2>3. /\ Cardinality({i \in DOMAIN pool : pool[i] = n}) = IF inPool THEN 1 ELSE 0
        /\ Cardinality({i \in DOMAIN queue : queue[i] = n}) = IF inQueue THEN 1 ELSE 0
    BY <2>1, NodeState, Occurrences DEF Clean, Apart
  <2>4. (ReceptionArmed /\ rxNode = n) <=> ArmedNode = n
    BY <2>2 DEF ArmedNode
  <2>5. /\ ~(inPool /\ inQueue)
        /\ inPool => held # n /\ ArmedNode # n
        /\ inQueue => held # n /\ ArmedNode # n
        /\ held = n => ArmedNode # n
    BY <2>1, <2>2 DEF Clean, Apart
  <2>6. ~setup.fastSync => inPool \/ inQueue \/ held = n \/ ArmedNode = n
    BY <2>1 DEF Clean, Covers
  <2>7. Owners(n) = (IF inPool THEN 1 ELSE 0) + (IF inQueue THEN 1 ELSE 0)
                       + (IF held = n THEN 1 ELSE 0) + (IF ArmedNode = n THEN 1 ELSE 0)
    <3> HIDE DEF inPool, inQueue
    <3> QED
      BY <2>3, <2>4 DEF Owners
  <2> HIDE DEF inPool, inQueue
  <2> QED
    BY <2>5, <2>6, <2>7
<1>2. PoolRestored
  <2> SUFFICES ASSUME radio = "off", ~setup.fastSync, queue = <<>>, held = NoNode
               PROVE  Range(pool) = Nodes
    BY DEF PoolRestored, AllNodesHome
  <2>1. ~Doubled
    BY DEF Doubled
  <2>2. Covers(pool, queue, held, NoNode)
    BY <2>1 DEF NodeInv, Clean
  <2>3. \A j \in 1 .. Len(queue) : FALSE
    OBVIOUS
  <2>4. \A n \in Nodes : \E i \in 1 .. Len(pool) : pool[i] = n
    BY <2>2, <2>3, NodeNumbers DEF Covers
  <2>5. DOMAIN pool = 1 .. Len(pool) /\ \A i \in 1 .. Len(pool) : pool[i] \in Nodes
    BY NodeState
  <2> QED
    BY <2>4, <2>5 DEF Range
<1> QED
  BY <1>1, <1>2

LEMMA NodeInvariant ==
  ASSUME NodesMode
  PROVE  Spec => [](TypeOK /\ NodeInv)
<1>1. TypeOK /\ NodeInv /\ [Next]_vars => TypeOK' /\ NodeInv'
  BY StepTypes, NodeNext
<1> QED
  BY <1>1, InitTypeOK, NodeInit, PTL DEF Spec

(* The radio never writes into a node that the pool, the queue or the reader   *)
(* has, and without fast sync loses none, although rx_node is not reset when   *)
(* its node is queued or freed (process_rx_main, process_disconnect_request). *)
THEOREM OneOwnerAlways ==
  ASSUME NodesMode
  PROVE  Spec => []OneOwner
<1>1. TypeOK /\ NodeInv => OneOwner
  BY NodeConsequences
<1> QED
  BY <1>1, NodeInvariant, PTL

(* Disconnected without fast sync and read, a device has every node back, even *)
(* when the disconnection freed the node of a frame that was still to be read: *)
(* the pool is full when that node is freed again, and refuses it.           *)
THEOREM PoolWholeAgain ==
  ASSUME NodesMode
  PROVE  Spec => []PoolRestored
<1>1. TypeOK /\ NodeInv => PoolRestored
  BY NodeConsequences
<1> QED
  BY <1>1, NodeInvariant, PTL
=============================================================================
