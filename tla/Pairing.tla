------------------------------- MODULE Pairing -------------------------------
(***************************************************************************)
(* The pairing procedure: a coordinator and one node at a time authenticate, *)
(* identify and address each other.  Each side is a main loop that executes *)
(* the function of its current state, and two callbacks, one per message    *)
(* sent and one per message received, that interrupt the main loop and      *)
(* write the current state and a mailbox of one message.                    *)
(*                                                                         *)
(* In the AUTH and ADDR phases the coordinator asks and the node answers;   *)
(* in the IDENT phase the node asks.  The connections below deliver in      *)
(* order and acknowledge what they delivered (MacLink); being auto-sync     *)
(* connections they may also acknowledge a frame that nobody receives       *)
(* (maclink_autosync_loss).                                                 *)
(***************************************************************************)
EXTENDS Naturals, Sequences

CONSTANTS
    Nodes,           \* the node devices
    Coord,           \* the coordinator
    Role,            \* node -> device role; the coordinator's role is 0
    ListSize,        \* discovery_list_size
    MaxAddress,      \* addresses are 1..MaxAddress, 0 and those above reserved
    Generated,       \* unique ID -> the address serialised from it
    UniqueId,        \* device -> serial number of its radio
    PanId,           \* the PAN ID serialised from the coordinator's ID
    MaxProcedures,   \* bound: device -> procedures it starts
    Setups           \* how the procedures run

Devices == Nodes \cup {Coord}

SetupType == [code : [Devices -> Nat \ {0}],  \* app_code of each device
              preempt : BOOLEAN,        \* callbacks interrupt a state function
              interrupted : BOOLEAN,    \* timeouts and aborts happen
              lossy : BOOLEAN,          \* frames acknowledged and discarded
              attentive : BOOLEAN,      \* a message is read before the next
              again : BOOLEAN]          \* procedures are started again

ASSUME PairingAssumption ==
    /\ Coord \notin Nodes
    /\ ListSize \in Nat \ {0} /\ MaxAddress \in Nat \ {0}
    /\ Role \in [Nodes -> Nat \ {0}]
    /\ UniqueId \in [Devices -> Nat \ {0}]
    /\ Generated \in [{0} \cup {UniqueId[d] : d \in Devices} -> 1..MaxAddress]
    /\ PanId \in Nat /\ MaxProcedures \in [Devices -> Nat \ {0}]
    /\ Setups \subseteq SetupType

VARIABLES
    setup,      \* chosen once
    started,    \* procedures each device has started
    main,       \* where each main loop is
    state,      \* current_pairing_state
    event,      \* local_pairing_event
    action,     \* the pairing_..._action of the phase
    box,        \* received_pairing_command and received_payload, static
    address,    \* the application's pairing_assigned_address
    list,       \* the discovery list: role -> address, 0 for none
    txq,        \* the sender's queue: messages and whether they got through
    cb,         \* callbacks waiting to run on each device
    learned     \* history: addresses that nodes have taken over

vars == <<setup, started, main, state, event, action, box, address, list, txq, cb, learned>>

Phases == {"AUTH", "IDENT", "ADDR"}
Steps == {"SEND", "WAIT_ACK", "WAIT", "ACTION"}
States == (Phases \X Steps) \cup {<<"ENTER", "ONCE">>, <<"EXIT", "ONCE">>}
Events == {"NONE", "SUCCESS", "TIMEOUT", "INVALID_APP_CODE", "ABORT"}

(* Actions travel as the second byte of a response: 0 none, 1 success,      *)
(* 2 failure.                                                               *)
ActionNone == 0
ActionSuccess == 1
ActionFail == 2

Asks(d, phase) == (d = Coord) <=> (phase # "IDENT")

(* A message is its command, its second byte and the bytes after it; Short  *)
(* stands for none (codes, serial numbers and addresses are not 0), and     *)
(* then the receiver's payload buffer keeps those it holds.                 *)
NoCommand == <<"NONE", "NONE">>
Short == <<0, 0>>
Ask(phase, first, rest) == [cmd |-> <<phase, "MESSAGE">>, first |-> first, rest |-> rest]
Answer(phase, value) == [cmd |-> <<phase, "RESPONSE">>, first |-> value, rest |-> Short]
Expected(d, phase) == <<phase, IF Asks(d, phase) THEN "RESPONSE" ELSE "MESSAGE">>
Sent == [cmd |-> <<"SENT", "NONE">>, first |-> 0, rest |-> Short]

NoAddress == [pan |-> 0, coordinator |-> 0, node |-> 0]
OwnAddress == Generated[UniqueId[Coord]]

Connected(d) == main[d] # "idle" /\ state[d] # <<"ENTER", "ONCE">>
Peer(d) == IF d = Coord THEN {n \in Nodes : main[n] # "idle"} ELSE {Coord}

Init ==
    /\ setup \in Setups
    /\ started = [d \in Devices |-> 0]
    /\ main = [d \in Devices |-> "idle"]
    /\ state = [d \in Devices |-> <<"ENTER", "ONCE">>]
    /\ event = [d \in Devices |-> "NONE"]
    /\ action = [d \in Devices |-> ActionNone]
    /\ box = [d \in Devices |-> [cmd |-> NoCommand, first |-> 0, rest |-> <<0, 0>>]]
    /\ address = [d \in Devices |-> NoAddress]
    /\ list = [r \in 0..ListSize - 1 |-> 0]
    /\ txq = [d \in Devices |-> <<>>]
    /\ cb = [d \in Devices |-> <<>>]
    /\ learned = {}

-----------------------------------------------------------------------------
(* Starting and ending a procedure.  The other end's frame in flight counts *)
(* as not received by a receiver that starts over.                          *)
Forget(d) ==
    /\ cb' = [cb EXCEPT ![d] = <<>>]
    /\ txq' = [e \in Devices |->
                 IF e = d THEN <<>>
                 ELSE IF d \in Peer(e)
                      THEN [i \in DOMAIN txq[e] |-> [txq[e][i] EXCEPT !.got = FALSE]]
                      ELSE txq[e]]

(* pairing_coordinator_start, pairing_node_start.  The mailbox keeps what   *)
(* it holds.  Nodes pair one at a time.                                     *)
Start(d) ==
    /\ main[d] = "idle"
    /\ started[d] < IF setup.again THEN MaxProcedures[d] ELSE 1
    /\ d # Coord => \A n \in Nodes : main[n] = "idle"
    /\ started' = [started EXCEPT ![d] = @ + 1]
    /\ main' = [main EXCEPT ![d] = "execute"]
    /\ state' = [state EXCEPT ![d] = <<"ENTER", "ONCE">>]
    /\ event' = [event EXCEPT ![d] = "NONE"]
    /\ address' = [address EXCEPT ![d] = NoAddress]
    /\ UNCHANGED <<setup, action, box, list, txq, cb, learned>>

(* The delay of pairing_deinit, during which the radio still runs; when all *)
(* goes well it outlasts the retransmissions of the last message.           *)
NoDelay(d) == TRUE                                                \* mutant
DelayOver(d) == setup.attentive => \A e \in Peer(d) : txq[e] = <<>>

Deinit(d) ==
    /\ main[d] = "deinit"
    /\ DelayOver(d)
    /\ main' = [main EXCEPT ![d] = "idle"]
    /\ Forget(d)
    /\ UNCHANGED <<setup, started, state, event, action, box, address, list, learned>>

(* The rest of an iteration of pairing_process after a state function that  *)
(* leaves event e: the timer, the application callback, the loop's test.    *)
EndIteration(d, e) ==
    \E e2 \in {e} \cup (IF setup.interrupted THEN {"TIMEOUT", "ABORT"} ELSE {}) :
        /\ event' = [event EXCEPT ![d] = e2]
        /\ main' = [main EXCEPT ![d] = IF e2 = "NONE" THEN "execute" ELSE "deinit"]

-----------------------------------------------------------------------------
(* The state functions.                                                     *)

(* pairing_address_add_node_to_device_discovery_list: a role that the list  *)
(* has no entry for is ignored.                                             *)
AddedOnce(r, a) == [list EXCEPT ![r] = IF @ = 0 THEN a ELSE @]    \* mutant
AddedToList(r, a) == [q \in DOMAIN list |-> IF q = r THEN a ELSE list[q]]

Enter(d) ==
    /\ main[d] = "execute" /\ state[d] = <<"ENTER", "ONCE">>
    /\ IF d = Coord
         THEN /\ address' = [address EXCEPT ![d].pan = PanId, ![d].coordinator = OwnAddress]
              /\ list' = AddedToList(0, OwnAddress)
              /\ state' = [state EXCEPT ![d] = <<"AUTH", "SEND">>]
         ELSE /\ state' = [state EXCEPT ![d] = <<"AUTH", "WAIT">>]
              /\ UNCHANGED <<address, list>>
    /\ EndIteration(d, event[d])
    /\ UNCHANGED <<setup, started, action, box, txq, cb, learned>>

CoordinatorMessage(phase) ==
    CASE phase = "AUTH" -> Ask(phase, setup.code[Coord], <<setup.code[Coord], setup.code[Coord]>>)
      [] phase = "IDENT" -> Answer(phase, action[Coord])
      [] phase = "ADDR" -> Ask(phase, address[Coord].pan,
                               <<address[Coord].coordinator, address[Coord].node>>)

NodeMessage(n, phase) ==
    IF phase = "IDENT" THEN Ask(phase, Role[n], <<UniqueId[n], UniqueId[n]>>)
                       ELSE Answer(phase, action[n])

(* ..._send_...: the message is queued, then the state is set.              *)
SendMessage(d, phase) ==
    /\ main[d] = "execute" /\ state[d] = <<phase, "SEND">>
    /\ txq' = [txq EXCEPT ![d] = Append(@,
                 [msg |-> IF d = Coord THEN CoordinatorMessage(phase) ELSE NodeMessage(d, phase),
                  got |-> FALSE])]
    /\ main' = [main EXCEPT ![d] = "sent"]
    /\ UNCHANGED <<setup, started, state, event, action, box, address, list, cb, learned>>

SentAgain(phase) == <<phase, "SEND">>                             \* mutant
AfterSend(phase) == <<phase, "WAIT_ACK">>

SetWaitForAck(d, phase) ==
    /\ main[d] = "sent" /\ state[d] = <<phase, "SEND">>
    /\ state' = [state EXCEPT ![d] = AfterSend(phase)]
    /\ EndIteration(d, event[d])
    /\ UNCHANGED <<setup, started, action, box, address, list, txq, cb, learned>>

(* ..._wait_for_ack, exit_pairing, and ..._wait_... without the message.    *)
Idle(d) ==
    /\ main[d] = "execute"
    /\ \/ state[d] = <<"EXIT", "ONCE">>
       \/ \E phase \in Phases : state[d] = <<phase, "WAIT_ACK">>
       \/ \E phase \in Phases : state[d] = <<phase, "WAIT">> /\ box[d].cmd # Expected(d, phase)
    /\ EndIteration(d, event[d])
    /\ UNCHANGED <<setup, started, state, action, box, address, list, txq, cb, learned>>

(* ..._wait_...: the command is tested, then cleared, then the payload is   *)
(* copied and used.                                                         *)
TestCommand(d, phase) ==
    /\ main[d] = "execute" /\ state[d] = <<phase, "WAIT">>
    /\ box[d].cmd = Expected(d, phase)
    /\ main' = [main EXCEPT ![d] = "clear"]
    /\ UNCHANGED <<setup, started, state, event, action, box, address, list, txq, cb, learned>>

ClearCommand(d) ==
    /\ main[d] = "clear"
    /\ box' = [box EXCEPT ![d].cmd = NoCommand]
    /\ main' = [main EXCEPT ![d] = "copy"]
    /\ UNCHANGED <<setup, started, state, event, action, address, list, txq, cb, learned>>

(* pairing_address_get_available_node_id: the first address from a on that  *)
(* no entry holds.  The search never ends when there is none.               *)
Listed(a) == \E r \in DOMAIN list : list[r] = a
Following(a, i) == ((a + i - 1) % MaxAddress) + 1
GeneratedIsTaken(a, b) == b = a                                   \* mutant
IsAvailableFrom(a, b) ==
    \E i \in 0..MaxAddress - 1 :
        /\ b = Following(a, i) /\ ~Listed(b)
        /\ \A j \in 0..MaxAddress - 1 : j < i => Listed(Following(a, j))

CoordinatorReads(phase) ==
    IF phase = "IDENT"
    THEN \E a \in 1..MaxAddress :
            /\ IsAvailableFrom(Generated[box[Coord].rest[1]], a)
            /\ address' = [address EXCEPT ![Coord].node = a]
            /\ list' = AddedToList(box[Coord].first, a)
            /\ action' = [action EXCEPT ![Coord] = ActionSuccess]
    ELSE /\ action' = [action EXCEPT ![Coord] = box[Coord].first]
         /\ UNCHANGED <<address, list>>

(* The node takes the payload for the type its state calls for.             *)
AnyCode(n) == TRUE                                                \* mutant
IsCodeValid(n) ==
    box[n].first = setup.code[n] /\ box[n].rest = <<setup.code[n], setup.code[n]>>

SwappedAddresses(payload) ==                                      \* mutant
    [pan |-> payload.first, coordinator |-> payload.rest[2], node |-> payload.rest[1]]
AddressesIn(payload) ==
    [pan |-> payload.first, coordinator |-> payload.rest[1], node |-> payload.rest[2]]

NodeReads(n, phase) ==
    /\ action' = [action EXCEPT ![n] =
                    CASE phase = "AUTH" -> IF IsCodeValid(n) THEN ActionSuccess ELSE ActionFail
                      [] phase = "IDENT" -> box[n].first
                      [] phase = "ADDR" -> ActionSuccess]
    /\ address' = IF phase = "ADDR" THEN [address EXCEPT ![n] = AddressesIn(box[n])]
                                    ELSE address
    /\ learned' = IF phase = "ADDR" THEN learned \cup {address'[n]} ELSE learned
    /\ UNCHANGED list

CopyPayload(d, phase) ==
    /\ main[d] = "copy" /\ state[d] = <<phase, "WAIT">>
    /\ IF d = Coord THEN CoordinatorReads(phase) /\ UNCHANGED learned ELSE NodeReads(d, phase)
    /\ state' = [state EXCEPT ![d] = <<phase, IF Asks(d, phase) THEN "ACTION" ELSE "SEND">>]
    /\ EndIteration(d, event[d])
    /\ UNCHANGED <<setup, started, box, txq, cb>>

(* ..._action: where the phase's result leads, the event it raises.  The    *)
(* coordinator has no case for an address that the node refuses.            *)
NextPhase(phase) == IF phase = "AUTH" THEN "IDENT" ELSE "ADDR"
Entry(d, phase) == <<phase, IF Asks(d, phase) THEN "SEND" ELSE "WAIT">>

CoordinatorAction(phase, value) ==
    CASE value = ActionSuccess ->
           IF phase = "ADDR" THEN [event |-> "SUCCESS", state |-> <<"EXIT", "ONCE">>]
           ELSE [event |-> event[Coord], state |-> Entry(Coord, NextPhase(phase))]
      [] value = ActionFail /\ phase # "ADDR" ->
           [event |-> IF phase = "AUTH" THEN "INVALID_APP_CODE" ELSE event[Coord],
            state |-> <<"EXIT", "ONCE">>]
      [] OTHER -> [event |-> event[Coord], state |-> state[Coord]]

NodeAction(n, phase, value) ==
    CASE value = ActionSuccess ->
           IF phase = "ADDR" THEN [event |-> "SUCCESS", state |-> <<"EXIT", "ONCE">>]
           ELSE [event |-> event[n], state |-> Entry(n, NextPhase(phase))]
      [] value = ActionFail ->
           [event |-> IF phase = "AUTH" THEN "INVALID_APP_CODE" ELSE event[n],
            state |-> <<"EXIT", "ONCE">>]
      [] OTHER -> [event |-> event[n], state |-> state[n]]

TakeAction(d, phase) ==
    LET result == IF d = Coord THEN CoordinatorAction(phase, action[d])
                               ELSE NodeAction(d, phase, action[d])
    IN /\ main[d] = "execute" /\ state[d] = <<phase, "ACTION">>
       /\ state' = [state EXCEPT ![d] = result.state]
       /\ action' = [action EXCEPT ![d] = ActionNone]
       /\ EndIteration(d, result.event)
       /\ UNCHANGED <<setup, started, box, address, list, txq, cb, learned>>

-----------------------------------------------------------------------------
(* The radio and the callbacks.                                             *)

(* The receiver has read everything it was sent.                            *)
AllRead(d) == cb[d] = <<>> /\ box[d].cmd = NoCommand /\ main[d] \in {"execute", "deinit"}

(* A frame gets through to a connected receiver.                            *)
Deliver(d, e) ==
    /\ Connected(d) /\ e \in Peer(d) /\ Connected(e)
    /\ txq[d] # <<>> /\ ~Head(txq[d]).got
    /\ setup.attentive => AllRead(e)
    /\ txq' = [txq EXCEPT ![d][1].got = TRUE]
    /\ cb' = [cb EXCEPT ![e] = Append(@, txq[d][1].msg)]
    /\ UNCHANGED <<setup, started, main, state, event, action, box, address, list, learned>>

(* Its acknowledgement gets back, or stands for a frame nobody received.    *)
Acknowledge(d) ==
    /\ Connected(d) /\ txq[d] # <<>>
    /\ Head(txq[d]).got \/ (setup.lossy /\ \E e \in Peer(d) : Connected(e))
    /\ txq' = [txq EXCEPT ![d] = Tail(@)]
    /\ cb' = [cb EXCEPT ![d] = Append(@, Sent)]
    /\ UNCHANGED <<setup, started, main, state, event, action, box, address, list, learned>>

(* sent_message_coordinator_callback, sent_message_node_callback.           *)
WaitsForAckNotIdent(s) == s \in {"AUTH", "ADDR"} \X {"WAIT_ACK"}  \* mutant
WaitsForAck(s) == s \in Phases \X {"WAIT_ACK"}

SentCallback(d) ==
    /\ state' = [state EXCEPT ![d] =
                   IF WaitsForAck(@) THEN <<@[1], IF Asks(d, @[1]) THEN "WAIT" ELSE "ACTION">>
                   ELSE @]
    /\ UNCHANGED box

(* received_message_..._callback: the mailbox is overwritten.               *)
ReceivedCallback(d, msg) ==
    /\ box' = [box EXCEPT ![d] = [cmd |-> msg.cmd, first |-> msg.first,
                                  rest |-> IF msg.rest = Short THEN @.rest ELSE msg.rest]]
    /\ UNCHANGED state

Callback(d) ==
    /\ Connected(d) /\ cb[d] # <<>>
    /\ setup.preempt \/ main[d] \in {"execute", "deinit"}
    /\ IF Head(cb[d]) = Sent THEN SentCallback(d) ELSE ReceivedCallback(d, Head(cb[d]))
    /\ cb' = [cb EXCEPT ![d] = Tail(@)]
    /\ UNCHANGED <<setup, started, main, event, action, address, list, txq, learned>>

MainLoop(d) ==
    \/ Deinit(d) \/ Enter(d) \/ Idle(d) \/ ClearCommand(d)
    \/ \E phase \in Phases :
         \/ SendMessage(d, phase) \/ SetWaitForAck(d, phase)
         \/ TestCommand(d, phase) \/ CopyPayload(d, phase) \/ TakeAction(d, phase)

Next ==
    \E d \in Devices :
        \/ Start(d) \/ MainLoop(d) \/ Callback(d) \/ Acknowledge(d)
        \/ \E e \in Devices : Deliver(d, e)

Spec == Init /\ [][Next]_vars

(* The main loops run, callbacks run, and slots come back until a frame and *)
(* its acknowledgement got through.                                         *)
Fairness ==
    \A d \in Devices :
        /\ WF_vars(MainLoop(d)) /\ WF_vars(Start(d)) /\ WF_vars(Callback(d))
        /\ WF_vars(Acknowledge(d)) /\ \A e \in Devices : WF_vars(Deliver(d, e))

FairSpec == Spec /\ Fairness
-----------------------------------------------------------------------------
(* Every variable has its type, and a device never has a second message in  *)
(* its queue, so the queue of two payloads is never full.                   *)
TypeOK ==
    /\ setup \in Setups
    /\ \A d \in Devices : started[d] \in 0..MaxProcedures[d]
    /\ main \in [Devices -> {"idle", "execute", "sent", "clear", "copy", "deinit"}]
    /\ state \in [Devices -> States]
    /\ event \in [Devices -> Events]
    /\ list \in [0..ListSize - 1 -> 0..MaxAddress]
    /\ \A d \in Devices : Len(txq[d]) <= 1

(* No two entries of the discovery list hold the same address, however often *)
(* procedures fail, are repeated or find the serialised addresses of two    *)
(* devices equal (pairing_address_get_available_node_id).                   *)
DistinctAddresses ==
    \A r, s \in DOMAIN list : list[r] = list[s] /\ list[r] # 0 => r = s

(* A device reports success only when its peer has the same application     *)
(* code, although responses read from the mailbox may be old ones.          *)
SameCode ==
    \A d \in Devices : event[d] = "SUCCESS"
        => \E n \in Nodes : setup.code[n] = setup.code[Coord]

(* The coordinator reports success only for addresses that a node has taken *)
(* over, even if messages were discarded or the node has started again.     *)
CoordinatorSuccess ==
    [][event[Coord] # "SUCCESS" /\ event'[Coord] = "SUCCESS"
         => address[Coord] \in learned]_vars

(* A node reports success only with the coordinator's own address and the   *)
(* address that the coordinator's list holds for the node's role, whatever  *)
(* happened to the coordinator's procedure in between (the list is indexed  *)
(* by role, pairing_address.h).  A message left in the mailbox breaks it    *)
(* once another node has paired; and the first message of a new procedure   *)
(* of the coordinator breaks it when it comes between the test of the       *)
(* mailbox and the copy: the application code is taken for addresses.       *)
NodeSuccess ==
    [][\A n \in Nodes :
            /\ event[n] # "SUCCESS" /\ event'[n] = "SUCCESS"
            /\ setup.preempt => ~setup.again
            /\ \A other \in Nodes \ {n} : started[other] = 0
         => /\ address[n].coordinator = OwnAddress
            /\ Role[n] < ListSize => list[Role[n]] = address[n].node]_vars

(* When callbacks do not interrupt state functions, a device that waits for *)
(* an acknowledgement still has the message queued or the callback pending. *)
AckNoticed ==
    ~setup.preempt =>
        \A d \in Devices, phase \in Phases :
            main[d] = "execute" /\ state[d] = <<phase, "WAIT_ACK">>
                => txq[d] # <<>> \/ \E i \in DOMAIN cb[d] : cb[d][i] = Sent

(* When main loops keep up with the slots and nobody gives up, both ends    *)
(* finish: with success, or both refusing when their codes differ.          *)
Ended(e) == \A d \in Devices : event[d] = e
PairingEnds ==
    setup.attentive =>
        <>Ended(IF \A d \in Devices : setup.code[d] = setup.code[Coord]
                THEN "SUCCESS" ELSE "INVALID_APP_CODE")
=============================================================================
