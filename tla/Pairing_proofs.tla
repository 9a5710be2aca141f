--------------------------- MODULE Pairing_proofs ---------------------------
(***************************************************************************)
(* Proofs about Pairing, for any number of nodes, roles, addresses and      *)
(* procedures.                                                              *)
(*   - The discovery list never holds an address twice: once the            *)
(*     coordinator entered its procedure, entry 0 holds its own address, so *)
(*     no node is given that one; and no message of a node ever has a zero  *)
(*     where the coordinator reads a role, so that entry stays.             *)
(*   - An acknowledgement that did not interrupt a state function is        *)
(*     noticed, because a device has at most one message under way.         *)
(*   - A success needs a node with the coordinator's application code.      *)
(*   - The coordinator succeeds only with an address that a node has taken  *)
(*     over: while it has an identification in hand or has given an         *)
(*     address, every answer under way is to that address.                  *)
(***************************************************************************)
EXTENDS Pairing, SequenceTheorems, TLAPS

Cmds == (Phases \X {"MESSAGE", "RESPONSE"}) \cup {NoCommand, <<"SENT", "NONE">>}
Places == {"idle", "execute", "sent", "clear", "copy", "deinit"}
MsgType == [cmd : Cmds, first : Nat, rest : Nat \X Nat]
QueuedType == [msg : MsgType, got : BOOLEAN]

Control ==
    /\ main \in [Devices -> Places]
    /\ state \in [Devices -> States]
    /\ event \in [Devices -> Events]
    /\ action \in [Devices -> Nat]
Data ==
    /\ setup \in Setups
    /\ box \in [Devices -> [cmd : Cmds, first : Nat, rest : Nat \X Nat]]
    /\ address \in [Devices -> [pan : Nat, coordinator : Nat, node : Nat]]
    /\ list \in [0..ListSize - 1 -> Nat]
Queues ==
    /\ txq \in [Devices -> Seq(QueuedType)]
    /\ cb \in [Devices -> Seq(MsgType)]

(* From the coordinator's entry on, its own address is in entry 0; before,  *)
(* the list is empty.                                                       *)
OwnFirst ==
    /\ state[Coord] # <<"ENTER", "ONCE">> => list[0] = OwnAddress
    /\ list[0] # OwnAddress => \A r \in DOMAIN list : list[r] = 0

(* The second byte is not 0 in any message of a node: when it is about to   *)
(* be sent, queued, in a pending callback, and in the mailbox.              *)
AnswersSet ==
    \A n \in Nodes :
        state[n] \in {<<"AUTH", "SEND">>, <<"ADDR", "SEND">>} => action[n] # 0
QueuedNonzero ==
    \A n \in Nodes : \A i \in 1..Len(txq[n]) : txq[n][i].msg.first # 0
PendingNonzero ==
    \A i \in 1..Len(cb[Coord]) : cb[Coord][i] = Sent \/ cb[Coord][i].first # 0
BoxNonzero ==
    box[Coord].cmd # NoCommand \/ main[Coord] \in {"clear", "copy"} => box[Coord].first # 0

IInv ==
    /\ Control /\ Data /\ Queues
    /\ OwnFirst /\ DistinctAddresses
    /\ AnswersSet /\ QueuedNonzero /\ PendingNonzero /\ BoxNonzero

(* The coordinator is a device with an address of its own.                  *)
LEMMA Constants ==
    /\ Coord \in Devices /\ Nodes \subseteq Devices /\ Coord \notin Nodes
    /\ \A d \in Devices : d # Coord => d \in Nodes
    /\ OwnAddress \in Nat \ {0}
    /\ 0 \in 0..ListSize - 1 /\ ListSize \in Nat
    /\ Role \in [Nodes -> Nat \ {0}] /\ UniqueId \in [Devices -> Nat \ {0}] /\ PanId \in Nat
  BY PairingAssumption DEF Devices, OwnAddress

LEMMA SentIsMsg == Sent \in MsgType
  BY DEF Sent, MsgType, Cmds, Short

LEMMA InitInv == ASSUME Init PROVE IInv
  <1>1. Control
    BY DEF Init, Control, Places, States, Events, ActionNone
  <1>2. Data
    <2>1. box \in [Devices -> [cmd : Cmds, first : Nat, rest : Nat \X Nat]]
      BY DEF Init, Cmds
    <2>2. setup \in Setups /\ list \in [0..ListSize - 1 -> Nat]
      BY DEF Init
    <2>3. address \in [Devices -> [pan : Nat, coordinator : Nat, node : Nat]]
      BY DEF Init, NoAddress
    <2>4. QED
      BY <2>1, <2>2, <2>3 DEF Data
  <1>3. Queues
    BY DEF Init, Queues
  <1>4. OwnFirst /\ DistinctAddresses
    BY Constants DEF Init, OwnFirst, DistinctAddresses
  <1>5. AnswersSet
    <2>1. \A n \in Nodes : state[n] = <<"ENTER", "ONCE">>
      BY Constants DEF Init
    <2>2. QED
      BY <2>1 DEF AnswersSet
  <1>6. QueuedNonzero /\ PendingNonzero
    <2>1. \A d \in Devices : txq[d] = <<>> /\ cb[d] = <<>>
      BY DEF Init
    <2>2. QED
      BY <2>1, Constants DEF QueuedNonzero, PendingNonzero
  <1>7. BoxNonzero
    <2>1. box[Coord].cmd = NoCommand /\ main[Coord] = "idle"
      BY Constants DEF Init
    <2>2. QED
      BY <2>1 DEF BoxNonzero
  <1>8. QED
    BY <1>1, <1>2, <1>3, <1>4, <1>5, <1>6, <1>7 DEF IInv

(* The end of an iteration changes only the event and the loop's place.     *)
LEMMA Ending ==
    ASSUME Control, NEW d \in Devices, NEW e \in Events, EndIteration(d, e)
    PROVE  /\ event' \in [Devices -> Events] /\ main' \in [Devices -> Places]
           /\ main'[d] \notin {"clear", "copy"}
           /\ \A x \in Devices : x # d => main'[x] = main[x]
  BY DEF EndIteration, Control, Places, Events

(* Writing an address that no other entry has keeps addresses distinct.     *)
LEMMA AddKeepsDistinct ==
    ASSUME Data, DistinctAddresses, NEW r \in Nat, NEW a \in Nat \ {0},
           list' = AddedToList(r, a),
           \A s \in DOMAIN list : s # r => list[s] # a
    PROVE  /\ list' \in [0..ListSize - 1 -> Nat]
           /\ DistinctAddresses'
  BY DEF Data, DistinctAddresses, AddedToList

LEMMA StartInv ==
    ASSUME IInv, NEW d \in Devices, Start(d) PROVE IInv'
  <1>1. Control'
    BY DEF IInv, Control, Start, Places, States, Events
  <1>2. Data' /\ Queues'
    BY DEF IInv, Data, Queues, Start, NoAddress
  <1>3. OwnFirst' /\ DistinctAddresses'
    BY Constants DEF IInv, Control, OwnFirst, DistinctAddresses, Start, OwnAddress
  <1>4. AnswersSet'
    BY Constants DEF IInv, Control, AnswersSet, Start
  <1>5. QueuedNonzero' /\ PendingNonzero' /\ BoxNonzero'
    BY Constants DEF IInv, Control, QueuedNonzero, PendingNonzero, BoxNonzero, Start
  <1>6. QED
    BY <1>1, <1>2, <1>3, <1>4, <1>5 DEF IInv

(* A receiver that starts over leaves the content of the other end's queue. *)
LEMMA ForgetKeeps ==
    ASSUME IInv, NEW d \in Devices, Forget(d)
    PROVE  Queues' /\ QueuedNonzero' /\ PendingNonzero'
  <1>1. ASSUME NEW e \in Devices
        PROVE  /\ txq'[e] \in Seq(QueuedType)
               /\ Len(txq'[e]) <= Len(txq[e])
               /\ \A i \in 1..Len(txq'[e]) : txq'[e][i].msg = txq[e][i].msg
    <2>0. txq[e] \in Seq(QueuedType)
      BY DEF IInv, Queues
    <2>1. CASE e = d
      BY <2>0, <2>1 DEF Forget
    <2>2. CASE e # d /\ d \in Peer(e)
      <3>0. txq'[e] = [i \in DOMAIN txq[e] |-> [txq[e][i] EXCEPT !.got = FALSE]]
        BY <2>2 DEF Forget
      <3>1. \A i \in DOMAIN txq[e] :
               /\ [txq[e][i] EXCEPT !.got = FALSE] \in QueuedType
               /\ [txq[e][i] EXCEPT !.got = FALSE].msg = txq[e][i].msg
        <4>1. \A i \in DOMAIN txq[e] : txq[e][i] \in QueuedType
          BY <2>0
        <4>2. \A q \in QueuedType : /\ [q EXCEPT !.got = FALSE] \in QueuedType
                                    /\ [q EXCEPT !.got = FALSE].msg = q.msg
          BY DEF QueuedType
        <4>3. QED
          BY <4>1, <4>2
      <3>2. txq'[e] \in [1..Len(txq[e]) -> QueuedType] /\ Len(txq[e]) \in Nat
        <4>1. DOMAIN txq[e] = 1..Len(txq[e]) /\ Len(txq[e]) \in Nat
          BY <2>0
        <4>2. QED
          BY <3>0, <3>1, <4>1
      <3>3. txq'[e] \in Seq(QueuedType) /\ Len(txq'[e]) = Len(txq[e])
        BY <3>2
      <3>4. QED
        BY <2>0, <3>0, <3>1, <3>3
    <2>3. CASE e # d /\ d \notin Peer(e)
      BY <2>0, <2>3 DEF Forget
    <2>4. QED
      BY <2>1, <2>2, <2>3
  <1>2. Queues'
    BY <1>1 DEF Forget, IInv, Queues
  <1>3. QueuedNonzero'
    <2> SUFFICES ASSUME NEW n \in Nodes, NEW i \in 1..Len(txq'[n])
                 PROVE  txq'[n][i].msg.first # 0
      BY DEF QueuedNonzero
    <2>1. n \in Devices
      BY Constants
    <2>2. Len(txq[n]) \in Nat /\ Len(txq'[n]) \in Nat
      BY <1>2, <2>1 DEF IInv, Queues
    <2>3. i \in 1..Len(txq[n])
      BY <1>1, <2>1, <2>2
    <2>4. QED
      BY <1>1, <2>1, <2>3 DEF IInv, QueuedNonzero
  <1>4. PendingNonzero'
    BY Constants DEF Forget, IInv, Queues, PendingNonzero
  <1>5. QED
    BY <1>2, <1>3, <1>4

LEMMA DeinitInv ==
    ASSUME IInv, NEW d \in Devices, Deinit(d) PROVE IInv'
  <1>1. Queues' /\ QueuedNonzero' /\ PendingNonzero'
    BY ForgetKeeps DEF Deinit
  <1>2. Control'
    BY DEF IInv, Control, Deinit, Places
  <1>3. Data' /\ OwnFirst' /\ DistinctAddresses' /\ AnswersSet'
    BY DEF IInv, Data, OwnFirst, DistinctAddresses, AnswersSet, Deinit, OwnAddress
  <1>4. BoxNonzero'
    BY Constants DEF IInv, Control, BoxNonzero, Deinit
  <1>5. QED
    BY <1>1, <1>2, <1>3, <1>4 DEF IInv

LEMMA EnterInv ==
    ASSUME IInv, NEW d \in Devices, Enter(d) PROVE IInv'
  <1>0. /\ event[d] \in Events /\ EndIteration(d, event[d])
        /\ state' = [state EXCEPT ![d] = IF d = Coord THEN <<"AUTH", "SEND">> ELSE <<"AUTH", "WAIT">>]
        /\ UNCHANGED <<setup, action, box, txq, cb>>
    BY DEF IInv, Control, Enter
  <1>1. Control' /\ main'[d] \notin {"clear", "copy"}
        /\ \A x \in Devices : x # d => main'[x] = main[x]
    BY <1>0, Ending DEF IInv, Control, States, Phases, Steps
  <1>2. Queues' /\ QueuedNonzero' /\ PendingNonzero'
    BY <1>0 DEF IInv, Queues, QueuedNonzero, PendingNonzero
  <1>3. AnswersSet'
    BY <1>0, Constants DEF IInv, Control, AnswersSet
  <1>4. BoxNonzero'
    BY <1>0, <1>1, Constants DEF IInv, BoxNonzero
  <1>5. Data' /\ OwnFirst' /\ DistinctAddresses'
    <2>1. CASE d = Coord
      <3>1. list' = AddedToList(0, OwnAddress)
        BY <2>1 DEF Enter
      <3>2. \A s \in DOMAIN list : s # 0 => list[s] # OwnAddress
        BY Constants DEF IInv, Data, OwnFirst, DistinctAddresses
      <3>3. list' \in [0..ListSize - 1 -> Nat] /\ DistinctAddresses'
        BY <3>1, <3>2, AddKeepsDistinct, Constants DEF IInv
      <3>4. OwnFirst'
        BY <3>1, Constants DEF OwnFirst, AddedToList, IInv, Data, OwnAddress
      <3>5. address' \in [Devices -> [pan : Nat, coordinator : Nat, node : Nat]]
        <4>1. /\ address \in [Devices -> [pan : Nat, coordinator : Nat, node : Nat]]
              /\ address' = [address EXCEPT ![d].pan = PanId, ![d].coordinator = OwnAddress]
          BY <2>1 DEF Enter, IInv, Data
        <4>2. QED
          BY <4>1, Constants
      <3>6. setup' \in Setups /\ box' \in [Devices -> [cmd : Cmds, first : Nat, rest : Nat \X Nat]]
        <4>1. setup' = setup /\ box' = box
          BY <1>0
        <4>2. QED
          BY <4>1 DEF IInv, Data
      <3>7. QED
        BY <3>3, <3>4, <3>5, <3>6 DEF Data
    <2>2. CASE d # Coord
      BY <1>0, <2>2, Constants DEF Enter, IInv, Data, Control, OwnFirst, DistinctAddresses, OwnAddress
    <2>3. QED
      BY <2>1, <2>2
  <1>6. QED
    BY <1>1, <1>2, <1>3, <1>4, <1>5 DEF IInv

LEMMA SendMessageInv ==
    ASSUME IInv, NEW d \in Devices, NEW phase \in Phases, SendMessage(d, phase) PROVE IInv'
  <1> DEFINE m == IF d = Coord THEN CoordinatorMessage(phase) ELSE NodeMessage(d, phase)
  <1>0. setup.code \in [Devices -> Nat]
    BY PairingAssumption DEF IInv, Data, SetupType
  <1>1. m \in MsgType
    <2>1. CASE d = Coord
      <3>1. action[Coord] \in Nat /\ setup.code[Coord] \in Nat
            /\ address[Coord] \in [pan : Nat, coordinator : Nat, node : Nat]
        BY <1>0, Constants DEF IInv, Control, Data
      <3>2. QED
        BY <2>1, <3>1 DEF CoordinatorMessage, Ask, Answer, Short, MsgType, Cmds, Phases
    <2>2. CASE d # Coord
      <3>1. action[d] \in Nat /\ Role[d] \in Nat /\ UniqueId[d] \in Nat
        BY <2>2, Constants DEF IInv, Control
      <3>2. QED
        BY <2>2, <3>1 DEF NodeMessage, Ask, Answer, Short, MsgType, Cmds, Phases
    <2>3. QED
      BY <2>1, <2>2
  <1>2. d # Coord => m.first # 0
    BY Constants DEF NodeMessage, Ask, Answer, Phases, IInv, AnswersSet, SendMessage
  <1>3. [msg |-> m, got |-> FALSE] \in QueuedType
    BY <1>1 DEF QueuedType
  <1>4. txq' = [txq EXCEPT ![d] = Append(@, [msg |-> m, got |-> FALSE])]
    BY DEF SendMessage
  <1> HIDE DEF m
  <1>5. Queues'
    BY <1>3, <1>4 DEF SendMessage, IInv, Queues
  <1>6. QueuedNonzero'
    <2> SUFFICES ASSUME NEW n \in Nodes, NEW i \in 1..Len(txq'[n])
                 PROVE  txq'[n][i].msg.first # 0
      BY DEF QueuedNonzero
    <2>1. n \in Devices /\ n # Coord /\ txq[n] \in Seq(QueuedType)
      BY Constants DEF IInv, Queues
    <2>2. CASE n = d
      <3>1. txq'[n] = Append(txq[n], [msg |-> m, got |-> FALSE])
        BY <1>4, <2>1, <2>2 DEF IInv, Queues
      <3>2. CASE i \in 1..Len(txq[n])
        BY <1>3, <2>1, <3>1, <3>2 DEF IInv, QueuedNonzero
      <3>3. CASE i = Len(txq[n]) + 1
        BY <1>2, <1>3, <2>1, <2>2, <3>1, <3>3
      <3>4. QED
        BY <1>3, <2>1, <3>1, <3>2, <3>3
    <2>3. CASE n # d
      BY <1>4, <2>1, <2>3 DEF IInv, Queues, QueuedNonzero
    <2>4. QED
      BY <2>2, <2>3
  <1>7. Control' /\ Data' /\ OwnFirst' /\ DistinctAddresses'
    BY DEF IInv, Control, Data, OwnFirst, DistinctAddresses, SendMessage, Places, OwnAddress
  <1>8. AnswersSet' /\ PendingNonzero'
    BY DEF IInv, AnswersSet, PendingNonzero, SendMessage
  <1>9. BoxNonzero'
    BY Constants DEF IInv, Control, BoxNonzero, SendMessage
  <1>10. QED
    BY <1>5, <1>6, <1>7, <1>8, <1>9 DEF IInv

(* Iterations that change neither the list, the mailbox nor the queues.     *)
LEMMA QuietIteration ==
    ASSUME IInv, NEW d \in Devices, NEW e \in Events, EndIteration(d, e),
           UNCHANGED <<setup, box, address, list, txq, cb>>,
           state' \in [Devices -> States], action' \in [Devices -> Nat],
           state'[Coord] # <<"ENTER", "ONCE">> => state[Coord] # <<"ENTER", "ONCE">>,
           AnswersSet'
    PROVE  IInv'
  <1>1. Control' /\ main'[d] \notin {"clear", "copy"}
        /\ \A x \in Devices : x # d => main'[x] = main[x]
    BY Ending DEF IInv, Control
  <1>2. Data' /\ Queues' /\ DistinctAddresses' /\ QueuedNonzero' /\ PendingNonzero'
    BY DEF IInv, Data, Queues, DistinctAddresses, QueuedNonzero, PendingNonzero
  <1>3. OwnFirst'
    BY DEF IInv, OwnFirst, OwnAddress
  <1>4. BoxNonzero'
    BY <1>1, Constants DEF IInv, BoxNonzero
  <1>5. QED
    BY <1>1, <1>2, <1>3, <1>4 DEF IInv

LEMMA SetWaitForAckInv ==
    ASSUME IInv, NEW d \in Devices, NEW phase \in Phases, SetWaitForAck(d, phase) PROVE IInv'
  <1>1. /\ event[d] \in Events /\ EndIteration(d, event[d])
        /\ UNCHANGED <<setup, action, box, address, list, txq, cb>>
        /\ state[d] = <<phase, "SEND">> /\ state' = [state EXCEPT ![d] = <<phase, "WAIT_ACK">>]
    BY DEF IInv, Control, SetWaitForAck, AfterSend
  <1>2. state' \in [Devices -> States] /\ action' \in [Devices -> Nat]
    BY <1>1 DEF IInv, Control, States, Phases, Steps
  <1>3. state'[Coord] # <<"ENTER", "ONCE">> => state[Coord] # <<"ENTER", "ONCE">>
    BY <1>1, Constants DEF IInv, Control
  <1>4. AnswersSet'
    BY <1>1, Constants DEF IInv, Control, AnswersSet
  <1>5. QED
    BY <1>1, <1>2, <1>3, <1>4, QuietIteration

LEMMA IdleInv ==
    ASSUME IInv, NEW d \in Devices, Idle(d) PROVE IInv'
  <1>1. /\ event[d] \in Events /\ EndIteration(d, event[d])
        /\ UNCHANGED <<setup, state, action, box, address, list, txq, cb>>
    BY DEF IInv, Control, Idle
  <1>2. AnswersSet'
    BY <1>1 DEF IInv, AnswersSet
  <1>3. QED
    BY <1>1, <1>2, QuietIteration DEF IInv, Control

LEMMA TakeActionInv ==
    ASSUME IInv, NEW d \in Devices, NEW phase \in Phases, TakeAction(d, phase) PROVE IInv'
  <1> DEFINE result == IF d = Coord THEN CoordinatorAction(phase, action[d])
                                    ELSE NodeAction(d, phase, action[d])
  <1>1. /\ EndIteration(d, result.event)
        /\ UNCHANGED <<setup, box, address, list, txq, cb>>
        /\ state[d] = <<phase, "ACTION">>
        /\ state' = [state EXCEPT ![d] = result.state]
        /\ action' = [action EXCEPT ![d] = ActionNone]
    BY DEF TakeAction
  <1>2. /\ result.event \in Events /\ result.state \in States
        /\ result.state \notin {<<"ENTER", "ONCE">>, <<"AUTH", "SEND">>}
        /\ d # Coord => result.state # <<"ADDR", "SEND">>
    <2>1. event[d] \in Events /\ state[d] = <<phase, "ACTION">> /\ <<phase, "ACTION">> \in States
      BY <1>1 DEF IInv, Control, States, Steps
    <2>2. /\ Entry(d, NextPhase(phase)) \in States
          /\ Entry(d, NextPhase(phase)) \notin {<<"ENTER", "ONCE">>, <<"AUTH", "SEND">>}
          /\ d # Coord => Entry(d, NextPhase(phase)) # <<"ADDR", "SEND">>
      BY DEF Entry, NextPhase, Asks, States, Phases, Steps
    <2>3. /\ <<"EXIT", "ONCE">> \in States
          /\ <<"EXIT", "ONCE">> \notin {<<"ENTER", "ONCE">>, <<"AUTH", "SEND">>, <<"ADDR", "SEND">>}
          /\ <<phase, "ACTION">> \notin {<<"ENTER", "ONCE">>, <<"AUTH", "SEND">>, <<"ADDR", "SEND">>}
          /\ {"SUCCESS", "INVALID_APP_CODE"} \subseteq Events
      BY DEF States, Phases, Events
    <2>4. CASE d = Coord
      BY <2>1, <2>2, <2>3, <2>4 DEF CoordinatorAction
    <2>5. CASE d # Coord
      BY <2>1, <2>2, <2>3, <2>5 DEF NodeAction
    <2>6. QED
      BY <2>4, <2>5
  <1> HIDE DEF result
  <1>3. state' \in [Devices -> States] /\ action' \in [Devices -> Nat]
    BY <1>1, <1>2 DEF IInv, Control, ActionNone
  <1>4. state'[Coord] # <<"ENTER", "ONCE">> => state[Coord] # <<"ENTER", "ONCE">>
    BY <1>1, Constants DEF IInv, Control
  <1>5. AnswersSet'
    BY <1>1, <1>2, Constants DEF IInv, Control, AnswersSet
  <1>6. QED
    BY <1>1, <1>2, <1>3, <1>4, <1>5, QuietIteration

LEMMA TestCommandInv ==
    ASSUME IInv, NEW d \in Devices, NEW phase \in Phases, TestCommand(d, phase) PROVE IInv'
  <1>1. BoxNonzero'
    BY Constants DEF IInv, Control, BoxNonzero, TestCommand, Expected, NoCommand, Phases
  <1>2. Control' /\ Data' /\ Queues'
    BY DEF IInv, Control, Data, Queues, TestCommand, Places
  <1>3. OwnFirst' /\ DistinctAddresses' /\ AnswersSet' /\ QueuedNonzero' /\ PendingNonzero'
    BY DEF IInv, OwnFirst, DistinctAddresses, AnswersSet, QueuedNonzero, PendingNonzero,
           TestCommand, OwnAddress
  <1>4. QED
    BY <1>1, <1>2, <1>3 DEF IInv

LEMMA ClearCommandInv ==
    ASSUME IInv, NEW d \in Devices, ClearCommand(d) PROVE IInv'
  <1>1. BoxNonzero'
    BY Constants DEF IInv, Control, Data, BoxNonzero, ClearCommand
  <1>2. Control' /\ Queues'
    BY DEF IInv, Control, Queues, ClearCommand, Places
  <1>3. Data'
    <2>1. NoCommand \in Cmds
      BY DEF Cmds
    <2>2. QED
      BY <2>1 DEF IInv, Data, ClearCommand
  <1>4. OwnFirst' /\ DistinctAddresses' /\ AnswersSet' /\ QueuedNonzero' /\ PendingNonzero'
    BY DEF IInv, OwnFirst, DistinctAddresses, AnswersSet, QueuedNonzero, PendingNonzero,
           ClearCommand, OwnAddress
  <1>5. QED
    BY <1>1, <1>2, <1>3, <1>4 DEF IInv

(* What the search finds is on no entry.                                    *)
LEMMA FoundAvailable ==
    ASSUME NEW a, NEW b, IsAvailableFrom(a, b)
    PROVE  \A r \in DOMAIN list : list[r] # b
  BY DEF IsAvailableFrom, Listed

LEMMA CoordinatorReadsKeeps ==
    ASSUME IInv, NEW phase \in Phases, main[Coord] = "copy",
           state[Coord] = <<phase, "WAIT">>, CoordinatorReads(phase)
    PROVE  /\ list' \in [0..ListSize - 1 -> Nat] /\ DistinctAddresses'
           /\ list'[0] = OwnAddress
           /\ action' \in [Devices -> Nat]
           /\ address' \in [Devices -> [pan : Nat, coordinator : Nat, node : Nat]]
           /\ \A n \in Nodes : action'[n] = action[n]
  <1>0. /\ list[0] = OwnAddress /\ list \in [0..ListSize - 1 -> Nat]
        /\ box[Coord].first \in Nat \ {0}
        /\ action \in [Devices -> Nat]
        /\ address \in [Devices -> [pan : Nat, coordinator : Nat, node : Nat]]
    BY Constants, SMTT(30) DEF IInv, OwnFirst, BoxNonzero, Data, Control
  <1>1. CASE phase = "IDENT"
    <2>1. PICK a \in 1..MaxAddress :
             /\ IsAvailableFrom(Generated[box[Coord].rest[1]], a)
             /\ address' = [address EXCEPT ![Coord].node = a]
             /\ list' = AddedToList(box[Coord].first, a)
             /\ action' = [action EXCEPT ![Coord] = ActionSuccess]
      BY <1>1 DEF CoordinatorReads
    <2>2. a \in Nat \ {0}
      BY PairingAssumption
    <2>3. \A r \in DOMAIN list : list[r] # a
      BY <2>1, FoundAvailable
    <2>4. list' \in [0..ListSize - 1 -> Nat] /\ DistinctAddresses'
      BY <1>0, <2>1, <2>2, <2>3, AddKeepsDistinct DEF IInv
    <2>5. list'[0] = OwnAddress
      BY <1>0, <2>1, Constants DEF AddedToList
    <2>6. action' \in [Devices -> Nat] /\ \A n \in Nodes : action'[n] = action[n]
      BY <1>0, <2>1, Constants DEF ActionSuccess
    <2>7. address' \in [Devices -> [pan : Nat, coordinator : Nat, node : Nat]]
      BY <1>0, <2>1, <2>2, Constants
    <2>8. QED
      BY <2>4, <2>5, <2>6, <2>7
  <1>2. CASE phase # "IDENT"
    BY <1>0, <1>2, Constants DEF CoordinatorReads, IInv, DistinctAddresses
  <1>3. QED
    BY <1>1, <1>2

LEMMA NodeReadsKeeps ==
    ASSUME IInv, NEW n \in Nodes, NEW phase \in Phases, NodeReads(n, phase)
    PROVE  /\ list' = list
           /\ action' \in [Devices -> Nat]
           /\ address' \in [Devices -> [pan : Nat, coordinator : Nat, node : Nat]]
           /\ \A x \in Nodes : x # n => action'[x] = action[x]
           /\ phase # "IDENT" => action'[n] # 0
  <1>0. /\ n \in Devices /\ box[n].first \in Nat /\ box[n].rest \in Nat \X Nat
        /\ action \in [Devices -> Nat]
        /\ address \in [Devices -> [pan : Nat, coordinator : Nat, node : Nat]]
    BY Constants DEF IInv, Data, Control
  <1> DEFINE v == CASE phase = "AUTH" -> IF IsCodeValid(n) THEN ActionSuccess ELSE ActionFail
                    [] phase = "IDENT" -> box[n].first
                    [] phase = "ADDR" -> ActionSuccess
  <1>1. v \in Nat /\ (phase # "IDENT" => v # 0)
    BY <1>0 DEF Phases, ActionSuccess, ActionFail
  <1>2. action' = [action EXCEPT ![n] = v] /\ list' = list
    BY DEF NodeReads
  <1> HIDE DEF v
  <1>3. AddressesIn(box[n]) \in [pan : Nat, coordinator : Nat, node : Nat]
    BY <1>0 DEF AddressesIn
  <1>4. address' \in [Devices -> [pan : Nat, coordinator : Nat, node : Nat]]
    BY <1>0, <1>3 DEF NodeReads
  <1>5. QED
    BY <1>0, <1>1, <1>2, <1>4, Constants

LEMMA CopyPayloadInv ==
    ASSUME IInv, NEW d \in Devices, NEW phase \in Phases, CopyPayload(d, phase) PROVE IInv'
  <1> DEFINE next == <<phase, IF Asks(d, phase) THEN "ACTION" ELSE "SEND">>
  <1>1. /\ event[d] \in Events /\ EndIteration(d, event[d])
        /\ main[d] = "copy" /\ state[d] = <<phase, "WAIT">>
        /\ state' = [state EXCEPT ![d] = next]
        /\ setup' = setup /\ box' = box /\ txq' = txq /\ cb' = cb
    BY DEF IInv, Control, CopyPayload
  <1>2. next \in States /\ next # <<"ENTER", "ONCE">>
        /\ (d # Coord /\ next \in {<<"AUTH", "SEND">>, <<"ADDR", "SEND">>} => phase # "IDENT")
    BY DEF States, Phases, Steps, Asks
  <1> HIDE DEF next
  <1>3. /\ list' \in [0..ListSize - 1 -> Nat] /\ DistinctAddresses'
        /\ action' \in [Devices -> Nat]
        /\ address' \in [Devices -> [pan : Nat, coordinator : Nat, node : Nat]]
        /\ \A x \in Nodes : x # d => action'[x] = action[x]
        /\ d # Coord /\ phase # "IDENT" => action'[d] # 0
        /\ d = Coord => list'[0] = OwnAddress
        /\ d # Coord => list' = list
    <2>1. CASE d = Coord
      BY <1>1, <2>1, CoordinatorReadsKeeps, Constants DEF CopyPayload
    <2>2. CASE d # Coord
      <3>1. d \in Nodes /\ NodeReads(d, phase)
        BY <2>2, Constants DEF CopyPayload
      <3>2. QED
        BY <2>2, <3>1, NodeReadsKeeps DEF IInv, Data, DistinctAddresses
    <2>3. QED
      BY <2>1, <2>2
  <1>4. Control' /\ main'[d] \notin {"clear", "copy"}
        /\ \A x \in Devices : x # d => main'[x] = main[x]
    BY <1>1, <1>2, <1>3, Ending DEF IInv, Control
  <1>5. Data'
    BY <1>1, <1>3 DEF IInv, Data
  <1>6. Queues' /\ QueuedNonzero' /\ PendingNonzero'
    BY <1>1 DEF IInv, Queues, QueuedNonzero, PendingNonzero
  <1>7. OwnFirst'
    <2>1. CASE d = Coord
      BY <1>3, <2>1 DEF OwnFirst, OwnAddress
    <2>2. CASE d # Coord
      <3>1. list' = list /\ state'[Coord] = state[Coord]
        BY <1>1, <1>3, <2>2, Constants DEF IInv, Control
      <3>2. QED
        BY <3>1 DEF IInv, OwnFirst, OwnAddress
    <2>3. QED
      BY <2>1, <2>2
  <1>8. AnswersSet'
    BY <1>1, <1>2, <1>3, Constants DEF IInv, Control, AnswersSet
  <1>9. BoxNonzero'
    BY <1>1, <1>4, Constants DEF IInv, BoxNonzero
  <1>10. QED
    BY <1>3, <1>4, <1>5, <1>6, <1>7, <1>8, <1>9 DEF IInv

LEMMA DeliverInv ==
    ASSUME IInv, NEW d \in Devices, NEW e \in Devices, Deliver(d, e) PROVE IInv'
  <1>0. /\ txq[d] \in Seq(QueuedType) /\ txq[d] # <<>> /\ cb[e] \in Seq(MsgType)
        /\ 1 \in 1..Len(txq[d]) /\ txq[d][1] \in QueuedType /\ txq[d][1].msg \in MsgType
    <2>1. /\ txq[d] \in Seq(QueuedType) /\ cb[e] \in Seq(MsgType) /\ txq[d] # <<>>
      BY DEF IInv, Queues, Deliver
    <2>2. 1 \in 1..Len(txq[d]) /\ txq[d][1] \in QueuedType
      BY <2>1
    <2>3. QED
      BY <2>1, <2>2 DEF QueuedType
  <1> DEFINE first == [txq[d][1] EXCEPT !.got = TRUE]
  <1>1. first \in QueuedType /\ first.msg = txq[d][1].msg
    BY <1>0 DEF QueuedType
  <1>2. txq' = [txq EXCEPT ![d] = [txq[d] EXCEPT ![1] = first]]
        /\ cb' = [cb EXCEPT ![e] = Append(@, txq[d][1].msg)]
    BY DEF Deliver
  <1> HIDE DEF first
  <1>3. txq'[d] \in Seq(QueuedType) /\ Len(txq'[d]) = Len(txq[d])
        /\ \A i \in 1..Len(txq[d]) : txq'[d][i].msg = txq[d][i].msg
    BY <1>0, <1>1, <1>2 DEF IInv, Queues
  <1>4. Queues'
    BY <1>0, <1>2, <1>3 DEF IInv, Queues
  <1>5. QueuedNonzero'
    BY <1>2, <1>3, Constants, SMTT(30) DEF IInv, Queues, QueuedNonzero
  <1>6. PendingNonzero'
    <2>1. CASE e = Coord
      <3>1. d \in Nodes
        BY <2>1, Constants DEF Deliver, Peer
      <3>2. txq[d][1].msg.first # 0
        BY <1>0, <3>1 DEF IInv, QueuedNonzero
      <3>3. cb'[Coord] = Append(cb[Coord], txq[d][1].msg)
        BY <1>2, <2>1 DEF IInv, Queues
      <3>4. QED
        BY <1>0, <2>1, <3>2, <3>3 DEF IInv, PendingNonzero
    <2>2. CASE e # Coord
      BY <1>2, <2>2, Constants DEF IInv, Queues, PendingNonzero
    <2>3. QED
      BY <2>1, <2>2
  <1>7. Control' /\ Data' /\ OwnFirst' /\ DistinctAddresses' /\ AnswersSet' /\ BoxNonzero'
    BY DEF Deliver, IInv, Control, Data, OwnFirst, DistinctAddresses, AnswersSet, BoxNonzero,
           OwnAddress
  <1>8. QED
    BY <1>4, <1>5, <1>6, <1>7 DEF IInv

LEMMA AcknowledgeInv ==
    ASSUME IInv, NEW d \in Devices, Acknowledge(d) PROVE IInv'
  <1>0. /\ txq[d] \in Seq(QueuedType) /\ txq[d] # <<>> /\ cb[d] \in Seq(MsgType)
        /\ txq' = [txq EXCEPT ![d] = Tail(@)] /\ cb' = [cb EXCEPT ![d] = Append(@, Sent)]
    BY DEF IInv, Queues, Acknowledge
  <1>1. /\ Tail(txq[d]) \in Seq(QueuedType)
        /\ \A i \in 1..Len(Tail(txq[d])) : /\ i + 1 \in 1..Len(txq[d])
                                           /\ Tail(txq[d])[i] = txq[d][i + 1]
    BY <1>0
  <1>2. Queues'
    BY <1>0, <1>1, SentIsMsg DEF IInv, Queues
  <1>3. QueuedNonzero'
    BY <1>0, <1>1, Constants DEF IInv, Queues, QueuedNonzero
  <1>4. PendingNonzero'
    BY <1>0, Constants, SentIsMsg DEF IInv, Queues, PendingNonzero
  <1>5. Control' /\ Data' /\ OwnFirst' /\ DistinctAddresses' /\ AnswersSet' /\ BoxNonzero'
    BY DEF Acknowledge, IInv, Control, Data, OwnFirst, DistinctAddresses, AnswersSet, BoxNonzero,
           OwnAddress
  <1>6. QED
    BY <1>2, <1>3, <1>4, <1>5 DEF IInv

LEMMA CallbackInv ==
    ASSUME IInv, NEW d \in Devices, Callback(d) PROVE IInv'
  <1>0. /\ cb[d] \in Seq(MsgType) /\ cb[d] # <<>> /\ 1 \in 1..Len(cb[d])
        /\ Head(cb[d]) = cb[d][1] /\ cb[d][1] \in MsgType
        /\ cb' = [cb EXCEPT ![d] = Tail(@)] /\ txq' = txq
        /\ setup' = setup /\ main' = main /\ event' = event /\ action' = action
        /\ address' = address /\ list' = list
    BY DEF IInv, Queues, Callback
  <1>1. Queues' /\ QueuedNonzero' /\ PendingNonzero'
    <2>1. /\ Tail(cb[d]) \in Seq(MsgType)
          /\ \A i \in 1..Len(Tail(cb[d])) : /\ i + 1 \in 1..Len(cb[d])
                                            /\ Tail(cb[d])[i] = cb[d][i + 1]
      BY <1>0
    <2>2. QED
      BY <1>0, <2>1, Constants DEF IInv, Queues, QueuedNonzero, PendingNonzero
  <1>2. /\ state' \in [Devices -> States]
        /\ \A x \in Devices : state'[x] = state[x] \/ (state[x] \in Phases \X {"WAIT_ACK"}
                                  /\ state'[x] \in Phases \X {"WAIT", "ACTION"})
    <2>1. CASE Head(cb[d]) = Sent
      BY <2>1 DEF Callback, SentCallback, WaitsForAck, IInv, Control, States, Steps
    <2>2. CASE Head(cb[d]) # Sent
      BY <2>2 DEF Callback, ReceivedCallback, IInv, Control
    <2>3. QED
      BY <2>1, <2>2
  <1>3. /\ box' \in [Devices -> [cmd : Cmds, first : Nat, rest : Nat \X Nat]]
        /\ \A x \in Devices : box'[x] = box[x] \/ (Head(cb[d]) # Sent /\ x = d
                                                   /\ box'[x].first = Head(cb[d]).first)
    <2>0. box \in [Devices -> [cmd : Cmds, first : Nat, rest : Nat \X Nat]]
      BY DEF IInv, Data
    <2>1. CASE Head(cb[d]) = Sent
      BY <2>0, <2>1 DEF Callback, SentCallback
    <2>2. CASE Head(cb[d]) # Sent
      <3> DEFINE msg == Head(cb[d])
                 new == [cmd |-> msg.cmd, first |-> msg.first,
                         rest |-> IF msg.rest = Short THEN box[d].rest ELSE msg.rest]
      <3>1. msg \in MsgType /\ box' = [box EXCEPT ![d] = new]
        BY <1>0, <2>0, <2>2 DEF Callback, ReceivedCallback
      <3>2. new \in [cmd : Cmds, first : Nat, rest : Nat \X Nat] /\ new.first = msg.first
        BY <2>0, <3>1 DEF MsgType
      <3> HIDE DEF new
      <3>3. QED
        BY <2>0, <2>2, <3>1, <3>2
    <2>3. QED
      BY <2>1, <2>2
  <1>4. Control' /\ Data' /\ DistinctAddresses'
    BY <1>0, <1>2, <1>3 DEF IInv, Control, Data, DistinctAddresses
  <1>5. OwnFirst'
    BY <1>0, <1>2, Constants DEF IInv, OwnFirst, OwnAddress, Phases
  <1>6. AnswersSet'
    BY <1>0, <1>2, Constants, SMTT(30) DEF IInv, AnswersSet, Phases
  <1>7. BoxNonzero'
    BY <1>0, <1>3, Constants DEF IInv, BoxNonzero, PendingNonzero
  <1>8. QED
    BY <1>1, <1>4, <1>5, <1>6, <1>7 DEF IInv

LEMMA NextInv == ASSUME IInv, [Next]_vars PROVE IInv'
  <1>1. CASE UNCHANGED vars
    <2>1. Control' /\ Data' /\ Queues'
      BY <1>1 DEF vars, IInv, Control, Data, Queues
    <2>2. OwnFirst' /\ DistinctAddresses' /\ AnswersSet' /\ QueuedNonzero'
          /\ PendingNonzero' /\ BoxNonzero'
      BY <1>1 DEF vars, IInv, OwnFirst, DistinctAddresses, AnswersSet, QueuedNonzero,
                  PendingNonzero, BoxNonzero, OwnAddress
    <2>3. QED
      BY <2>1, <2>2 DEF IInv
  <1>2. ASSUME NEW d \in Devices, MainLoop(d) PROVE IInv'
    BY <1>2, DeinitInv, EnterInv, IdleInv, ClearCommandInv, SendMessageInv, SetWaitForAckInv,
       TestCommandInv, CopyPayloadInv, TakeActionInv DEF MainLoop
  <1>3. QED
    BY <1>1, <1>2, StartInv, CallbackInv, AcknowledgeInv, DeliverInv DEF Next

(* The invariant holds of every behaviour.                                  *)
THEOREM Invariance == Spec => []IInv
  BY InitInv, NextInv, PTL DEF Spec

(* No two entries of the discovery list hold the same address, for any      *)
(* number of nodes, procedures and interrupted steps.                       *)
THEOREM AddressesStayDistinct == Spec => []DistinctAddresses
  <1>1. IInv => DistinctAddresses
    BY DEF IInv
  <1>2. QED
    BY <1>1, Invariance, PTL

-----------------------------------------------------------------------------
(* The message in flight.                                                   *)
PendingSent(d) == \E i \in 1..Len(cb[d]) : cb[d][i] = Sent
AtAck(d) == state[d] \in Phases \X {"WAIT_ACK"}
InFlight(d) == txq[d] # <<>> \/ PendingSent(d)

(* A device has one message in its queue or one acknowledgement to notice,  *)
(* never both, and only from the send to the end of the wait; when its      *)
(* callbacks cannot come before that wait it has one of them throughout.    *)
Flight(d) ==
    /\ Len(txq[d]) <= 1
    /\ \A i \in 1..Len(txq[d]) : txq[d][i].msg # Sent
    /\ txq[d] # <<>> => ~PendingSent(d)
    /\ \A i, j \in 1..Len(cb[d]) : cb[d][i] = Sent /\ cb[d][j] = Sent => i = j
    /\ InFlight(d) => main[d] = "sent" \/ AtAck(d)
    /\ ~setup.preempt /\ (main[d] = "sent" \/ (main[d] = "execute" /\ AtAck(d)))
         => InFlight(d)

(* Where the main loop is and the state it is in; a device that is not      *)
(* pairing has nothing in flight.                                           *)
Place(d) ==
    /\ main[d] = "idle" => txq[d] = <<>> /\ cb[d] = <<>>
    /\ main[d] = "sent" => state[d] \in Phases \X {"SEND"}
    /\ main[d] \in {"clear", "copy"} => state[d] \in Phases \X {"WAIT"}

FlightInv == \A d \in Devices : Flight(d) /\ Place(d)

(* A device that nothing happens to.                                        *)
LEMMA FlightSame ==
    ASSUME NEW d \in Devices, Flight(d), Place(d),
           setup' = setup, txq'[d] = txq[d], cb'[d] = cb[d], main'[d] = main[d],
           state'[d] = state[d]
    PROVE  Flight(d)' /\ Place(d)'
  BY DEF Flight, Place, InFlight, PendingSent, AtAck

(* The device executes something that leaves its queue and callbacks alone. *)
LEMMA FlightMoves ==
    ASSUME NEW d \in Devices, Flight(d), ~InFlight(d),
           setup' = setup, txq'[d] = txq[d], cb'[d] = cb[d],
           main'[d] # "sent", ~AtAck(d)'
    PROVE  Flight(d)'
  BY DEF Flight, InFlight, PendingSent, AtAck

(* A message arrives: it is not taken for an acknowledgement.               *)
LEMMA FlightReceived ==
    ASSUME NEW d \in Devices, Flight(d), Place(d), main[d] # "idle",
           cb[d] \in Seq(MsgType), NEW m \in MsgType, m # Sent,
           setup' = setup, txq'[d] = txq[d], cb'[d] = Append(cb[d], m),
           main'[d] = main[d], state'[d] = state[d]
    PROVE  Flight(d)' /\ Place(d)'
  <1>1. /\ Len(cb'[d]) = Len(cb[d]) + 1 /\ cb'[d][Len(cb[d]) + 1] = m /\ Len(cb[d]) \in Nat
        /\ \A i \in 1..Len(cb[d]) : cb'[d][i] = cb[d][i] /\ i \in 1..Len(cb'[d])
        /\ \A i \in 1..Len(cb'[d]) : i = Len(cb[d]) + 1 \/ i \in 1..Len(cb[d])
    OBVIOUS
  <1>2. PendingSent(d)' <=> PendingSent(d)
    BY <1>1 DEF PendingSent
  <1>3. \A i, j \in 1..Len(cb'[d]) : cb'[d][i] = Sent /\ cb'[d][j] = Sent => i = j
    BY <1>1 DEF Flight
  <1>4. Flight(d)'
    BY <1>2, <1>3 DEF Flight, InFlight, AtAck
  <1>5. QED
    BY <1>4 DEF Place

LEMMA FlightInit == Init => FlightInv
  <1> SUFFICES ASSUME Init, NEW d \in Devices PROVE Flight(d) /\ Place(d)
    BY DEF FlightInv
  <1>1. /\ txq[d] = <<>> /\ cb[d] = <<>> /\ main[d] = "idle"
    BY DEF Init
  <1>2. ~PendingSent(d)
    BY <1>1 DEF PendingSent
  <1>3. QED
    BY <1>1, <1>2 DEF Flight, Place, InFlight

(* The main loop's steps, but for the end of a procedure and for sending.   *)
LEMMA FlightLoop ==
    ASSUME IInv, FlightInv, NEW d \in Devices,
           \/ Start(d) \/ Enter(d) \/ Idle(d) \/ ClearCommand(d)
           \/ \E phase \in Phases : \/ SetWaitForAck(d, phase) \/ TestCommand(d, phase)
                                    \/ CopyPayload(d, phase) \/ TakeAction(d, phase)
    PROVE  Flight(d)' /\ Place(d)'
  <1>1. Flight(d) /\ Place(d)
    BY DEF FlightInv
  <1>2. /\ setup' = setup /\ txq' = txq /\ cb' = cb
    BY DEF Start, Enter, Idle, ClearCommand, SetWaitForAck, TestCommand, CopyPayload, TakeAction
  <1>3. InFlight(d)' <=> InFlight(d)
    BY <1>2 DEF InFlight, PendingSent
  <1>4. main \in [Devices -> Places] /\ state \in [Devices -> States]
    BY DEF IInv, Control
  <1>5. CASE Start(d)
    <2>1. main[d] = "idle" /\ main'[d] = "execute" /\ state'[d] = <<"ENTER", "ONCE">>
      BY <1>4, <1>5 DEF Start
    <2>2. ~InFlight(d)
      BY <1>1, <2>1 DEF Place, InFlight, PendingSent
    <2>3. QED
      BY <1>1, <1>2, <2>1, <2>2, FlightMoves DEF AtAck, Place, Phases
  <1>6. CASE Enter(d)
    <2>1. /\ main[d] = "execute" /\ state[d] = <<"ENTER", "ONCE">>
          /\ state'[d] \in {<<"AUTH", "SEND">>, <<"AUTH", "WAIT">>}
          /\ main'[d] \in {"execute", "deinit"}
      BY <1>4, <1>6 DEF Enter, EndIteration
    <2>2. ~InFlight(d)
      BY <1>1, <2>1 DEF Flight, AtAck, Phases
    <2>3. QED
      BY <1>1, <1>2, <2>1, <2>2, FlightMoves DEF AtAck, Place, Phases
  <1>7. CASE Idle(d)
    <2>1. main[d] = "execute" /\ main'[d] \in {"execute", "deinit"} /\ state' = state
      BY <1>4, <1>7 DEF Idle, EndIteration
    <2>2. QED
      BY <1>1, <1>2, <1>3, <2>1 DEF Flight, Place, AtAck, PendingSent
  <1>8. CASE ClearCommand(d)
    <2>1. main[d] = "clear" /\ main'[d] = "copy" /\ state' = state
      BY <1>4, <1>8 DEF ClearCommand
    <2>2. QED
      BY <1>1, <1>2, <1>3, <2>1 DEF Flight, Place, AtAck, PendingSent
  <1>9. ASSUME NEW phase \in Phases, SetWaitForAck(d, phase) PROVE Flight(d)' /\ Place(d)'
    <2>1. /\ main[d] = "sent" /\ main'[d] \in {"execute", "deinit"}
          /\ state'[d] = <<phase, "WAIT_ACK">>
      BY <1>4, <1>9 DEF SetWaitForAck, EndIteration, AfterSend
    <2>2. QED
      BY <1>1, <1>2, <1>3, <2>1 DEF Flight, Place, AtAck, PendingSent
  <1>10. ASSUME NEW phase \in Phases, TestCommand(d, phase) PROVE Flight(d)' /\ Place(d)'
    <2>1. /\ main[d] = "execute" /\ main'[d] = "clear" /\ state' = state
          /\ state[d] = <<phase, "WAIT">>
      BY <1>4, <1>10 DEF TestCommand
    <2>2. QED
      BY <1>1, <1>2, <1>3, <2>1 DEF Flight, Place, AtAck, PendingSent
  <1>11. ASSUME NEW phase \in Phases, CopyPayload(d, phase) PROVE Flight(d)' /\ Place(d)'
    <2>1. /\ main[d] = "copy" /\ main'[d] \in {"execute", "deinit"}
          /\ state[d] = <<phase, "WAIT">>
          /\ state'[d] \in {<<phase, "ACTION">>, <<phase, "SEND">>}
      BY <1>4, <1>11 DEF CopyPayload, EndIteration
    <2>2. ~InFlight(d)
      BY <1>1, <2>1 DEF Flight, AtAck
    <2>3. QED
      BY <1>1, <1>2, <2>1, <2>2, FlightMoves DEF AtAck, Place
  <1>12. ASSUME NEW phase \in Phases, TakeAction(d, phase) PROVE Flight(d)' /\ Place(d)'
    <2>1. /\ main[d] = "execute" /\ main'[d] \in {"execute", "deinit"}
          /\ state[d] = <<phase, "ACTION">>
      BY <1>4, <1>12 DEF TakeAction, EndIteration
    <2>2. state'[d] \notin Phases \X {"WAIT_ACK"}
      BY <1>4, <1>12 DEF TakeAction, CoordinatorAction, NodeAction, Entry, Asks
    <2>3. ~InFlight(d)
      BY <1>1, <2>1 DEF Flight, AtAck
    <2>4. QED
      BY <1>1, <1>2, <2>1, <2>2, <2>3, FlightMoves DEF AtAck, Place
  <1>13. QED
    BY <1>5, <1>6, <1>7, <1>8, <1>9, <1>10, <1>11, <1>12

(* A device whose messages are the same, some marked as not received.       *)
LEMMA FlightMarked ==
    ASSUME NEW d \in Devices, Flight(d), Place(d),
           setup' = setup, cb'[d] = cb[d], main'[d] = main[d], state'[d] = state[d],
           txq[d] \in Seq(QueuedType), txq'[d] \in Seq(QueuedType),
           Len(txq'[d]) = Len(txq[d]),
           \A i \in 1..Len(txq[d]) : txq'[d][i].msg = txq[d][i].msg
    PROVE  Flight(d)' /\ Place(d)'
  <1>1. txq'[d] = <<>> <=> txq[d] = <<>>
    OBVIOUS
  <1>2. InFlight(d)' <=> InFlight(d)
    BY <1>1 DEF InFlight, PendingSent
  <1>3. \A i \in 1..Len(txq'[d]) : txq'[d][i].msg # Sent
    BY DEF Flight
  <1>4. Flight(d)'
    BY <1>1, <1>2, <1>3 DEF Flight, PendingSent, AtAck
  <1>5. QED
    BY <1>1, <1>4 DEF Place

(* The queues after a device has forgotten its own.                         *)
LEMMA ForgetMarks ==
    ASSUME IInv, NEW d \in Devices, Forget(d), NEW e \in Devices, e # d
    PROVE  /\ txq'[e] \in Seq(QueuedType) /\ Len(txq'[e]) = Len(txq[e])
           /\ \A i \in 1..Len(txq[e]) : txq'[e][i].msg = txq[e][i].msg
  <1>1. txq[e] \in Seq(QueuedType)
    BY DEF IInv, Queues
  <1>2. CASE d \in Peer(e)
    <2>1. txq'[e] = [i \in DOMAIN txq[e] |-> [txq[e][i] EXCEPT !.got = FALSE]]
      BY <1>2 DEF Forget
    <2>2. \A q \in QueuedType : /\ [q EXCEPT !.got = FALSE] \in QueuedType
                                /\ [q EXCEPT !.got = FALSE].msg = q.msg
      BY DEF QueuedType
    <2>3. DOMAIN txq[e] = 1..Len(txq[e]) /\ Len(txq[e]) \in Nat
          /\ \A i \in DOMAIN txq[e] : txq[e][i] \in QueuedType
      BY <1>1
    <2>4. txq'[e] \in [1..Len(txq[e]) -> QueuedType]
      BY <2>1, <2>2, <2>3
    <2>5. QED
      BY <2>1, <2>2, <2>3, <2>4
  <1>3. CASE d \notin Peer(e)
    BY <1>1, <1>3 DEF Forget
  <1>4. QED
    BY <1>2, <1>3

LEMMA FlightDeinit ==
    ASSUME IInv, FlightInv, NEW d \in Devices, Deinit(d) PROVE FlightInv'
  <1>1. /\ Forget(d) /\ main' = [main EXCEPT ![d] = "idle"] /\ setup' = setup /\ state' = state
        /\ cb' = [cb EXCEPT ![d] = <<>>] /\ txq'[d] = <<>>
    BY DEF Deinit, Forget
  <1>2. cb'[d] = <<>> /\ main'[d] = "idle"
    BY <1>1 DEF IInv, Queues, Control
  <1>3. Flight(d)' /\ Place(d)'
    <2>1. ~InFlight(d)' /\ ~PendingSent(d)'
      BY <1>1, <1>2 DEF InFlight, PendingSent
    <2>2. QED
      BY <1>1, <1>2, <2>1 DEF Flight, Place
  <1>4. ASSUME NEW e \in Devices, e # d PROVE Flight(e)' /\ Place(e)'
    <2>1. /\ cb'[e] = cb[e] /\ main'[e] = main[e] /\ state'[e] = state[e]
          /\ txq[e] \in Seq(QueuedType)
      BY <1>1, <1>4 DEF IInv, Queues, Control
    <2>2. QED
      BY <1>1, <1>4, <2>1, ForgetMarks, FlightMarked DEF FlightInv
  <1>5. QED
    BY <1>3, <1>4 DEF FlightInv

(* Another device's step.                                                   *)
LEMMA FlightOthers ==
    ASSUME FlightInv, NEW d \in Devices, Flight(d)' /\ Place(d)', setup' = setup,
           \A e \in Devices : e # d => /\ txq'[e] = txq[e] /\ cb'[e] = cb[e]
                                       /\ main'[e] = main[e] /\ state'[e] = state[e]
    PROVE  FlightInv'
  <1>1. ASSUME NEW e \in Devices, e # d PROVE Flight(e)' /\ Place(e)'
    BY <1>1, FlightSame DEF FlightInv
  <1>2. QED
    BY <1>1 DEF FlightInv

LEMMA FlightSend ==
    ASSUME IInv, FlightInv, NEW d \in Devices, NEW phase \in Phases, SendMessage(d, phase)
    PROVE  FlightInv'
  <1> DEFINE m == IF d = Coord THEN CoordinatorMessage(phase) ELSE NodeMessage(d, phase)
  <1>1. Flight(d) /\ Place(d)
    BY DEF FlightInv
  <1>2. /\ main[d] = "execute" /\ state[d] = <<phase, "SEND">>
        /\ txq' = [txq EXCEPT ![d] = Append(@, [msg |-> m, got |-> FALSE])]
        /\ main' = [main EXCEPT ![d] = "sent"]
        /\ setup' = setup /\ state' = state /\ cb' = cb
    BY DEF SendMessage
  <1>3. m # Sent
    <2>1. m.cmd \in Phases \X {"MESSAGE", "RESPONSE"}
      BY DEF CoordinatorMessage, NodeMessage, Ask, Answer, Phases
    <2>2. Sent.cmd = <<"SENT", "NONE">>
      BY DEF Sent
    <2>3. QED
      BY <2>1, <2>2 DEF Phases
  <1> HIDE DEF m
  <1>4. ~InFlight(d)
    BY <1>1, <1>2 DEF Flight, AtAck
  <1>5. txq[d] = <<>> /\ ~PendingSent(d)
    BY <1>4 DEF InFlight
  <1>6. txq'[d] = <<[msg |-> m, got |-> FALSE]>> /\ main'[d] = "sent" /\ ~PendingSent(d)'
        /\ state'[d] = <<phase, "SEND">>
    <2>1. txq'[d] = Append(<<>>, [msg |-> m, got |-> FALSE])
      BY <1>2, <1>5 DEF IInv, Queues
    <2>2. main'[d] = "sent" /\ state'[d] = <<phase, "SEND">> /\ ~PendingSent(d)'
      BY <1>2, <1>5 DEF IInv, Control, PendingSent
    <2>3. \A x : Append(<<>>, x) = <<x>>
      OBVIOUS
    <2>4. QED
      BY <2>1, <2>2, <2>3
  <1>7. Flight(d)'
    <2>1. Len(txq'[d]) = 1 /\ txq'[d] # <<>> /\ txq'[d][1].msg = m
      BY <1>6
    <2>2. QED
      BY <1>2, <1>3, <1>6, <2>1 DEF Flight, InFlight, PendingSent
  <1>8. Place(d)'
    BY <1>6 DEF Place
  <1>9. QED
    BY <1>2, <1>7, <1>8, FlightOthers DEF IInv, Queues, Control

LEMMA FlightAcknowledge ==
    ASSUME IInv, FlightInv, NEW d \in Devices, Acknowledge(d) PROVE FlightInv'
  <1>1. Flight(d) /\ Place(d) /\ txq[d] \in Seq(QueuedType) /\ cb[d] \in Seq(MsgType)
    BY DEF FlightInv, IInv, Queues
  <1>2. /\ main[d] # "idle" /\ txq[d] # <<>>
        /\ txq' = [txq EXCEPT ![d] = Tail(@)] /\ cb' = [cb EXCEPT ![d] = Append(@, Sent)]
        /\ setup' = setup /\ main' = main /\ state' = state
    BY DEF Acknowledge, Connected
  <1>3. txq'[d] = <<>> /\ cb'[d] = Append(cb[d], Sent)
    <2>1. Len(txq[d]) <= 1
      BY <1>1 DEF Flight
    <2>2. Tail(txq[d]) \in Seq(QueuedType) /\ Len(Tail(txq[d])) = 0
      <3>1. Len(txq[d]) \in Nat \ {0} /\ Tail(txq[d]) \in Seq(QueuedType)
            /\ Len(Tail(txq[d])) = Len(txq[d]) - 1
        BY <1>1, <1>2, EmptySeq, HeadTailProperties
      <3>2. ASSUME NEW n \in Nat \ {0}, n <= 1 PROVE n - 1 = 0
        BY <3>2
      <3>3. Len(Tail(txq[d])) = 0
        BY <2>1, <3>1, <3>2, Zenon
      <3>4. QED
        BY <3>1, <3>3, Zenon
    <2>3. Tail(txq[d]) = <<>>
      BY <2>2, EmptySeq
    <2>4. QED
      BY <1>2, <2>3 DEF IInv, Queues
  <1>4. /\ Len(cb'[d]) = Len(cb[d]) + 1 /\ cb'[d][Len(cb[d]) + 1] = Sent /\ Len(cb[d]) \in Nat
        /\ \A i \in 1..Len(cb[d]) : cb'[d][i] = cb[d][i]
        /\ \A i \in 1..Len(cb'[d]) : i = Len(cb[d]) + 1 \/ i \in 1..Len(cb[d])
    BY <1>1, <1>3, SentIsMsg
  <1>5. ~PendingSent(d)
    BY <1>1, <1>2 DEF Flight
  <1>6. PendingSent(d)'
    BY <1>4 DEF PendingSent
  <1>7. \A i, j \in 1..Len(cb'[d]) : cb'[d][i] = Sent /\ cb'[d][j] = Sent => i = j
    BY <1>4, <1>5 DEF PendingSent
  <1>8. InFlight(d) /\ InFlight(d)'
    BY <1>2, <1>6 DEF InFlight
  <1>9. Flight(d)'
    <2>1. Len(txq'[d]) <= 1 /\ \A i \in 1..Len(txq'[d]) : txq'[d][i].msg # Sent
      BY <1>3
    <2>2. main'[d] = "sent" \/ AtAck(d)'
      BY <1>1, <1>2, <1>8 DEF Flight, AtAck
    <2>3. QED
      BY <1>3, <1>7, <1>8, <2>1, <2>2 DEF Flight
  <1>10. Place(d)'
    BY <1>1, <1>2 DEF Place
  <1>11. QED
    BY <1>2, <1>9, <1>10, FlightOthers DEF IInv, Queues

LEMMA FlightDeliver ==
    ASSUME IInv, FlightInv, NEW d \in Devices, NEW e \in Devices, Deliver(d, e)
    PROVE  FlightInv'
  <1> DEFINE first == [txq[d][1] EXCEPT !.got = TRUE]
  <1>1. /\ Flight(d) /\ Place(d) /\ Flight(e) /\ Place(e)
        /\ txq[d] \in Seq(QueuedType) /\ cb[e] \in Seq(MsgType)
    BY DEF FlightInv, IInv, Queues
  <1>2. /\ main[e] # "idle" /\ txq[d] # <<>> /\ e # d
        /\ txq' = [txq EXCEPT ![d] = [txq[d] EXCEPT ![1] = first]]
        /\ cb' = [cb EXCEPT ![e] = Append(@, txq[d][1].msg)]
        /\ setup' = setup /\ main' = main /\ state' = state
    BY Constants DEF Deliver, Connected, Peer
  <1>3. 1 \in 1..Len(txq[d]) /\ txq[d][1] \in QueuedType
    BY <1>1, <1>2
  <1>4. first \in QueuedType /\ first.msg = txq[d][1].msg /\ txq[d][1].msg \in MsgType
    BY <1>3 DEF QueuedType
  <1> HIDE DEF first
  <1>5. Flight(d)' /\ Place(d)'
    <2>1. txq'[d] \in Seq(QueuedType) /\ Len(txq'[d]) = Len(txq[d])
          /\ \A i \in 1..Len(txq[d]) : txq'[d][i].msg = txq[d][i].msg
      BY <1>1, <1>2, <1>3, <1>4 DEF IInv, Queues
    <2>2. cb'[d] = cb[d] /\ main'[d] = main[d] /\ state'[d] = state[d]
      BY <1>2 DEF IInv, Queues
    <2>3. QED
      BY <1>1, <1>2, <2>1, <2>2, FlightMarked
  <1>6. Flight(e)' /\ Place(e)'
    <2>1. txq[d][1].msg # Sent
      BY <1>1, <1>3 DEF Flight
    <2>2. cb'[e] = Append(cb[e], txq[d][1].msg) /\ txq'[e] = txq[e]
      BY <1>2 DEF IInv, Queues
    <2>3. QED
      BY <1>1, <1>2, <1>4, <2>1, <2>2, FlightReceived
  <1>7. ASSUME NEW x \in Devices, x # d, x # e PROVE Flight(x)' /\ Place(x)'
    BY <1>2, <1>7, FlightSame DEF FlightInv, IInv, Queues
  <1>8. QED
    BY <1>5, <1>6, <1>7 DEF FlightInv

LEMMA FlightCallback ==
    ASSUME IInv, FlightInv, NEW d \in Devices, Callback(d) PROVE FlightInv'
  <1>1. Flight(d) /\ Place(d) /\ cb[d] \in Seq(MsgType)
    BY DEF FlightInv, IInv, Queues
  <1>2. /\ main[d] # "idle" /\ cb[d] # <<>> /\ cb' = [cb EXCEPT ![d] = Tail(@)]
        /\ setup.preempt \/ main[d] \in {"execute", "deinit"}
        /\ setup' = setup /\ main' = main /\ txq' = txq
    BY DEF Callback, Connected
  <1>3. /\ Len(cb[d]) \in Nat \ {0} /\ Head(cb[d]) = cb[d][1] /\ 1 \in 1..Len(cb[d])
        /\ Len(cb'[d]) = Len(cb[d]) - 1
        /\ \A i \in 1..Len(cb'[d]) : cb'[d][i] = cb[d][i + 1] /\ i + 1 \in 1..Len(cb[d])
        /\ \A j \in 2..Len(cb[d]) : cb'[d][j - 1] = cb[d][j] /\ j - 1 \in 1..Len(cb'[d])
    <2>1. cb'[d] = Tail(cb[d])
      BY <1>2 DEF IInv, Queues
    <2>2. Len(cb[d]) \in Nat \ {0} /\ Head(cb[d]) = cb[d][1] /\ 1 \in 1..Len(cb[d])
      BY <1>1, <1>2
    <2>3. Len(cb'[d]) = Len(cb[d]) - 1
          /\ \A i \in 1..Len(cb'[d]) : cb'[d][i] = cb[d][i + 1]
      BY <1>1, <1>2, <2>1, HeadTailProperties, ZenonT(30)
    <2>4. QED
      BY <2>2, <2>3
  <1>4. \A i, j \in 1..Len(cb'[d]) : cb'[d][i] = Sent /\ cb'[d][j] = Sent => i = j
    <2> SUFFICES ASSUME NEW i \in 1..Len(cb'[d]), NEW j \in 1..Len(cb'[d]),
                        cb'[d][i] = Sent, cb'[d][j] = Sent
                 PROVE  i = j
      OBVIOUS
    <2>1. /\ i + 1 \in 1..Len(cb[d]) /\ j + 1 \in 1..Len(cb[d])
          /\ cb[d][i + 1] = Sent /\ cb[d][j + 1] = Sent
      BY <1>3
    <2>2. \A k, m \in 1..Len(cb[d]) : cb[d][k] = Sent /\ cb[d][m] = Sent => k = m
      BY <1>1 DEF Flight
    <2>3. i + 1 = j + 1
      BY <2>1, <2>2, Zenon
    <2>4. i \in Int /\ j \in Int
      OBVIOUS
    <2>5. QED
      BY <2>3, <2>4
  <1>5. CASE cb[d][1] = Sent
    <2>1. PendingSent(d) /\ InFlight(d)
      BY <1>3, <1>5 DEF PendingSent, InFlight
    <2>2. ~PendingSent(d)'
      <3> SUFFICES ASSUME NEW i \in 1..Len(cb'[d]), cb'[d][i] = Sent PROVE FALSE
        BY DEF PendingSent
      <3>1. i + 1 = 1
        BY <1>1, <1>3, <1>5 DEF Flight
      <3>2. QED
        BY <1>3, <3>1
    <2>3. ~InFlight(d)' /\ txq'[d] = <<>>
      BY <1>1, <1>2, <2>1, <2>2 DEF InFlight, Flight
    <2>4. state' = [state EXCEPT ![d] = IF WaitsForAck(@)
                      THEN <<@[1], IF Asks(d, @[1]) THEN "WAIT" ELSE "ACTION">> ELSE @]
      BY <1>3, <1>5 DEF Callback, SentCallback
    <2>5. /\ state'[d] \notin Phases \X {"WAIT_ACK"}
          /\ state[d] \notin Phases \X {"WAIT_ACK"} => state'[d] = state[d]
      BY <2>4 DEF WaitsForAck, IInv, Control
    <2>6. main[d] = "sent" => setup.preempt
      BY <1>2
    <2>7. Flight(d)'
      <3>1. ~AtAck(d)'
        BY <2>5 DEF AtAck
      <3>2. Len(txq'[d]) = 0
        BY <2>3
      <3>3. main'[d] = "sent" => setup'.preempt
        BY <1>2, <2>6
      <3>4. QED
        BY <1>4, <2>2, <2>3, <3>1, <3>2, <3>3 DEF Flight
    <2>8. Place(d)'
      <3>1. main[d] \in {"sent", "clear", "copy"} => state'[d] = state[d]
        BY <1>1, <2>5 DEF Place
      <3>2. QED
        BY <1>1, <1>2, <3>1 DEF Place
    <2>9. \A e \in Devices : e # d => state'[e] = state[e]
      BY <2>4 DEF IInv, Control
    <2>10. QED
      BY <1>2, <2>7, <2>8, <2>9, FlightOthers DEF IInv, Queues
  <1>6. CASE cb[d][1] # Sent
    <2>1. state' = state
      BY <1>3, <1>6 DEF Callback, ReceivedCallback
    <2>2. PendingSent(d)' <=> PendingSent(d)
      <3>1. PendingSent(d)' => PendingSent(d)
        BY <1>3 DEF PendingSent
      <3>2. ASSUME NEW j \in 1..Len(cb[d]), cb[d][j] = Sent PROVE PendingSent(d)'
        <4>1. j \in 2..Len(cb[d])
          BY <1>3, <1>6, <3>2
        <4>2. QED
          BY <1>3, <3>2, <4>1 DEF PendingSent
      <3>3. QED
        BY <3>1, <3>2 DEF PendingSent
    <2>3. InFlight(d)' <=> InFlight(d)
      BY <1>2, <2>2 DEF InFlight
    <2>4. Flight(d)'
      BY <1>1, <1>2, <1>4, <2>1, <2>2, <2>3 DEF Flight, AtAck
    <2>5. Place(d)'
      BY <1>1, <1>2, <2>1 DEF Place
    <2>6. QED
      BY <1>2, <2>1, <2>4, <2>5, FlightOthers DEF IInv, Queues
  <1>7. QED
    BY <1>5, <1>6

LEMMA FlightNext == ASSUME IInv, FlightInv, [Next]_vars PROVE FlightInv'
  <1>1. CASE UNCHANGED vars
    BY <1>1, FlightSame DEF vars, FlightInv
  <1>2. ASSUME NEW d \in Devices,
               \/ Start(d) \/ Enter(d) \/ Idle(d) \/ ClearCommand(d)
               \/ \E phase \in Phases : \/ SetWaitForAck(d, phase) \/ TestCommand(d, phase)
                                        \/ CopyPayload(d, phase) \/ TakeAction(d, phase)
        PROVE  FlightInv'
    <2>1. Flight(d)' /\ Place(d)'
      BY <1>2, FlightLoop
    <2>2. \A e \in Devices : e # d => /\ txq'[e] = txq[e] /\ cb'[e] = cb[e]
                                      /\ main'[e] = main[e] /\ state'[e] = state[e]
      BY <1>2 DEF Start, Enter, Idle, ClearCommand, SetWaitForAck, TestCommand, CopyPayload,
                  TakeAction, EndIteration, IInv, Control
    <2>3. setup' = setup
      BY <1>2 DEF Start, Enter, Idle, ClearCommand, SetWaitForAck, TestCommand, CopyPayload,
                  TakeAction
    <2>4. QED
      BY <2>1, <2>2, <2>3, FlightOthers
  <1>3. QED
    BY <1>1, <1>2, FlightDeinit, FlightSend, FlightAcknowledge, FlightDeliver, FlightCallback
       DEF Next, MainLoop

(* When callbacks do not interrupt state functions, no device waits for an  *)
(* acknowledgement that has come and gone.                                  *)
THEOREM NoAckMissed == Spec => []AckNoticed
  <1>1. IInv /\ FlightInv => AckNoticed
    <2> SUFFICES ASSUME IInv, FlightInv, ~setup.preempt, NEW d \in Devices, NEW phase \in Phases,
                        main[d] = "execute", state[d] = <<phase, "WAIT_ACK">>
                 PROVE  txq[d] # <<>> \/ \E i \in DOMAIN cb[d] : cb[d][i] = Sent
      BY DEF AckNoticed
    <2>1. Flight(d) /\ AtAck(d)
      BY DEF FlightInv, AtAck
    <2>2. InFlight(d)
      BY <2>1 DEF Flight
    <2>3. DOMAIN cb[d] = 1..Len(cb[d])
      BY DEF IInv, Queues
    <2>4. QED
      BY <2>2, <2>3 DEF InFlight, PendingSent
  <1>2. IInv /\ FlightInv /\ [Next]_vars => FlightInv'
    BY FlightNext
  <1>3. QED
    BY <1>1, <1>2, FlightInit, Invariance, PTL DEF Spec

-----------------------------------------------------------------------------
(* The bounds of the procedures started and of the addresses given.         *)
Bounds ==
    /\ started \in [Devices -> Nat]
    /\ \A d \in Devices : started[d] <= MaxProcedures[d]
    /\ list \in [0..ListSize - 1 -> 0..MaxAddress]

LEMMA BoundsInit == Init => Bounds
  BY PairingAssumption DEF Init, Bounds

LEMMA BoundsNext == ASSUME IInv, Bounds, [Next]_vars PROVE Bounds'
  <1>0. /\ MaxProcedures \in [Devices -> Nat \ {0}] /\ OwnAddress \in 0..MaxAddress
        /\ MaxAddress \in Nat
    BY PairingAssumption DEF OwnAddress, Devices
  <1>1. CASE started' = started /\ list' = list
    BY <1>1 DEF Bounds
  <1>2. ASSUME NEW d \in Devices, Start(d) PROVE Bounds'
    <2>1. /\ started' = [started EXCEPT ![d] = @ + 1] /\ list' = list
          /\ started[d] < MaxProcedures[d] \/ started[d] < 1
      BY <1>2 DEF Start
    <2>2. started[d] + 1 \in Nat /\ started[d] + 1 <= MaxProcedures[d]
      <3>1. started[d] \in Nat /\ MaxProcedures[d] \in Nat /\ MaxProcedures[d] >= 1
        BY <1>0 DEF Bounds
      <3>2. QED
        BY <2>1, <3>1
    <2>3. \A e \in Devices : started'[e] = IF e = d THEN started[d] + 1 ELSE started[e]
      BY <2>1 DEF Bounds
    <2>4. started' \in [Devices -> Nat]
      BY <2>1, <2>2 DEF Bounds
    <2>5. QED
      BY <2>1, <2>2, <2>3, <2>4 DEF Bounds
  <1>3. ASSUME NEW r, NEW a \in 0..MaxAddress, list' = AddedToList(r, a), started' = started
        PROVE  Bounds'
    BY <1>3 DEF Bounds, AddedToList
  <1>4. ASSUME NEW d \in Devices, Enter(d) PROVE Bounds'
    BY <1>0, <1>1, <1>3, <1>4 DEF Enter
  <1>5. ASSUME NEW d \in Devices, NEW phase \in Phases, CopyPayload(d, phase) PROVE Bounds'
    <2>1. started' = started
      BY <1>5 DEF CopyPayload
    <2>2. list' = list \/ \E a \in 1..MaxAddress : list' = AddedToList(box[Coord].first, a)
      BY <1>5 DEF CopyPayload, CoordinatorReads, NodeReads
    <2>3. ASSUME NEW a \in 1..MaxAddress, list' = AddedToList(box[Coord].first, a) PROVE Bounds'
      <3>1. a \in 0..MaxAddress
        BY <1>0
      <3>2. QED
        BY <1>3, <2>1, <2>3, <3>1
    <2>4. QED
      BY <1>1, <2>1, <2>2, <2>3
  <1>6. CASE UNCHANGED vars
    BY <1>1, <1>6 DEF vars
  <1>7. ASSUME NEW d \in Devices,
               \/ Deinit(d) \/ Idle(d) \/ ClearCommand(d) \/ Callback(d) \/ Acknowledge(d)
               \/ \E e \in Devices : Deliver(d, e)
               \/ \E phase \in Phases : \/ SendMessage(d, phase) \/ SetWaitForAck(d, phase)
                                        \/ TestCommand(d, phase) \/ TakeAction(d, phase)
        PROVE  Bounds'
    BY <1>1, <1>7 DEF Deinit, Idle, ClearCommand, Callback, Acknowledge, Deliver, SendMessage,
                      SetWaitForAck, TestCommand, TakeAction
  <1>8. QED
    BY <1>2, <1>4, <1>5, <1>6, <1>7 DEF Next, MainLoop

(* Every variable keeps its type, and no device ever has a second message   *)
(* in its queue, for any number of nodes, addresses and procedures.         *)
THEOREM TypeCorrect == Spec => []TypeOK
  <1>1. IInv /\ FlightInv /\ Bounds => TypeOK
    BY PairingAssumption DEF IInv, Control, Data, FlightInv, Flight, Bounds, TypeOK, Places
  <1>2. IInv /\ FlightInv /\ [Next]_vars => FlightInv'
    BY FlightNext
  <1>3. IInv /\ Bounds /\ [Next]_vars => Bounds'
    BY BoundsNext
  <1>4. QED
    BY <1>1, <1>2, <1>3, FlightInit, BoundsInit, Invariance, PTL DEF Spec

-----------------------------------------------------------------------------
(* When no node has the coordinator's code.                                 *)
Different == \A n \in Nodes : setup.code[n] # setup.code[Coord]
CoordCodes == <<setup.code[Coord], setup.code[Coord]>>

(* What then reaches a device: the coordinator never a success, a node no   *)
(* code but the coordinator's.                                              *)
Harmless(d, m) == IF d = Coord THEN m.first # ActionSuccess
                               ELSE m.rest \in {Short, CoordCodes}
HarmlessFrom(d, m) == IF d = Coord THEN m.rest \in {Short, CoordCodes}
                                   ELSE m.first # ActionSuccess

(* No device gets beyond the authentication, and what is left in mailboxes, *)
(* queues and callbacks by the procedures before does not change that.      *)
Early == {<<"ENTER", "ONCE">>, <<"EXIT", "ONCE">>} \cup ({"AUTH"} \X Steps)
Stuck(d) == state[d] \in Early /\ event[d] # "SUCCESS" /\ action[d] # ActionSuccess
Mail(d) ==
    /\ Harmless(d, box[d])
    /\ \A i \in 1..Len(cb[d]) : Harmless(d, cb[d][i])
    /\ \A i \in 1..Len(txq[d]) : HarmlessFrom(d, txq[d][i].msg)

CodeInv == Different => \A d \in Devices : Stuck(d) /\ Mail(d)

LEMMA CodeInit == Init => CodeInv
  <1> SUFFICES ASSUME Init, NEW d \in Devices PROVE Stuck(d) /\ Mail(d)
    BY DEF CodeInv
  <1>1. Stuck(d)
    BY DEF Init, Stuck, Early, ActionNone, ActionSuccess
  <1>2. txq[d] = <<>> /\ cb[d] = <<>> /\ box[d].first = 0 /\ box[d].rest = Short
    BY DEF Init, Short
  <1>3. QED
    BY <1>1, <1>2 DEF Mail, Harmless, ActionSuccess

(* Mail that nothing changes, and mail marked as not received.              *)
LEMMA MailSame ==
    ASSUME NEW d \in Devices, Mail(d), setup' = setup, box'[d] = box[d], cb'[d] = cb[d],
           txq'[d] = txq[d]
    PROVE  Mail(d)'
  BY DEF Mail, Harmless, HarmlessFrom, CoordCodes, Short, ActionSuccess

LEMMA MailMarked ==
    ASSUME NEW d \in Devices, Mail(d), setup' = setup, box'[d] = box[d], cb'[d] = cb[d],
           Len(txq'[d]) = Len(txq[d]),
           \A i \in 1..Len(txq[d]) : txq'[d][i].msg = txq[d][i].msg
    PROVE  Mail(d)'
  BY DEF Mail, Harmless, HarmlessFrom, CoordCodes, Short, ActionSuccess

(* The end of an iteration raises no success of its own.                    *)
LEMMA EndingEvent ==
    ASSUME IInv, NEW d \in Devices, NEW e, EndIteration(d, e)
    PROVE  /\ event'[d] \in {e, "TIMEOUT", "ABORT"}
           /\ \A x \in Devices : x # d => event'[x] = event[x]
  BY DEF EndIteration, IInv, Control

LEMMA CodeLoop ==
    ASSUME IInv, Different, \A x \in Devices : Stuck(x) /\ Mail(x), NEW d \in Devices,
           \/ Start(d) \/ Enter(d) \/ Idle(d)
           \/ \E phase \in Phases : SetWaitForAck(d, phase) \/ TestCommand(d, phase)
    PROVE  \A x \in Devices : Stuck(x)' /\ Mail(x)'
  <1>0. /\ state \in [Devices -> States] /\ event \in [Devices -> Events]
    BY DEF IInv, Control
  <1>1. /\ setup' = setup /\ box' = box /\ txq' = txq /\ cb' = cb /\ action' = action
    BY DEF Start, Enter, Idle, SetWaitForAck, TestCommand
  <1>2. \A x \in Devices : Mail(x)'
    BY <1>1, MailSame
  <1>3. \A x \in Devices : state'[x] \in Early
    <2>1. CASE Start(d) \/ Enter(d) \/ Idle(d)
      BY <1>0, <2>1 DEF Start, Enter, Idle, Stuck, Early, Steps
    <2>2. ASSUME NEW phase \in Phases, SetWaitForAck(d, phase) \/ TestCommand(d, phase)
          PROVE  \A x \in Devices : state'[x] \in Early
      <3>1. state[d] = <<phase, "SEND">> \/ state' = state
        BY <2>2 DEF SetWaitForAck, TestCommand
      <3>2. state' = state \/ (phase = "AUTH" /\ state' = [state EXCEPT ![d] = <<phase, "WAIT_ACK">>])
        BY <2>2, <3>1 DEF SetWaitForAck, TestCommand, AfterSend, Stuck, Early, Phases
      <3>3. QED
        BY <1>0, <3>2 DEF Stuck, Early, Steps
    <2>3. QED
      BY <2>1, <2>2
  <1>4. \A x \in Devices : event'[x] # "SUCCESS"
    <2>1. event' = event \/ event' = [event EXCEPT ![d] = "NONE"] \/ EndIteration(d, event[d])
      BY DEF Start, Enter, Idle, SetWaitForAck, TestCommand
    <2>2. event[d] # "SUCCESS" /\ \A x \in Devices : event[x] # "SUCCESS"
      BY DEF Stuck
    <2>3. CASE EndIteration(d, event[d])
      BY <2>2, <2>3, EndingEvent
    <2>4. QED
      BY <1>0, <2>1, <2>2, <2>3
  <1>5. QED
    BY <1>1, <1>2, <1>3, <1>4 DEF Stuck, ActionSuccess

LEMMA CodeDeinit ==
    ASSUME IInv, Different, \A x \in Devices : Stuck(x) /\ Mail(x), NEW d \in Devices, Deinit(d)
    PROVE  \A x \in Devices : Stuck(x)' /\ Mail(x)'
  <1>1. /\ Forget(d) /\ setup' = setup /\ box' = box
        /\ state' = state /\ event' = event /\ action' = action
        /\ cb' = [cb EXCEPT ![d] = <<>>] /\ txq'[d] = <<>>
    BY DEF Deinit, Forget
  <1>2. \A x \in Devices : Stuck(x)'
    BY <1>1 DEF Stuck, ActionSuccess
  <1>3. Mail(d)'
    <2>1. cb'[d] = <<>> /\ Harmless(d, box[d])
      BY <1>1 DEF IInv, Queues, Mail
    <2>2. QED
      BY <1>1, <2>1 DEF Mail, Harmless, CoordCodes
  <1>4. ASSUME NEW x \in Devices, x # d PROVE Mail(x)'
    <2>1. cb'[x] = cb[x]
      BY <1>1, <1>4 DEF IInv, Queues
    <2>2. QED
      BY <1>1, <1>4, <2>1, ForgetMarks, MailMarked
  <1>5. QED
    BY <1>2, <1>3, <1>4

LEMMA CodeClear ==
    ASSUME IInv, Different, \A x \in Devices : Stuck(x) /\ Mail(x), NEW d \in Devices,
           ClearCommand(d)
    PROVE  \A x \in Devices : Stuck(x)' /\ Mail(x)'
  <1>1. /\ box' = [box EXCEPT ![d].cmd = NoCommand] /\ setup' = setup /\ txq' = txq /\ cb' = cb
        /\ state' = state /\ event' = event /\ action' = action
    BY DEF ClearCommand
  <1>2. \A x \in Devices : Stuck(x)'
    BY <1>1 DEF Stuck, ActionSuccess
  <1>3. \A x \in Devices : box'[x].first = box[x].first /\ box'[x].rest = box[x].rest
    <2>1. box \in [Devices -> [cmd : Cmds, first : Nat, rest : Nat \X Nat]]
      BY DEF IInv, Data
    <2>2. QED
      BY <1>1, <2>1
  <1>4. \A x \in Devices : Mail(x)'
    BY <1>1, <1>3 DEF Mail, Harmless, HarmlessFrom, CoordCodes, Short, ActionSuccess
  <1>5. QED
    BY <1>2, <1>4

LEMMA CodeSend ==
    ASSUME IInv, Different, \A x \in Devices : Stuck(x) /\ Mail(x), NEW d \in Devices,
           NEW phase \in Phases, SendMessage(d, phase)
    PROVE  \A x \in Devices : Stuck(x)' /\ Mail(x)'
  <1> DEFINE m == IF d = Coord THEN CoordinatorMessage(phase) ELSE NodeMessage(d, phase)
             q == [msg |-> m, got |-> FALSE]
  <1>1. /\ state[d] = <<phase, "SEND">> /\ txq' = [txq EXCEPT ![d] = Append(@, q)]
        /\ setup' = setup /\ box' = box /\ cb' = cb
        /\ state' = state /\ event' = event /\ action' = action
    BY DEF SendMessage
  <1>2. \A x \in Devices : Stuck(x)'
    BY <1>1 DEF Stuck, ActionSuccess
  <1>3. phase = "AUTH" /\ action[d] # ActionSuccess
    BY <1>1 DEF Stuck, Early, Phases
  <1>4. HarmlessFrom(d, m)
    BY <1>3 DEF HarmlessFrom, CoordinatorMessage, NodeMessage, Ask, Answer, CoordCodes
  <1>5. IInv'
    BY SendMessageInv
  <1>6. q.msg = m
    OBVIOUS
  <1> HIDE DEF m, q
  <1>7. ASSUME NEW x \in Devices PROVE Mail(x)'
    <2>1. CASE x # d
      <3>1. txq'[x] = txq[x]
        BY <1>1, <2>1 DEF IInv, Queues
      <3>2. QED
        BY <1>1, <3>1, MailSame
    <2>2. CASE x = d
      <3>1. txq'[d] = Append(txq[d], q) /\ txq[d] \in Seq(QueuedType)
            /\ txq'[d] \in Seq(QueuedType)
        BY <1>1, <1>5 DEF IInv, Queues
      <3>2. ASSUME NEW i \in 1..Len(txq'[d]) PROVE HarmlessFrom(d, txq'[d][i].msg)
        <4>1. /\ i \in 1..Len(txq[d]) => txq'[d][i] = txq[d][i]
              /\ i \notin 1..Len(txq[d]) => txq'[d][i] = q
          BY <3>1, AppendProperties
        <4>2. QED
          BY <1>4, <1>6, <4>1 DEF Mail
      <3>3. QED
        BY <1>1, <2>2, <3>2 DEF Mail, Harmless, HarmlessFrom, CoordCodes
    <2>3. QED
      BY <2>1, <2>2
  <1>8. QED
    BY <1>2, <1>7

LEMMA CodeCopy ==
    ASSUME IInv, Different, \A x \in Devices : Stuck(x) /\ Mail(x), NEW d \in Devices,
           NEW phase \in Phases, CopyPayload(d, phase)
    PROVE  \A x \in Devices : Stuck(x)' /\ Mail(x)'
  <1>1. /\ state[d] = <<phase, "WAIT">> /\ EndIteration(d, event[d])
        /\ state' = [state EXCEPT ![d] = <<phase, IF Asks(d, phase) THEN "ACTION" ELSE "SEND">>]
        /\ setup' = setup /\ box' = box /\ txq' = txq /\ cb' = cb
    BY DEF CopyPayload
  <1>2. \A x \in Devices : Mail(x)'
    BY <1>1, MailSame
  <1>3. phase = "AUTH"
    BY <1>1 DEF Stuck, Early, Phases
  <1>4. \A x \in Devices : state'[x] \in Early
    BY <1>1, <1>3 DEF IInv, Control, Stuck, Early, Steps
  <1>5. \A x \in Devices : event'[x] # "SUCCESS"
    BY <1>1, EndingEvent DEF Stuck
  <1>6. \A x \in Devices : action'[x] # ActionSuccess
    <2>1. CASE d = Coord
      <3>1. action' = [action EXCEPT ![Coord] = box[Coord].first]
        BY <1>3, <2>1 DEF CopyPayload, CoordinatorReads
      <3>2. box[Coord].first # ActionSuccess
        BY <2>1 DEF Mail, Harmless
      <3>3. QED
        BY <3>1, <3>2 DEF IInv, Control, Stuck
    <2>2. CASE d # Coord
      <3>1. action' = [action EXCEPT ![d] = IF IsCodeValid(d) THEN ActionSuccess ELSE ActionFail]
        BY <1>3, <2>2 DEF CopyPayload, NodeReads
      <3>2. ~IsCodeValid(d)
        <4>1. box[d].rest \in {Short, CoordCodes}
          BY <2>2 DEF Mail, Harmless
        <4>2. setup.code[d] # setup.code[Coord] /\ setup.code[d] # 0
          BY <2>2, Constants, PairingAssumption DEF Different, IInv, Data, SetupType
        <4>3. <<setup.code[d], setup.code[d]>> # Short
          BY <4>2 DEF Short
        <4>4. <<setup.code[d], setup.code[d]>> # CoordCodes
          BY <4>2 DEF CoordCodes
        <4>5. QED
          BY <4>1, <4>3, <4>4 DEF IsCodeValid
      <3>3. QED
        BY <3>1, <3>2 DEF IInv, Control, Stuck, ActionSuccess, ActionFail
    <2>3. QED
      BY <2>1, <2>2
  <1>7. QED
    BY <1>2, <1>4, <1>5, <1>6 DEF Stuck, ActionSuccess

LEMMA CodeAction ==
    ASSUME IInv, Different, \A x \in Devices : Stuck(x) /\ Mail(x), NEW d \in Devices,
           NEW phase \in Phases, TakeAction(d, phase)
    PROVE  \A x \in Devices : Stuck(x)' /\ Mail(x)'
  <1> DEFINE result == IF d = Coord THEN CoordinatorAction(phase, action[d])
                                    ELSE NodeAction(d, phase, action[d])
  <1>1. /\ state[d] = <<phase, "ACTION">> /\ EndIteration(d, result.event)
        /\ state' = [state EXCEPT ![d] = result.state]
        /\ action' = [action EXCEPT ![d] = ActionNone]
        /\ setup' = setup /\ box' = box /\ txq' = txq /\ cb' = cb
    BY DEF TakeAction
  <1>2. phase = "AUTH" /\ action[d] # ActionSuccess /\ event[d] # "SUCCESS" /\ state[d] \in Early
    BY <1>1 DEF Stuck, Early, Phases
  <1>3. result.event # "SUCCESS" /\ result.state \in Early
    <2>1. CASE d = Coord
      BY <1>2, <2>1 DEF CoordinatorAction, Early
    <2>2. CASE d # Coord
      BY <1>2, <2>2 DEF NodeAction, Early
    <2>3. QED
      BY <2>1, <2>2
  <1> HIDE DEF result
  <1>4. \A x \in Devices : Mail(x)'
    BY <1>1, MailSame
  <1>5. \A x \in Devices : event'[x] # "SUCCESS"
    BY <1>1, <1>3, EndingEvent DEF Stuck
  <1>6. \A x \in Devices : state'[x] \in Early /\ action'[x] # ActionSuccess
    BY <1>1, <1>3 DEF IInv, Control, Stuck, ActionNone, ActionSuccess
  <1>7. QED
    BY <1>4, <1>5, <1>6 DEF Stuck, ActionSuccess

LEMMA CodeDeliver ==
    ASSUME IInv, Different, \A x \in Devices : Stuck(x) /\ Mail(x), NEW d \in Devices,
           NEW e \in Devices, Deliver(d, e)
    PROVE  \A x \in Devices : Stuck(x)' /\ Mail(x)'
  <1> DEFINE first == [txq[d][1] EXCEPT !.got = TRUE]
  <1>1. /\ txq[d] # <<>> /\ d # e /\ (d = Coord <=> e # Coord)
        /\ txq' = [txq EXCEPT ![d] = [txq[d] EXCEPT ![1] = first]]
        /\ cb' = [cb EXCEPT ![e] = Append(@, txq[d][1].msg)]
        /\ setup' = setup /\ box' = box
        /\ state' = state /\ event' = event /\ action' = action
    BY Constants DEF Deliver, Peer
  <1>2. \A x \in Devices : Stuck(x)'
    BY <1>1 DEF Stuck, ActionSuccess
  <1>3. /\ txq[d] \in Seq(QueuedType) /\ cb[e] \in Seq(MsgType)
        /\ 1 \in 1..Len(txq[d]) /\ txq[d][1] \in QueuedType
    <2>1. txq[d] \in Seq(QueuedType) /\ cb[e] \in Seq(MsgType)
      BY DEF IInv, Queues
    <2>2. QED
      BY <1>1, <2>1
  <1>4. first \in QueuedType /\ first.msg = txq[d][1].msg /\ txq[d][1].msg \in MsgType
    BY <1>3 DEF QueuedType
  <1> HIDE DEF first
  <1>5. Harmless(e, txq[d][1].msg)
    <2>1. HarmlessFrom(d, txq[d][1].msg)
      BY <1>3 DEF Mail
    <2>2. QED
      BY <1>1, <2>1 DEF Harmless, HarmlessFrom
  <1>6. Mail(d)'
    <2>1. Len(txq'[d]) = Len(txq[d])
          /\ \A i \in 1..Len(txq[d]) : txq'[d][i].msg = txq[d][i].msg
      BY <1>1, <1>3, <1>4 DEF IInv, Queues
    <2>2. cb'[d] = cb[d]
      BY <1>1, SMTT(30) DEF IInv, Queues
    <2>3. QED
      BY <1>1, <2>1, <2>2, MailMarked
  <1>7. Mail(e)'
    <2>1. cb'[e] = Append(cb[e], txq[d][1].msg) /\ txq'[e] = txq[e]
      BY <1>1 DEF IInv, Queues
    <2>2. ASSUME NEW i \in 1..Len(cb'[e]) PROVE Harmless(e, cb'[e][i])
      <3>1. /\ i \in 1..Len(cb[e]) => cb'[e][i] = cb[e][i]
            /\ i \notin 1..Len(cb[e]) => cb'[e][i] = txq[d][1].msg
        BY <1>3, <1>4, <2>1
      <3>2. QED
        BY <1>5, <3>1 DEF Mail
    <2>3. QED
      BY <1>1, <2>1, <2>2 DEF Mail, Harmless, HarmlessFrom, CoordCodes
  <1>8. ASSUME NEW x \in Devices, x # d, x # e PROVE Mail(x)'
    BY <1>1, <1>8, MailSame DEF IInv, Queues
  <1>9. QED
    BY <1>2, <1>6, <1>7, <1>8

LEMMA TailItems ==
    ASSUME NEW S, NEW s \in Seq(S), s # <<>>, NEW i \in 1..Len(Tail(s))
    PROVE  Tail(s)[i] = s[i + 1] /\ i + 1 \in 1..Len(s)
  <1>1. /\ Len(Tail(s)) = Len(s) - 1 /\ Len(s) \in Nat \ {0}
        /\ Tail(s)[i] = s[i + 1]
    BY EmptySeq, HeadTailProperties
  <1>2. ASSUME NEW n \in Nat \ {0}, NEW k \in 1..n - 1 PROVE k + 1 \in 1..n
    OBVIOUS
  <1>3. i + 1 \in 1..Len(s)
    BY <1>1, <1>2, Zenon
  <1>4. QED
    BY <1>1, <1>3, Zenon

LEMMA CodeAcknowledge ==
    ASSUME IInv, Different, \A x \in Devices : Stuck(x) /\ Mail(x), NEW d \in Devices,
           Acknowledge(d)
    PROVE  \A x \in Devices : Stuck(x)' /\ Mail(x)'
  <1>1. /\ txq[d] # <<>> /\ txq' = [txq EXCEPT ![d] = Tail(@)]
        /\ cb' = [cb EXCEPT ![d] = Append(@, Sent)] /\ setup' = setup /\ box' = box
        /\ state' = state /\ event' = event /\ action' = action
        /\ txq[d] \in Seq(QueuedType) /\ cb[d] \in Seq(MsgType)
    BY DEF Acknowledge, IInv, Queues
  <1>2. \A x \in Devices : Stuck(x)'
    BY <1>1 DEF Stuck, ActionSuccess
  <1>3. Harmless(d, Sent)
    BY DEF Harmless, Sent, ActionSuccess
  <1>4. Mail(d)'
    <2>1. cb'[d] = Append(cb[d], Sent) /\ txq'[d] = Tail(txq[d])
      BY <1>1 DEF IInv, Queues
    <2>2. ASSUME NEW i \in 1..Len(cb'[d]) PROVE Harmless(d, cb'[d][i])
      <3>1. /\ i \in 1..Len(cb[d]) => cb'[d][i] = cb[d][i]
            /\ i \notin 1..Len(cb[d]) => cb'[d][i] = Sent
        BY <1>1, <2>1, SentIsMsg
      <3>2. QED
        BY <1>3, <3>1 DEF Mail
    <2>3. ASSUME NEW i \in 1..Len(txq'[d]) PROVE HarmlessFrom(d, txq'[d][i].msg)
      <3>1. txq'[d][i] = txq[d][i + 1] /\ i + 1 \in 1..Len(txq[d])
        BY <1>1, <2>1, TailItems, Zenon
      <3>2. QED
        BY <3>1 DEF Mail
    <2>4. QED
      BY <1>1, <2>2, <2>3 DEF Mail, Harmless, HarmlessFrom, CoordCodes
  <1>5. ASSUME NEW x \in Devices, x # d PROVE Mail(x)'
    BY <1>1, <1>5, MailSame DEF IInv, Queues
  <1>6. QED
    BY <1>2, <1>4, <1>5

LEMMA CodeCallback ==
    ASSUME IInv, Different, \A x \in Devices : Stuck(x) /\ Mail(x), NEW d \in Devices, Callback(d)
    PROVE  \A x \in Devices : Stuck(x)' /\ Mail(x)'
  <1>1. /\ cb[d] # <<>> /\ cb' = [cb EXCEPT ![d] = Tail(@)]
        /\ setup' = setup /\ txq' = txq /\ event' = event /\ action' = action
        /\ cb[d] \in Seq(MsgType) /\ Head(cb[d]) = cb[d][1] /\ 1 \in 1..Len(cb[d])
    <2>1. cb[d] \in Seq(MsgType) /\ cb[d] # <<>>
      BY DEF Callback, IInv, Queues
    <2>2. QED
      BY <2>1 DEF Callback
  <1>2. ASSUME NEW i \in 1..Len(cb'[d]) PROVE Harmless(d, cb'[d][i])
    <2>1. cb'[d] = Tail(cb[d])
      BY <1>1 DEF IInv, Queues
    <2>2. cb'[d][i] = cb[d][i + 1] /\ i + 1 \in 1..Len(cb[d])
      BY <1>1, <2>1, TailItems, Zenon
    <2>3. QED
      BY <2>2 DEF Mail
  <1>3. \A x \in Devices : x # d => cb'[x] = cb[x]
    BY <1>1 DEF IInv, Queues
  <1>4. CASE Head(cb[d]) = Sent
    <2>1. /\ box' = box
          /\ state' = [state EXCEPT ![d] = IF WaitsForAck(@)
                         THEN <<@[1], IF Asks(d, @[1]) THEN "WAIT" ELSE "ACTION">> ELSE @]
      BY <1>4 DEF Callback, SentCallback
    <2>2. \A x \in Devices : state'[x] \in Early
      <3>1. state[d] \in Early
        BY DEF Stuck
      <3>2. WaitsForAck(state[d]) => state[d][1] = "AUTH"
        BY <3>1 DEF WaitsForAck, Early, Phases
      <3>3. state'[d] \in Early
        BY <2>1, <3>1, <3>2 DEF IInv, Control, Early, Steps
      <3>4. QED
        BY <2>1, <3>3 DEF IInv, Control, Stuck
    <2>3. Mail(d)'
      BY <1>1, <1>2, <2>1 DEF Mail, Harmless, HarmlessFrom, CoordCodes
    <2>4. ASSUME NEW x \in Devices, x # d PROVE Mail(x)'
      BY <1>1, <1>3, <2>1, <2>4, MailSame
    <2>5. QED
      BY <1>1, <2>2, <2>3, <2>4 DEF Stuck, ActionSuccess
  <1>5. CASE Head(cb[d]) # Sent
    <2> DEFINE msg == Head(cb[d])
               new == [cmd |-> msg.cmd, first |-> msg.first,
                       rest |-> IF msg.rest = Short THEN box[d].rest ELSE msg.rest]
    <2>1. state' = state /\ box' = [box EXCEPT ![d] = new]
      BY <1>5 DEF Callback, ReceivedCallback
    <2>2. Harmless(d, new)
      <3>1. Harmless(d, cb[d][1]) /\ Harmless(d, box[d]) /\ msg = cb[d][1]
        BY <1>1 DEF Mail
      <3>2. QED
        BY <3>1 DEF Harmless
    <2> HIDE DEF new
    <2>3. Mail(d)'
      <3>1. box'[d] = new
        BY <2>1 DEF IInv, Data
      <3>2. QED
        BY <1>1, <1>2, <2>2, <3>1 DEF Mail, Harmless, HarmlessFrom, CoordCodes
    <2>4. ASSUME NEW x \in Devices, x # d PROVE Mail(x)'
      <3>1. box'[x] = box[x]
        BY <2>1, <2>4 DEF IInv, Data
      <3>2. QED
        BY <1>1, <1>3, <2>4, <3>1, MailSame
    <2>5. QED
      BY <1>1, <2>1, <2>3, <2>4 DEF Stuck, ActionSuccess
  <1>6. QED
    BY <1>4, <1>5

(* How procedures run, and the codes of the devices, are chosen once.       *)
LEMMA SetupKept == ASSUME [Next]_vars PROVE setup' = setup
  <1>1. CASE UNCHANGED vars
    BY <1>1 DEF vars
  <1>2. ASSUME NEW d \in Devices, MainLoop(d) PROVE setup' = setup
    <2>1. CASE Deinit(d) \/ Enter(d) \/ Idle(d) \/ ClearCommand(d)
      <3>1. CASE Deinit(d)
        BY <3>1 DEF Deinit
      <3>2. CASE Enter(d)
        BY <3>2 DEF Enter
      <3>3. CASE Idle(d)
        BY <3>3 DEF Idle
      <3>4. CASE ClearCommand(d)
        BY <3>4 DEF ClearCommand
      <3>5. QED
        BY <2>1, <3>1, <3>2, <3>3, <3>4
    <2>2. ASSUME NEW phase \in Phases, SendMessage(d, phase) PROVE setup' = setup
      BY <2>2 DEF SendMessage
    <2>3. ASSUME NEW phase \in Phases, SetWaitForAck(d, phase) PROVE setup' = setup
      BY <2>3 DEF SetWaitForAck
    <2>4. ASSUME NEW phase \in Phases, TestCommand(d, phase) PROVE setup' = setup
      BY <2>4 DEF TestCommand
    <2>5. ASSUME NEW phase \in Phases, CopyPayload(d, phase) PROVE setup' = setup
      BY <2>5 DEF CopyPayload
    <2>6. ASSUME NEW phase \in Phases, TakeAction(d, phase) PROVE setup' = setup
      BY <2>6 DEF TakeAction
    <2>7. QED
      BY <1>2, <2>1, <2>2, <2>3, <2>4, <2>5, <2>6 DEF MainLoop
  <1>3. ASSUME NEW d \in Devices, Start(d) PROVE setup' = setup
    BY <1>3 DEF Start
  <1>4. ASSUME NEW d \in Devices, Callback(d) PROVE setup' = setup
    BY <1>4 DEF Callback
  <1>5. ASSUME NEW d \in Devices, Acknowledge(d) PROVE setup' = setup
    BY <1>5 DEF Acknowledge
  <1>6. ASSUME NEW d \in Devices, NEW e \in Devices, Deliver(d, e) PROVE setup' = setup
    BY <1>6 DEF Deliver
  <1>7. QED
    BY <1>1, <1>2, <1>3, <1>4, <1>5, <1>6 DEF Next

LEMMA CodeNext == ASSUME IInv, CodeInv, [Next]_vars PROVE CodeInv'
  <1>1. setup' = setup
    BY SetupKept
  <1> SUFFICES ASSUME Different PROVE \A x \in Devices : Stuck(x)' /\ Mail(x)'
    BY <1>1 DEF CodeInv, Different
  <1>2. \A x \in Devices : Stuck(x) /\ Mail(x)
    BY DEF CodeInv
  <1>3. CASE UNCHANGED vars
    <2>1. /\ setup' = setup /\ box' = box /\ cb' = cb /\ txq' = txq
          /\ state' = state /\ event' = event /\ action' = action
      BY <1>3 DEF vars
    <2>2. QED
      BY <1>2, <2>1, MailSame DEF Stuck, ActionSuccess
  <1>4. QED
    BY <1>2, <1>3, CodeLoop, CodeDeinit, CodeClear, CodeSend, CodeCopy, CodeAction, CodeDeliver,
       CodeAcknowledge, CodeCallback DEF Next, MainLoop

(* No device reports success unless some node has the coordinator's         *)
(* application code, for any number of nodes and procedures, although the   *)
(* mailbox may hold answers to earlier procedures.                          *)
THEOREM SuccessNeedsSameCode == Spec => []SameCode
  <1>1. IInv /\ CodeInv => SameCode
    BY DEF CodeInv, Different, Stuck, SameCode
  <1>2. IInv /\ CodeInv /\ [Next]_vars => CodeInv'
    BY CodeNext
  <1>3. QED
    BY <1>1, <1>2, CodeInit, Invariance, PTL DEF Spec

-----------------------------------------------------------------------------
(* The coordinator's success.  What a message left behind by an earlier     *)
(* procedure could do is limited by the way each side goes through its      *)
(* phases once: while the coordinator's procedure has an identification to  *)
(* read or has given an address, no older address can still be taken over   *)
(* by the node, and every answer under way is to the coordinator's current  *)
(* address.                                                                 *)
IsIdent(m) == m.cmd = <<"IDENT", "MESSAGE">>
IsAddr(m) == m.cmd = <<"ADDR", "MESSAGE">>
IsAnswer(m) == m.cmd = <<"ADDR", "RESPONSE">>
Reading(d) == main[d] \in {"clear", "copy"}

(* Where each side is, who is pairing, and what the queues hold.            *)
Fresh(d) == main[d] # "idle" /\ state[d] = <<"ENTER", "ONCE">> => txq[d] = <<>> /\ cb[d] = <<>>
Identifying(n) == state[n] \in {<<"IDENT", "SEND">>, <<"IDENT", "WAIT_ACK">>}
Track ==
    /\ \A d \in Devices : Fresh(d)
    /\ \A n, p \in Nodes : main[n] # "idle" /\ main[p] # "idle" => n = p
    /\ \A n \in Nodes : \A i \in 1..Len(txq[n]) : IsIdent(txq[n][i].msg) => Identifying(n)
    /\ state[Coord] # <<"ENTER", "ONCE">> => address[Coord].coordinator = OwnAddress

(* The coordinator's procedure has given an address, and its message is     *)
(* queued or further.                                                       *)
Assigned ==
    /\ main[Coord] # "idle"
    /\ state[Coord] \in {<<"IDENT", "SEND">>, <<"IDENT", "WAIT_ACK">>, <<"IDENT", "ACTION">>,
                        <<"ADDR", "SEND">>, <<"ADDR", "WAIT_ACK">>, <<"ADDR", "WAIT">>,
                        <<"ADDR", "ACTION">>}
Asked ==
    \/ state[Coord] = <<"ADDR", "SEND">> /\ main[Coord] = "sent"
    \/ state[Coord] \in {<<"ADDR", "WAIT_ACK">>, <<"ADDR", "WAIT">>, <<"ADDR", "ACTION">>}

(* It will read, or is reading, an identification message in the mailbox;   *)
(* one is in a pending callback.                                            *)
InHand ==
    /\ main[Coord] # "idle"
    /\ \/ /\ IsIdent(box[Coord])
          /\ \/ state[Coord] = <<"AUTH", "WAIT">> /\ Reading(Coord)
             \/ state[Coord] \in {<<"AUTH", "ACTION">>, <<"IDENT", "WAIT">>}
       \/ state[Coord] = <<"IDENT", "WAIT">> /\ Reading(Coord)
Coming == state[Coord] # <<"EXIT", "ONCE">> /\ \E i \in 1..Len(cb[Coord]) : IsIdent(cb[Coord][i])
Engaged == Assigned \/ InHand \/ Coming

Told == Assigned /\ address[Coord] \in learned

(* The coordinator's last message was delivered or given up; the message at *)
(* place i of a node's callbacks, or the mailbox, is that one.              *)
Posted == Assigned /\ Asked /\ (txq[Coord] = <<>> \/ txq[Coord][1].got)
LastFrom(n, i) == \A j \in 1..Len(cb[n]) : j > i => cb[n][j] = Sent
Current(n, i) == Posted /\ LastFrom(n, i) /\ AddressesIn(cb[n][i]) = address[Coord]
CurrentBox(n) == Posted /\ LastFrom(n, 0) /\ AddressesIn(box[n]) = address[Coord]
AllCurrent(n) == \A i \in 1..Len(cb[n]) : IsAddr(cb[n][i]) => Current(n, i)

Up(n) ==
    /\ Identifying(n) =>
         \A i, j \in 1..Len(cb[n]) : i < j /\ cb[n][i] = Sent /\ IsAddr(cb[n][j]) => Current(n, j)
    /\ state[n] \in {<<"IDENT", "WAIT">>, <<"IDENT", "ACTION">>, <<"ADDR", "WAIT">>} => AllCurrent(n)
    /\ (\/ state[n] = <<"IDENT", "WAIT">> /\ Reading(n)
        \/ state[n] \in {<<"IDENT", "ACTION">>, <<"ADDR", "WAIT">>})
         => (IsAddr(box[n]) => CurrentBox(n))
    /\ state[n] = <<"ADDR", "WAIT">> /\ Reading(n) => CurrentBox(n)
    /\ state[n] = <<"ADDR", "SEND">> => Told
    /\ \A i \in 1..Len(txq[n]) : IsAnswer(txq[n][i].msg) /\ ~txq[n][i].got => Told

Answers ==
    /\ Assigned \/ InHand =>
         /\ IsAnswer(box[Coord]) => Told
         /\ \A i \in 1..Len(cb[Coord]) : IsAnswer(cb[Coord][i]) => Told
    /\ state[Coord] # <<"EXIT", "ONCE">> =>
         \A i, j \in 1..Len(cb[Coord]) :
            i < j /\ IsIdent(cb[Coord][i]) /\ IsAnswer(cb[Coord][j]) => Told
    /\ state[Coord] = <<"ADDR", "WAIT">> /\ Reading(Coord) => address[Coord] \in learned
    /\ state[Coord] = <<"ADDR", "ACTION">> => address[Coord] \in learned
    /\ \A i \in 1..Len(txq[Coord]) : IsAddr(txq[Coord][i].msg) =>
         /\ Assigned /\ Asked
         /\ AddressesIn(txq[Coord][i].msg) = address[Coord]

NodesUp == Engaged => \A n \in Nodes : main[n] # "idle" => Up(n)
AnswerInv == Track /\ Answers /\ NodesUp

LEMMA TrackInit == Init => Track
  <1> SUFFICES ASSUME Init PROVE Track
    OBVIOUS
  <1>1. \A d \in Devices : main[d] = "idle" /\ txq[d] = <<>> /\ state[d] = <<"ENTER", "ONCE">>
    BY DEF Init
  <1>2. QED
    BY <1>1, Constants DEF Track, Fresh

(* What the steps of the main loop have in common, but for the end of a     *)
(* procedure and for sending.                                               *)
Loop(d) ==
    \/ Enter(d) \/ Idle(d) \/ ClearCommand(d)
    \/ \E phase \in Phases : \/ SetWaitForAck(d, phase) \/ TestCommand(d, phase)
                             \/ CopyPayload(d, phase) \/ TakeAction(d, phase)
Alone(d) == \A x \in Devices : x # d => /\ main'[x] = main[x] /\ state'[x] = state[x]
                                        /\ box'[x] = box[x] /\ address'[x] = address[x]
Looped(d) ==
    /\ txq' = txq /\ cb' = cb /\ Alone(d)
    /\ main[d] # "idle" /\ main'[d] # "idle" /\ main'[d] # "sent"
    /\ state'[d] = <<"ENTER", "ONCE">> => state'[d] = state[d]
    /\ learned \subseteq learned'

LEMMA LoopKeeps == ASSUME IInv, NEW d \in Devices, Loop(d) PROVE Looped(d)
  <1>0. /\ main \in [Devices -> Places] /\ state \in [Devices -> States]
        /\ box \in [Devices -> [cmd : Cmds, first : Nat, rest : Nat \X Nat]]
        /\ address \in [Devices -> [pan : Nat, coordinator : Nat, node : Nat]]
    BY DEF IInv, Control, Data
  <1>1. CASE Enter(d)
    BY <1>0, <1>1, Constants, SMTT(30) DEF Enter, EndIteration, Looped, Alone
  <1>2. CASE Idle(d)
    BY <1>0, <1>2, SMTT(30) DEF Idle, EndIteration, Looped, Alone
  <1>3. CASE ClearCommand(d)
    BY <1>0, <1>3, SMTT(30) DEF ClearCommand, Looped, Alone
  <1>4. ASSUME NEW phase \in Phases, SetWaitForAck(d, phase) PROVE Looped(d)
    BY <1>0, <1>4, SMTT(30) DEF SetWaitForAck, EndIteration, AfterSend, Looped, Alone
  <1>5. ASSUME NEW phase \in Phases, TestCommand(d, phase) PROVE Looped(d)
    BY <1>0, <1>5, SMTT(30) DEF TestCommand, Looped, Alone
  <1>6. ASSUME NEW phase \in Phases, CopyPayload(d, phase) PROVE Looped(d)
    <2>1. /\ txq' = txq /\ cb' = cb /\ box' = box /\ main[d] = "copy"
          /\ state' = [state EXCEPT ![d] = <<phase, IF Asks(d, phase) THEN "ACTION" ELSE "SEND">>]
          /\ EndIteration(d, event[d])
      BY <1>6 DEF CopyPayload
    <2>2. /\ learned \subseteq learned'
          /\ \A x \in Devices : x # d => address'[x] = address[x]
      <3>1. CASE d = Coord
        BY <1>0, <1>6, <3>1, SMTT(30) DEF CopyPayload, CoordinatorReads
      <3>2. CASE d # Coord
        BY <1>0, <1>6, <3>2, SMTT(30) DEF CopyPayload, NodeReads
      <3>3. QED
        BY <3>1, <3>2
    <2>3. QED
      BY <1>0, <2>1, <2>2, SMTT(30) DEF EndIteration, Looped, Alone
  <1>7. ASSUME NEW phase \in Phases, TakeAction(d, phase) PROVE Looped(d)
    <2> DEFINE result == IF d = Coord THEN CoordinatorAction(phase, action[d])
                                      ELSE NodeAction(d, phase, action[d])
    <2>1. /\ txq' = txq /\ cb' = cb /\ box' = box /\ address' = address /\ learned' = learned
          /\ main[d] = "execute" /\ state[d] = <<phase, "ACTION">>
          /\ state' = [state EXCEPT ![d] = result.state]
          /\ EndIteration(d, result.event)
      BY <1>7 DEF TakeAction
    <2>2. result.state # <<"ENTER", "ONCE">>
      <3>1. CASE d = Coord
        BY <2>1, <3>1, SMTT(30) DEF CoordinatorAction, Entry, Asks
      <3>2. CASE d # Coord
        BY <2>1, <3>2, SMTT(30) DEF NodeAction, Entry, Asks
      <3>3. QED
        BY <3>1, <3>2
    <2> HIDE DEF result
    <2>3. QED
      BY <1>0, <2>1, <2>2, SMTT(30) DEF EndIteration, Looped, Alone
  <1>8. QED
    BY <1>1, <1>2, <1>3, <1>4, <1>5, <1>6, <1>7 DEF Loop

(* A node that is not identifying has no identification message queued.     *)
LEMMA TrackLoop ==
    ASSUME IInv, Track, NEW d \in Devices, Loop(d) PROVE Track'
  <1>0. /\ main \in [Devices -> Places] /\ state \in [Devices -> States]
    BY DEF IInv, Control
  <1>1. Looped(d)
    BY LoopKeeps
  <1>2. \A x \in Devices : Fresh(x)'
    BY <1>1 DEF Track, Fresh, Looped, Alone
  <1>3. \A n, p \in Nodes : main'[n] # "idle" /\ main'[p] # "idle" => n = p
    BY <1>1, Constants DEF Track, Looped, Alone
  <1>4. Identifying(d) => Identifying(d)'
    <2>1. CASE Enter(d) \/ Idle(d) \/ ClearCommand(d)
      BY <1>0, <2>1, SMTT(30) DEF Enter, Idle, ClearCommand, Identifying
    <2>2. ASSUME NEW phase \in Phases, SetWaitForAck(d, phase)
          PROVE  Identifying(d) => Identifying(d)'
      BY <1>0, <2>2, SMTT(30) DEF SetWaitForAck, AfterSend, Identifying
    <2>3. ASSUME NEW phase \in Phases,
                 TestCommand(d, phase) \/ CopyPayload(d, phase) \/ TakeAction(d, phase)
          PROVE  ~Identifying(d)
      BY <1>0, <2>3, SMTT(30) DEF TestCommand, CopyPayload, TakeAction, Identifying
    <2>4. QED
      BY <2>1, <2>2, <2>3 DEF Loop
  <1>5. \A n \in Nodes : \A i \in 1..Len(txq'[n]) : IsIdent(txq'[n][i].msg) => Identifying(n)'
    <2> SUFFICES ASSUME NEW n \in Nodes, NEW i \in 1..Len(txq'[n]), IsIdent(txq'[n][i].msg)
                 PROVE  Identifying(n)'
      OBVIOUS
    <2>1. Identifying(n)
      BY <1>1 DEF Track, Looped
    <2>2. n # d => Identifying(n)'
      BY <1>1, <2>1, Constants DEF Looped, Alone, Identifying
    <2>3. QED
      BY <1>4, <2>1, <2>2
  <1>6. state'[Coord] # <<"ENTER", "ONCE">> => address'[Coord].coordinator = OwnAddress
    <2>1. CASE d # Coord
      BY <1>1, <2>1, Constants DEF Track, Looped, Alone
    <2>2. address \in [Devices -> [pan : Nat, coordinator : Nat, node : Nat]]
      BY DEF IInv, Data
    <2>3. CASE Enter(d) /\ d = Coord
      BY <2>2, <2>3 DEF Enter
    <2>4. ASSUME NEW phase \in Phases, CopyPayload(d, phase), d = Coord
          PROVE  address'[Coord].coordinator = OwnAddress
      <3>1. address[Coord].coordinator = OwnAddress
        BY <2>4 DEF CopyPayload, Track
      <3>2. \/ address' = address
            \/ \E a \in 1..MaxAddress : address' = [address EXCEPT ![Coord].node = a]
        BY <2>4 DEF CopyPayload, CoordinatorReads
      <3>3. QED
        BY <2>2, <3>1, <3>2, Constants
    <2>5. ASSUME d = Coord, address' = address,
                 state[Coord] # <<"ENTER", "ONCE">>
          PROVE  address'[Coord].coordinator = OwnAddress
      BY <2>5 DEF Track
    <2>6. CASE Idle(d) \/ ClearCommand(d)
      BY <2>1, <2>5, <2>6 DEF Idle, ClearCommand, Track
    <2>7. ASSUME NEW phase \in Phases,
                 SetWaitForAck(d, phase) \/ TestCommand(d, phase) \/ TakeAction(d, phase)
          PROVE  d # Coord \/ address'[Coord].coordinator = OwnAddress
      BY <2>5, <2>7, SMTT(30) DEF SetWaitForAck, TestCommand, TakeAction
    <2>8. QED
      BY <2>1, <2>3, <2>4, <2>6, <2>7 DEF Loop
  <1>7. QED
    BY <1>2, <1>3, <1>5, <1>6 DEF Track

(* What a message that is sent, delivered, acknowledged or handed to a      *)
(* callback does to the queues.                                             *)
LEMMA SendEffect ==
    ASSUME IInv, FlightInv, NEW d \in Devices, NEW phase \in Phases, SendMessage(d, phase)
    PROVE  /\ main[d] = "execute" /\ main'[d] = "sent" /\ state[d] = <<phase, "SEND">>
           /\ state' = state /\ Alone(d) /\ box' = box /\ cb' = cb
           /\ address' = address /\ learned' = learned
           /\ txq[d] = <<>> /\ \A x \in Devices : x # d => txq'[x] = txq[x]
           /\ txq'[d] = <<[msg |-> IF d = Coord THEN CoordinatorMessage(phase)
                                                ELSE NodeMessage(d, phase),
                           got |-> FALSE]>>
  <1> DEFINE m == IF d = Coord THEN CoordinatorMessage(phase) ELSE NodeMessage(d, phase)
  <1>1. /\ main[d] = "execute" /\ state[d] = <<phase, "SEND">>
        /\ txq' = [txq EXCEPT ![d] = Append(@, [msg |-> m, got |-> FALSE])]
        /\ main' = [main EXCEPT ![d] = "sent"]
        /\ state' = state /\ cb' = cb /\ box' = box /\ address' = address /\ learned' = learned
    BY DEF SendMessage
  <1> HIDE DEF m
  <1>2. txq[d] = <<>>
    BY <1>1 DEF FlightInv, Flight, InFlight, AtAck
  <1>3. txq'[d] = Append(<<>>, [msg |-> m, got |-> FALSE])
    BY <1>1, <1>2 DEF IInv, Queues
  <1>4. \A x : Append(<<>>, x) = <<x>>
    OBVIOUS
  <1>5. main'[d] = "sent" /\ Alone(d) /\ \A x \in Devices : x # d => txq'[x] = txq[x]
    BY <1>1 DEF IInv, Control, Queues, Alone
  <1>6. QED
    BY <1>1, <1>2, <1>3, <1>4, <1>5 DEF m

LEMMA AcknowledgeEffect ==
    ASSUME IInv, FlightInv, NEW d \in Devices, Acknowledge(d)
    PROVE  /\ main[d] # "idle" /\ state[d] # <<"ENTER", "ONCE">>
           /\ main' = main /\ state' = state /\ box' = box /\ address' = address
           /\ learned' = learned
           /\ txq[d] # <<>> /\ txq'[d] = <<>> /\ cb'[d] = Append(cb[d], Sent)
           /\ \A x \in Devices : x # d => txq'[x] = txq[x] /\ cb'[x] = cb[x]
  <1>1. /\ main[d] # "idle" /\ state[d] # <<"ENTER", "ONCE">> /\ txq[d] # <<>>
        /\ txq' = [txq EXCEPT ![d] = Tail(@)] /\ cb' = [cb EXCEPT ![d] = Append(@, Sent)]
        /\ main' = main /\ state' = state /\ box' = box /\ address' = address
        /\ learned' = learned
    BY DEF Acknowledge, Connected
  <1>2. txq[d] \in Seq(QueuedType) /\ Len(txq[d]) <= 1
    BY DEF IInv, Queues, FlightInv, Flight
  <1>3. /\ Len(txq[d]) \in Nat \ {0} /\ Tail(txq[d]) \in Seq(QueuedType)
        /\ Len(Tail(txq[d])) = Len(txq[d]) - 1
    BY <1>1, <1>2, EmptySeq, HeadTailProperties
  <1>4. Len(Tail(txq[d])) = 0
    <2>1. ASSUME NEW k \in Nat \ {0}, k <= 1 PROVE k - 1 = 0
      BY <2>1
    <2>2. QED
      BY <1>2, <1>3, <2>1, Zenon
  <1>5. Tail(txq[d]) = <<>>
    BY <1>3, <1>4, EmptySeq
  <1>6. txq'[d] = <<>> /\ cb'[d] = Append(cb[d], Sent)
    BY <1>1, <1>5 DEF IInv, Queues
  <1>7. \A x \in Devices : x # d => txq'[x] = txq[x] /\ cb'[x] = cb[x]
    BY <1>1 DEF IInv, Queues
  <1>8. QED
    BY <1>1, <1>6, <1>7

LEMMA DeliverEffect ==
    ASSUME IInv, FlightInv, NEW d \in Devices, NEW e \in Devices, Deliver(d, e)
    PROVE  /\ d # e /\ (d = Coord <=> e # Coord)
           /\ main[d] # "idle" /\ state[d] # <<"ENTER", "ONCE">>
           /\ main[e] # "idle" /\ state[e] # <<"ENTER", "ONCE">>
           /\ main' = main /\ state' = state /\ box' = box /\ address' = address
           /\ learned' = learned
           /\ Len(txq[d]) = 1 /\ Len(txq'[d]) = 1 /\ ~txq[d][1].got /\ txq'[d][1].got
           /\ txq'[d][1].msg = txq[d][1].msg /\ txq[d][1].msg \in MsgType /\ txq[d][1].msg # Sent
           /\ cb'[e] = Append(cb[e], txq[d][1].msg)
           /\ \A x \in Devices : x # d => txq'[x] = txq[x]
           /\ \A x \in Devices : x # e => cb'[x] = cb[x]
  <1> DEFINE first == [txq[d][1] EXCEPT !.got = TRUE]
  <1>1. /\ main[d] # "idle" /\ state[d] # <<"ENTER", "ONCE">>
        /\ main[e] # "idle" /\ state[e] # <<"ENTER", "ONCE">>
        /\ txq[d] # <<>> /\ ~Head(txq[d]).got
        /\ txq' = [txq EXCEPT ![d] = [txq[d] EXCEPT ![1] = first]]
        /\ cb' = [cb EXCEPT ![e] = Append(@, txq[d][1].msg)]
        /\ main' = main /\ state' = state /\ box' = box /\ address' = address
        /\ learned' = learned
    BY DEF Deliver, Connected
  <1>2. d # e /\ (d = Coord <=> e # Coord)
    BY Constants DEF Deliver, Peer
  <1>3. /\ txq[d] \in Seq(QueuedType) /\ Len(txq[d]) <= 1
        /\ \A i \in 1..Len(txq[d]) : txq[d][i].msg # Sent
    BY DEF IInv, Queues, FlightInv, Flight
  <1>4. Len(txq[d]) \in Nat \ {0}
    BY <1>1, <1>3, EmptySeq
  <1>5. Len(txq[d]) = 1
    <2>1. ASSUME NEW k \in Nat \ {0}, k <= 1 PROVE k = 1
      BY <2>1
    <2>2. QED
      BY <1>3, <1>4, <2>1, Zenon
  <1>6. Head(txq[d]) = txq[d][1] /\ txq[d][1] \in QueuedType
    BY <1>3, <1>5
  <1>7. first \in QueuedType /\ first.msg = txq[d][1].msg /\ first.got
    BY <1>6 DEF QueuedType
  <1> HIDE DEF first
  <1>8. Len([txq[d] EXCEPT ![1] = first]) = 1 /\ [txq[d] EXCEPT ![1] = first][1] = first
    BY <1>3, <1>5, <1>7
  <1>9. txq'[d] = [txq[d] EXCEPT ![1] = first]
    BY <1>1 DEF IInv, Queues
  <1>10. txq[d][1].msg \in MsgType /\ txq[d][1].msg # Sent
    BY <1>3, <1>5, <1>6 DEF QueuedType
  <1>11. /\ cb'[e] = Append(cb[e], txq[d][1].msg)
         /\ \A x \in Devices : x # d => txq'[x] = txq[x]
         /\ \A x \in Devices : x # e => cb'[x] = cb[x]
    BY <1>1 DEF IInv, Queues
  <1>12. ~txq[d][1].got
    BY <1>1, <1>6
  <1>13. QED
    BY <1>1, <1>2, <1>5, <1>7, <1>8, <1>9, <1>10, <1>11, <1>12

(* A device without a queue or callbacks, after a procedure of its own.     *)
LEMMA DeinitEffect ==
    ASSUME IInv, NEW d \in Devices, Deinit(d)
    PROVE  /\ main'[d] = "idle" /\ Alone(d) /\ state' = state /\ box' = box
           /\ address' = address /\ learned' = learned
           /\ txq'[d] = <<>> /\ cb'[d] = <<>>
           /\ \A x \in Devices : x # d =>
                /\ cb'[x] = cb[x] /\ Len(txq'[x]) = Len(txq[x])
                /\ \A i \in 1..Len(txq[x]) : txq'[x][i].msg = txq[x][i].msg
                /\ txq[x] = <<>> => txq'[x] = <<>>
  <1>1. /\ Forget(d) /\ main' = [main EXCEPT ![d] = "idle"] /\ state' = state /\ box' = box
        /\ address' = address /\ learned' = learned
        /\ cb' = [cb EXCEPT ![d] = <<>>] /\ txq'[d] = <<>>
    BY DEF Deinit, Forget
  <1>2. ASSUME NEW x \in Devices, x # d
        PROVE  /\ Len(txq'[x]) = Len(txq[x])
               /\ \A i \in 1..Len(txq[x]) : txq'[x][i].msg = txq[x][i].msg
               /\ txq[x] = <<>> => txq'[x] = <<>>
    <2>1. txq'[x] \in Seq(QueuedType) /\ Len(txq'[x]) = Len(txq[x])
          /\ \A i \in 1..Len(txq[x]) : txq'[x][i].msg = txq[x][i].msg
      BY <1>1, <1>2, ForgetMarks
    <2>2. QED
      BY <2>1
  <1>3. QED
    BY <1>1, <1>2 DEF IInv, Queues, Control, Alone

Received(d, m) ==
    [cmd |-> m.cmd, first |-> m.first, rest |-> IF m.rest = Short THEN box[d].rest ELSE m.rest]
Noticed(d) ==
    IF WaitsForAck(state[d])
    THEN <<state[d][1], IF Asks(d, state[d][1]) THEN "WAIT" ELSE "ACTION">>
    ELSE state[d]

LEMMA CallbackEffect ==
    ASSUME IInv, NEW d \in Devices, Callback(d)
    PROVE  /\ main[d] # "idle" /\ state[d] # <<"ENTER", "ONCE">> /\ main' = main
           /\ txq' = txq /\ address' = address /\ learned' = learned /\ Alone(d)
           /\ 1 \in 1..Len(cb[d]) /\ \A x \in Devices : x # d => cb'[x] = cb[x]
           /\ \A i \in 1..Len(cb'[d]) : cb'[d][i] = cb[d][i + 1] /\ i + 1 \in 1..Len(cb[d])
           /\ \/ cb[d][1] = Sent /\ box' = box /\ state'[d] = Noticed(d)
              \/ cb[d][1] # Sent /\ state' = state /\ box'[d] = Received(d, cb[d][1])
  <1>1. /\ main[d] # "idle" /\ state[d] # <<"ENTER", "ONCE">> /\ cb[d] # <<>> /\ main' = main
        /\ txq' = txq /\ address' = address /\ learned' = learned
        /\ cb' = [cb EXCEPT ![d] = Tail(@)] /\ cb[d] \in Seq(MsgType)
    BY DEF Callback, Connected, IInv, Queues
  <1>2. /\ Head(cb[d]) = cb[d][1] /\ 1 \in 1..Len(cb[d])
    BY <1>1
  <1>3. \A x \in Devices : x # d => cb'[x] = cb[x]
    BY <1>1 DEF IInv, Queues
  <1>4. ASSUME NEW i \in 1..Len(cb'[d]) PROVE cb'[d][i] = cb[d][i + 1] /\ i + 1 \in 1..Len(cb[d])
    <2>1. cb'[d] = Tail(cb[d])
      BY <1>1 DEF IInv, Queues
    <2>2. QED
      BY <1>1, <2>1, TailItems, Zenon
  <1>5. CASE cb[d][1] = Sent
    <2>1. /\ box' = box
          /\ state' = [state EXCEPT ![d] = IF WaitsForAck(@)
                         THEN <<@[1], IF Asks(d, @[1]) THEN "WAIT" ELSE "ACTION">> ELSE @]
      BY <1>2, <1>5 DEF Callback, SentCallback
    <2>2. state'[d] = Noticed(d)
      BY <2>1 DEF Noticed, IInv, Control
    <2>3. Alone(d)
      BY <1>1, <2>1 DEF IInv, Control, Alone
    <2>4. QED
      BY <1>1, <1>2, <1>3, <1>4, <1>5, <2>1, <2>2, <2>3
  <1>6. CASE cb[d][1] # Sent
    <2>1. /\ state' = state
          /\ box' = [box EXCEPT ![d] =
               [cmd |-> cb[d][1].cmd, first |-> cb[d][1].first,
                rest |-> IF cb[d][1].rest = Short THEN @.rest ELSE cb[d][1].rest]]
      BY <1>2, <1>6 DEF Callback, ReceivedCallback
    <2>2. box'[d] = Received(d, cb[d][1]) /\ Alone(d)
      BY <1>1, <2>1 DEF Received, IInv, Data, Alone
    <2>3. QED
      BY <1>1, <1>2, <1>3, <1>4, <1>6, <2>1, <2>2
  <1>7. QED
    BY <1>5, <1>6

LEMMA TrackSend ==
    ASSUME IInv, FlightInv, Track, NEW d \in Devices, NEW phase \in Phases, SendMessage(d, phase)
    PROVE  Track'
  <1> DEFINE m == IF d = Coord THEN CoordinatorMessage(phase) ELSE NodeMessage(d, phase)
  <1>1. /\ main[d] = "execute" /\ main'[d] = "sent" /\ state[d] = <<phase, "SEND">>
        /\ state' = state /\ Alone(d) /\ cb' = cb /\ address' = address
        /\ \A x \in Devices : x # d => txq'[x] = txq[x]
        /\ txq'[d] = <<[msg |-> m, got |-> FALSE]>>
    BY SendEffect
  <1>2. \A x \in Devices : Fresh(x)'
    BY <1>1 DEF Track, Fresh, Alone
  <1>3. \A n, p \in Nodes : main'[n] # "idle" /\ main'[p] # "idle" => n = p
    BY <1>1, Constants, SMTT(30) DEF Track, Alone
  <1>4. d # Coord /\ IsIdent(m) => Identifying(d)
    BY <1>1, SMTT(30) DEF NodeMessage, Answer, Ask, IsIdent, Identifying, Phases
  <1> HIDE DEF m
  <1>5. \A n \in Nodes : \A i \in 1..Len(txq'[n]) : IsIdent(txq'[n][i].msg) => Identifying(n)'
    <2> SUFFICES ASSUME NEW n \in Nodes, NEW i \in 1..Len(txq'[n]), IsIdent(txq'[n][i].msg)
                 PROVE  Identifying(n)
      BY <1>1 DEF Identifying
    <2>1. CASE n # d
      BY <1>1, <2>1, Constants DEF Track
    <2>2. CASE n = d
      <3>1. txq'[d][i].msg = m
        BY <1>1, <2>2
      <3>2. QED
        BY <1>4, <2>2, <3>1, Constants
    <2>3. QED
      BY <2>1, <2>2
  <1>6. QED
    BY <1>1, <1>2, <1>3, <1>5 DEF Track

LEMMA TrackStart == ASSUME IInv, FlightInv, Track, NEW d \in Devices, Start(d) PROVE Track'
  <1>1. /\ main[d] = "idle"
        /\ d # Coord => \A n \in Nodes : main[n] = "idle"
        /\ main' = [main EXCEPT ![d] = "execute"]
        /\ state' = [state EXCEPT ![d] = <<"ENTER", "ONCE">>]
        /\ address' = [address EXCEPT ![d] = NoAddress]
        /\ txq' = txq /\ cb' = cb
    BY DEF Start
  <1>2. txq[d] = <<>> /\ cb[d] = <<>>
    BY <1>1 DEF FlightInv, Place
  <1>3. state'[d] = <<"ENTER", "ONCE">>
        /\ \A x \in Devices : x # d => main'[x] = main[x] /\ state'[x] = state[x]
                                      /\ address'[x] = address[x]
    BY <1>1 DEF IInv, Control, Data
  <1>4. \A x \in Devices : Fresh(x)'
    BY <1>1, <1>2, <1>3 DEF Track, Fresh
  <1>5. \A n, p \in Nodes : main'[n] # "idle" /\ main'[p] # "idle" => n = p
    BY <1>1, <1>3, Constants DEF Track
  <1>6. \A n \in Nodes : \A i \in 1..Len(txq'[n]) : IsIdent(txq'[n][i].msg) => Identifying(n)'
    BY <1>1, <1>2, <1>3, Constants DEF Track, Identifying
  <1>7. QED
    BY <1>3, <1>4, <1>5, <1>6, Constants DEF Track

LEMMA TrackDeinit == ASSUME IInv, Track, NEW d \in Devices, Deinit(d) PROVE Track'
  <1>1. /\ main'[d] = "idle" /\ Alone(d) /\ state' = state /\ address' = address
        /\ txq'[d] = <<>> /\ cb'[d] = <<>>
        /\ \A x \in Devices : x # d =>
             /\ cb'[x] = cb[x] /\ Len(txq'[x]) = Len(txq[x])
             /\ \A i \in 1..Len(txq[x]) : txq'[x][i].msg = txq[x][i].msg
             /\ txq[x] = <<>> => txq'[x] = <<>>
    BY DeinitEffect
  <1>2. \A x \in Devices : Fresh(x)'
    BY <1>1 DEF Track, Fresh, Alone
  <1>3. \A n, p \in Nodes : main'[n] # "idle" /\ main'[p] # "idle" => n = p
    BY <1>1, Constants DEF Track, Alone
  <1>4. \A n \in Nodes : \A i \in 1..Len(txq'[n]) : IsIdent(txq'[n][i].msg) => Identifying(n)'
    BY <1>1, Constants DEF Track, Identifying
  <1>5. QED
    BY <1>1, <1>2, <1>3, <1>4 DEF Track

LEMMA TrackRadio ==
    ASSUME IInv, FlightInv, Track, NEW d \in Devices,
           Acknowledge(d) \/ \E e \in Devices : Deliver(d, e)
    PROVE  Track'
  <1>1. CASE Acknowledge(d)
    <2>1. /\ state[d] # <<"ENTER", "ONCE">>
          /\ main' = main /\ state' = state /\ address' = address /\ txq'[d] = <<>>
          /\ \A x \in Devices : x # d => txq'[x] = txq[x] /\ cb'[x] = cb[x]
      BY <1>1, AcknowledgeEffect
    <2>2. \A x \in Devices : Fresh(x)'
      BY <2>1 DEF Track, Fresh
    <2>3. QED
      BY <2>1, <2>2, Constants, SMTT(30) DEF Track, Identifying
  <1>2. ASSUME NEW e \in Devices, Deliver(d, e) PROVE Track'
    <2>1. /\ state[d] # <<"ENTER", "ONCE">> /\ state[e] # <<"ENTER", "ONCE">>
          /\ main' = main /\ state' = state /\ address' = address
          /\ Len(txq[d]) = 1 /\ Len(txq'[d]) = 1 /\ txq'[d][1].msg = txq[d][1].msg
          /\ \A x \in Devices : x # d => txq'[x] = txq[x]
          /\ \A x \in Devices : x # e => cb'[x] = cb[x]
      BY <1>2, DeliverEffect
    <2>2. \A x \in Devices : Fresh(x)'
      BY <2>1 DEF Track, Fresh
    <2>3. \A n \in Nodes : \A i \in 1..Len(txq'[n]) : IsIdent(txq'[n][i].msg) => Identifying(n)'
      BY <2>1, Constants DEF Track, Identifying
    <2>4. QED
      BY <2>1, <2>2, <2>3 DEF Track
  <1>3. QED
    BY <1>1, <1>2

LEMMA TrackCallback ==
    ASSUME IInv, FlightInv, Track, NEW d \in Devices, Callback(d) PROVE Track'
  <1>1. /\ state[d] # <<"ENTER", "ONCE">> /\ main' = main
        /\ txq' = txq /\ address' = address /\ Alone(d)
        /\ 1 \in 1..Len(cb[d]) /\ \A x \in Devices : x # d => cb'[x] = cb[x]
        /\ \/ cb[d][1] = Sent /\ state'[d] = Noticed(d)
           \/ cb[d][1] # Sent /\ state' = state
    BY CallbackEffect
  <1>2. state'[d] # <<"ENTER", "ONCE">>
    BY <1>1 DEF Noticed
  <1>3. \A x \in Devices : Fresh(x)'
    BY <1>1, <1>2 DEF Track, Fresh, Alone
  <1>4. cb[d][1] = Sent => txq[d] = <<>>
    BY <1>1 DEF FlightInv, Flight, PendingSent
  <1>5. \A n \in Nodes : \A i \in 1..Len(txq'[n]) : IsIdent(txq'[n][i].msg) => Identifying(n)'
    <2> SUFFICES ASSUME NEW n \in Nodes, NEW i \in 1..Len(txq[n]), IsIdent(txq[n][i].msg)
                 PROVE  Identifying(n)'
      BY <1>1
    <2>1. Identifying(n)
      BY DEF Track
    <2>2. state'[n] = state[n]
      BY <1>1, <1>4, Constants DEF Alone
    <2>3. QED
      BY <2>1, <2>2 DEF Identifying
  <1>6. state'[Coord] # <<"ENTER", "ONCE">> => address'[Coord].coordinator = OwnAddress
    BY <1>1, Constants DEF Track, Alone
  <1>7. QED
    BY <1>1, <1>3, <1>5, <1>6 DEF Track

LEMMA TrackNext == ASSUME IInv, FlightInv, Track, [Next]_vars PROVE Track'
  <1>1. CASE UNCHANGED vars
    BY <1>1 DEF vars, Track, Fresh, Identifying
  <1>2. QED
    BY <1>1, TrackLoop, TrackSend, TrackStart, TrackDeinit, TrackRadio, TrackCallback
       DEF Next, MainLoop, Loop

-----------------------------------------------------------------------------
(* Another device's step leaves the coordinator where it is.                *)
CoordinatorRests ==
    /\ main'[Coord] = main[Coord] /\ state'[Coord] = state[Coord]
    /\ box'[Coord] = box[Coord] /\ address'[Coord] = address[Coord]
    /\ cb'[Coord] = cb[Coord] /\ txq'[Coord] = txq[Coord]
    /\ learned \subseteq learned'

LEMMA RestsKeeps ==
    ASSUME CoordinatorRests
    PROVE  /\ Assigned' <=> Assigned
           /\ Engaged' <=> Engaged
           /\ Posted' <=> Posted
           /\ Told => Told'
           /\ Answers => Answers'
  <1>1. /\ Assigned' <=> Assigned
        /\ Asked' <=> Asked
        /\ InHand' <=> InHand
        /\ Coming' <=> Coming
    BY DEF CoordinatorRests, Assigned, Asked, InHand, Coming, Reading
  <1>2. Told => Told'
    BY <1>1 DEF CoordinatorRests, Told
  <1>3. Posted' <=> Posted
    BY <1>1 DEF CoordinatorRests, Posted
  <1>4. Answers => Answers'
    BY <1>1, <1>2 DEF CoordinatorRests, Answers, Reading, AddressesIn
  <1>5. QED
    BY <1>1, <1>2, <1>3, <1>4 DEF Engaged

(* What is current stays current.                                           *)
LEMMA CurrentStays ==
    ASSUME NEW n, cb'[n] = cb[n], Posted => Posted', Posted => address'[Coord] = address[Coord]
    PROVE  /\ \A i \in 0..Len(cb[n]) : LastFrom(n, i)' <=> LastFrom(n, i)
           /\ \A i \in 1..Len(cb[n]) : Current(n, i) => Current(n, i)'
           /\ AllCurrent(n) => AllCurrent(n)'
           /\ box'[n].first = box[n].first /\ box'[n].rest = box[n].rest /\ CurrentBox(n)
                => CurrentBox(n)'
  <1>1. \A i \in 0..Len(cb[n]) : LastFrom(n, i)' <=> LastFrom(n, i)
    BY DEF LastFrom
  <1>2. \A i \in 1..Len(cb[n]) : Current(n, i) => Current(n, i)'
    BY <1>1 DEF Current, AddressesIn, LastFrom
  <1>3. QED
    BY <1>1, <1>2 DEF AllCurrent, CurrentBox, AddressesIn, LastFrom

LEMMA UpStays ==
    ASSUME NEW n, Up(n), Posted => Posted', Posted => address'[Coord] = address[Coord],
           Told => Told',
           cb'[n] = cb[n], txq'[n] = txq[n], state'[n] = state[n], box'[n] = box[n],
           main'[n] = main[n] \/ (~Reading(n)' /\ ~Reading(n))
    PROVE  Up(n)'
  <1>1. /\ \A i \in 1..Len(cb[n]) : Current(n, i) => Current(n, i)'
        /\ AllCurrent(n) => AllCurrent(n)'
        /\ CurrentBox(n) => CurrentBox(n)'
    BY CurrentStays
  <1>2. Reading(n)' <=> Reading(n)
    BY DEF Reading
  <1>3. QED
    BY <1>1, <1>2 DEF Up, Identifying

LEMMA NodeLoopUp ==
    ASSUME IInv, FlightInv, AnswerInv, NEW n \in Nodes, Loop(n), Up(n)
    PROVE  Up(n)'
  <1>0. /\ main \in [Devices -> Places] /\ state \in [Devices -> States]
        /\ box \in [Devices -> [cmd : Cmds, first : Nat, rest : Nat \X Nat]]
        /\ n \in Devices /\ n # Coord /\ Coord \in Devices
    BY Constants DEF IInv, Control, Data
  <1>1. Looped(n)
    BY <1>0, LoopKeeps
  <1>2. CoordinatorRests
    BY <1>0, <1>1 DEF Looped, Alone, CoordinatorRests
  <1>3. /\ Posted' <=> Posted
        /\ Posted => address'[Coord] = address[Coord]
        /\ Told => Told'
    BY <1>2, RestsKeeps DEF CoordinatorRests
  <1>4. /\ \A i \in 1..Len(cb[n]) : Current(n, i) => Current(n, i)'
        /\ AllCurrent(n) => AllCurrent(n)'
        /\ box'[n].first = box[n].first /\ box'[n].rest = box[n].rest /\ CurrentBox(n)
             => CurrentBox(n)'
        /\ cb' = cb /\ txq' = txq
    BY <1>1, <1>3, CurrentStays DEF Looped
  <1>5. \A i \in 1..Len(txq'[n]) : IsAnswer(txq'[n][i].msg) /\ ~txq'[n][i].got => Told'
    BY <1>3, <1>4 DEF Up
  <1>6. CASE Enter(n)
    <2>1. state'[n] = <<"AUTH", "WAIT">>
      BY <1>0, <1>6 DEF Enter
    <2>2. QED
      BY <1>5, <2>1 DEF Up, Identifying
  <1>7. CASE Idle(n)
    <2>1. state' = state /\ box' = box /\ ~Reading(n)' /\ ~Reading(n)
      BY <1>0, <1>7 DEF Idle, EndIteration, Reading
    <2>2. QED
      BY <1>3, <1>4, <2>1, UpStays
  <1>8. CASE ClearCommand(n)
    <2>1. /\ state' = state /\ Reading(n) /\ box'[n].cmd = NoCommand
          /\ box'[n].first = box[n].first /\ box'[n].rest = box[n].rest
      BY <1>0, <1>8 DEF ClearCommand, Reading
    <2>2. ~IsAddr(box'[n])
      BY <2>1 DEF IsAddr, NoCommand
    <2>3. QED
      BY <1>3, <1>4, <1>5, <2>1, <2>2 DEF Up, Identifying
  <1>9. ASSUME NEW phase \in Phases, SetWaitForAck(n, phase) PROVE Up(n)'
    <2>1. /\ state[n] = <<phase, "SEND">> /\ state'[n] = <<phase, "WAIT_ACK">>
      BY <1>0, <1>9 DEF SetWaitForAck, AfterSend
    <2>2. Identifying(n)' => Identifying(n)
      BY <2>1 DEF Identifying
    <2>3. QED
      BY <1>4, <1>5, <2>1, <2>2 DEF Up
  <1>10. ASSUME NEW phase \in Phases, TestCommand(n, phase) PROVE Up(n)'
    <2>1. /\ state' = state /\ box' = box /\ state[n] = <<phase, "WAIT">>
          /\ box[n].cmd = Expected(n, phase)
      BY <1>10 DEF TestCommand
    <2>2. phase = "ADDR" <=> IsAddr(box[n])
      BY <1>0, <2>1 DEF Expected, Asks, IsAddr, Phases
    <2>3. QED
      BY <1>4, <1>5, <2>1, <2>2 DEF Up, Identifying
  <1>11. ASSUME NEW phase \in Phases, CopyPayload(n, phase) PROVE Up(n)'
    <2>1. /\ state[n] = <<phase, "WAIT">> /\ main[n] = "copy" /\ box' = box
          /\ state'[n] = <<phase, IF phase = "IDENT" THEN "ACTION" ELSE "SEND">>
          /\ main'[n] \notin {"clear", "copy"}
      BY <1>0, <1>11 DEF CopyPayload, Asks, EndIteration
    <2>2. ~Reading(n)' /\ Reading(n)
      BY <2>1 DEF Reading
    <2>3. CASE phase = "AUTH"
      BY <1>5, <2>1, <2>3 DEF Up, Identifying
    <2>4. CASE phase = "IDENT"
      <3>1. state[n] = <<"IDENT", "WAIT">> /\ state'[n] = <<"IDENT", "ACTION">>
        BY <2>1, <2>4
      <3>2. AllCurrent(n) /\ (IsAddr(box[n]) => CurrentBox(n))
        BY <2>2, <3>1 DEF Up
      <3>3. AllCurrent(n)' /\ (IsAddr(box[n]) => CurrentBox(n)')
        BY <1>4, <2>1, <3>2
      <3>4. IsAddr(box'[n]) => CurrentBox(n)'
        BY <2>1, <3>3 DEF IsAddr
      <3>5. QED
        BY <1>5, <2>2, <3>1, <3>3, <3>4 DEF Up, Identifying
    <2>5. CASE phase = "ADDR"
      <3>1. CurrentBox(n)
        BY <2>1, <2>2, <2>5 DEF Up
      <3>2. learned' = learned \cup {address'[n]} /\ address'[n] = AddressesIn(box[n])
        <4>1. /\ address' = [address EXCEPT ![n] = AddressesIn(box[n])]
              /\ learned' = learned \cup {address'[n]}
          BY <1>0, <1>11, <2>5 DEF CopyPayload, NodeReads
        <4>2. QED
          BY <1>0, <4>1 DEF IInv, Data
      <3>3. Told'
        BY <1>2, <3>1, <3>2, RestsKeeps DEF CurrentBox, Posted, Told, CoordinatorRests
      <3>4. QED
        BY <1>5, <2>1, <2>5, <3>3 DEF Up, Identifying
    <2>6. QED
      BY <2>3, <2>4, <2>5 DEF Phases
  <1>12. ASSUME NEW phase \in Phases, TakeAction(n, phase) PROVE Up(n)'
    <2> DEFINE result == NodeAction(n, phase, action[n])
    <2>1. /\ state[n] = <<phase, "ACTION">> /\ main[n] = "execute" /\ box' = box
          /\ state'[n] = result.state /\ main'[n] \notin {"clear", "copy"}
      BY <1>0, <1>12 DEF TakeAction, EndIteration
    <2>2. result.state \in {<<"EXIT", "ONCE">>, <<phase, "ACTION">>,
                            IF phase = "AUTH" THEN <<"IDENT", "SEND">>
                            ELSE IF phase = "IDENT" THEN <<"ADDR", "WAIT">>
                            ELSE <<"EXIT", "ONCE">>}
      BY <1>0, <2>1, SMTT(30) DEF NodeAction, Entry, Asks, NextPhase, Phases
    <2> HIDE DEF result
    <2>3. ~Reading(n)' /\ ~Reading(n) /\ ~PendingSent(n)
      <3>1. ~Reading(n)' /\ ~Reading(n)
        BY <2>1 DEF Reading
      <3>2. Flight(n) /\ ~AtAck(n) /\ main[n] # "sent"
        BY <1>0, <2>1 DEF FlightInv, AtAck
      <3>3. QED
        BY <3>1, <3>2 DEF Flight, InFlight
    <2>4. \A i \in 1..Len(cb'[n]) : cb'[n][i] # Sent
      BY <1>4, <2>3 DEF PendingSent
    <2>5. CASE phase = "AUTH"
      BY <1>5, <2>1, <2>2, <2>3, <2>4, <2>5 DEF Up, Identifying
    <2>6. CASE phase = "IDENT"
      BY <1>4, <1>5, <2>1, <2>2, <2>3, <2>6 DEF Up, Identifying
    <2>7. CASE phase = "ADDR" /\ state'[n] = <<"ADDR", "ACTION">>
      BY <1>5, <2>3, <2>7 DEF Up, Identifying
    <2>8. CASE phase = "ADDR" /\ state'[n] # <<"ADDR", "ACTION">>
      <3>1. state'[n] = <<"EXIT", "ONCE">>
        BY <2>1, <2>2, <2>8
      <3>2. QED
        BY <1>5, <3>1 DEF Up, Identifying
    <2>9. QED
      BY <2>5, <2>6, <2>7, <2>8 DEF Phases
  <1>13. QED
    BY <1>6, <1>7, <1>8, <1>9, <1>10, <1>11, <1>12 DEF Loop

(* A step of the node that is pairing.                                      *)
LEMMA NodeStep ==
    ASSUME AnswerInv, NEW n \in Nodes, CoordinatorRests, Alone(n), main[n] # "idle",
           Engaged /\ Up(n) => Up(n)'
    PROVE  Answers' /\ NodesUp'
  <1>1. Answers' /\ (Engaged' <=> Engaged)
    BY RestsKeeps DEF AnswerInv
  <1>2. ASSUME Engaged, NEW p \in Nodes, main'[p] # "idle" PROVE Up(p)'
    <2>1. p = n
      BY <1>2, Constants DEF AnswerInv, Track, Alone
    <2>2. QED
      BY <1>2, <2>1 DEF AnswerInv, NodesUp
  <1>3. QED
    BY <1>1, <1>2 DEF NodesUp

LEMMA NodeLoop ==
    ASSUME IInv, FlightInv, AnswerInv, NEW n \in Nodes, Loop(n) PROVE Answers' /\ NodesUp'
  <1>0. n \in Devices /\ n # Coord /\ Coord \in Devices
    BY Constants
  <1>1. Looped(n)
    BY <1>0, LoopKeeps
  <1>2. CoordinatorRests
    BY <1>0, <1>1 DEF Looped, Alone, CoordinatorRests
  <1>3. QED
    BY <1>1, <1>2, NodeLoopUp, NodeStep DEF Looped

LEMMA NodeStart ==
    ASSUME IInv, FlightInv, AnswerInv, NEW n \in Nodes, Start(n) PROVE Answers' /\ NodesUp'
  <1>0. n \in Devices /\ n # Coord /\ Coord \in Devices
    BY Constants
  <1>1. /\ main[n] = "idle" /\ \A p \in Nodes : main[p] = "idle"
        /\ main' = [main EXCEPT ![n] = "execute"]
        /\ state' = [state EXCEPT ![n] = <<"ENTER", "ONCE">>]
        /\ address' = [address EXCEPT ![n] = NoAddress]
        /\ box' = box /\ txq' = txq /\ cb' = cb /\ learned' = learned
    BY <1>0 DEF Start
  <1>2. CoordinatorRests
    BY <1>0, <1>1 DEF CoordinatorRests, IInv, Control, Data
  <1>3. txq'[n] = <<>> /\ state'[n] = <<"ENTER", "ONCE">>
    BY <1>0, <1>1 DEF FlightInv, Place, IInv, Control
  <1>4. Up(n)'
    BY <1>3 DEF Up, Identifying
  <1>5. \A p \in Nodes : main'[p] # "idle" => p = n
    BY <1>0, <1>1, Constants DEF IInv, Control
  <1>6. QED
    BY <1>2, <1>4, <1>5, RestsKeeps DEF AnswerInv, NodesUp

LEMMA NodeSend ==
    ASSUME IInv, FlightInv, AnswerInv, NEW n \in Nodes, NEW phase \in Phases,
           SendMessage(n, phase)
    PROVE  Answers' /\ NodesUp'
  <1>0. n \in Devices /\ n # Coord /\ Coord \in Devices
    BY Constants
  <1> DEFINE m == NodeMessage(n, phase)
  <1>1. /\ main[n] = "execute" /\ main'[n] = "sent" /\ state[n] = <<phase, "SEND">>
        /\ state' = state /\ Alone(n) /\ box' = box /\ cb' = cb
        /\ address' = address /\ learned' = learned
        /\ \A x \in Devices : x # n => txq'[x] = txq[x]
        /\ txq'[n] = <<[msg |-> m, got |-> FALSE]>>
    BY <1>0, SendEffect
  <1>2. CoordinatorRests
    BY <1>0, <1>1 DEF CoordinatorRests, Alone
  <1>3. IsAnswer(m) => phase = "ADDR"
    BY SMTT(30) DEF NodeMessage, Ask, Answer, IsAnswer, Phases
  <1> HIDE DEF m
  <1>4. ASSUME Engaged, Up(n) PROVE Up(n)'
    <2>1. Told => Told'
      BY <1>2, RestsKeeps
    <2>2. Posted' <=> Posted
      BY <1>2, RestsKeeps
    <2>3. AllCurrent(n) => AllCurrent(n)'
      BY <1>1, <2>2, CurrentStays
    <2>4. \A i \in 1..Len(cb[n]) : Current(n, i) => Current(n, i)'
      BY <1>1, <2>2, CurrentStays
    <2>5. \A i \in 1..Len(txq'[n]) : IsAnswer(txq'[n][i].msg) => Told'
      <3>1. \A i \in 1..Len(txq'[n]) : txq'[n][i].msg = m
        BY <1>1
      <3>2. state[n] = <<"ADDR", "SEND">> => Told
        BY <1>4 DEF Up
      <3>3. QED
        BY <1>1, <1>3, <2>1, <3>1, <3>2
    <2>6. state'[n] \in Phases \X {"SEND"}
      BY <1>1
    <2>7. QED
      BY <1>1, <1>4, <2>1, <2>4, <2>5, <2>6 DEF Up, Identifying
  <1>5. QED
    BY <1>1, <1>2, <1>4, NodeStep

LEMMA NodeAcknowledge ==
    ASSUME IInv, FlightInv, AnswerInv, NEW n \in Nodes, Acknowledge(n)
    PROVE  Answers' /\ NodesUp'
  <1>0. n \in Devices /\ n # Coord /\ Coord \in Devices
    BY Constants
  <1>1. /\ main[n] # "idle"
        /\ main' = main /\ state' = state /\ box' = box /\ address' = address
        /\ learned' = learned
        /\ txq'[n] = <<>> /\ cb'[n] = Append(cb[n], Sent)
        /\ \A x \in Devices : x # n => txq'[x] = txq[x] /\ cb'[x] = cb[x]
    BY <1>0, AcknowledgeEffect
  <1>2. CoordinatorRests /\ Alone(n)
    BY <1>0, <1>1 DEF CoordinatorRests, Alone
  <1>3. (Posted' <=> Posted) /\ (Told => Told')
    BY <1>2, RestsKeeps
  <1>4. /\ Len(cb'[n]) = Len(cb[n]) + 1 /\ cb'[n][Len(cb[n]) + 1] = Sent /\ Len(cb[n]) \in Nat
        /\ \A i \in 1..Len(cb[n]) : cb'[n][i] = cb[n][i] /\ i \in 1..Len(cb'[n])
        /\ \A i \in 1..Len(cb'[n]) : i = Len(cb[n]) + 1 \/ i \in 1..Len(cb[n])
    <2>1. cb[n] \in Seq(MsgType)
      BY <1>0 DEF IInv, Queues
    <2>2. QED
      BY <1>1, <2>1, SentIsMsg
  <1>5. ~IsAddr(Sent)
    BY DEF IsAddr, Sent
  <1>6. \A i : LastFrom(n, i) => LastFrom(n, i)'
    BY <1>4 DEF LastFrom
  <1>7. \A i \in 1..Len(cb[n]) : Current(n, i) => Current(n, i)'
    BY <1>1, <1>3, <1>4, <1>6 DEF Current, AddressesIn
  <1>8. AllCurrent(n) => AllCurrent(n)'
    BY <1>4, <1>5, <1>7 DEF AllCurrent
  <1>9. CurrentBox(n) => CurrentBox(n)'
    BY <1>1, <1>3, <1>6 DEF CurrentBox, AddressesIn
  <1>10. ASSUME Up(n), Identifying(n), NEW i \in 1..Len(cb'[n]), NEW j \in 1..Len(cb'[n]),
                i < j, cb'[n][i] = Sent, IsAddr(cb'[n][j])
         PROVE  Current(n, j)'
    <2>1. j \in 1..Len(cb[n])
      BY <1>4, <1>5, <1>10
    <2>2. i \in 1..Len(cb[n])
      BY <1>4, <1>10, <2>1
    <2>3. QED
      BY <1>4, <1>7, <1>10, <2>1, <2>2 DEF Up
  <1>11. Up(n) => Up(n)'
    <2> SUFFICES ASSUME Up(n) PROVE Up(n)'
      OBVIOUS
    <2>1. Identifying(n)' =>
            \A i, j \in 1..Len(cb'[n]) : i < j /\ cb'[n][i] = Sent /\ IsAddr(cb'[n][j])
               => Current(n, j)'
      BY <1>1, <1>10 DEF Identifying
    <2>2. \A i \in 1..Len(txq'[n]) : FALSE
      BY <1>1
    <2>3. QED
      BY <1>1, <1>3, <1>8, <1>9, <2>1, <2>2 DEF Up, Reading
  <1>12. QED
    BY <1>1, <1>2, <1>11, NodeStep

(* The address message is not short: the mailbox holds all of it.           *)
LEMMA AddressReceived ==
    ASSUME IInv, Track, Posted, NEW d \in Devices, NEW m, AddressesIn(m) = address[Coord]
    PROVE  AddressesIn(Received(d, m)) = address[Coord]
  <1>1. address[Coord].coordinator = OwnAddress
    BY DEF Track, Posted, Assigned
  <1>2. m.rest[1] = OwnAddress
    BY <1>1 DEF AddressesIn
  <1>3. m.rest # Short
    BY <1>2, Constants DEF Short
  <1>4. Received(d, m).first = m.first /\ Received(d, m).rest = m.rest
    BY <1>3 DEF Received
  <1>5. QED
    BY <1>4 DEF AddressesIn

LEMMA NodeCallback ==
    ASSUME IInv, FlightInv, AnswerInv, NEW n \in Nodes, Callback(n)
    PROVE  Answers' /\ NodesUp'
  <1>0. n \in Devices /\ n # Coord /\ Coord \in Devices
    BY Constants
  <1>1. /\ main[n] # "idle" /\ main' = main
        /\ txq' = txq /\ address' = address /\ learned' = learned /\ Alone(n)
        /\ 1 \in 1..Len(cb[n]) /\ \A x \in Devices : x # n => cb'[x] = cb[x]
        /\ \A i \in 1..Len(cb'[n]) : cb'[n][i] = cb[n][i + 1] /\ i + 1 \in 1..Len(cb[n])
        /\ \/ cb[n][1] = Sent /\ box' = box /\ state'[n] = Noticed(n)
           \/ cb[n][1] # Sent /\ state' = state /\ box'[n] = Received(n, cb[n][1])
    BY <1>0, CallbackEffect
  <1>2. CoordinatorRests
    BY <1>0, <1>1 DEF CoordinatorRests, Alone
  <1>3. (Posted' <=> Posted) /\ (Told => Told')
    BY <1>2, RestsKeeps
  <1>4. \A i \in 1..Len(cb'[n]) : Current(n, i + 1) => Current(n, i)'
    <2> SUFFICES ASSUME NEW i \in 1..Len(cb'[n]), Current(n, i + 1) PROVE Current(n, i)'
      OBVIOUS
    <2>1. LastFrom(n, i)'
      BY <1>1 DEF Current, LastFrom
    <2>2. QED
      BY <1>1, <1>3, <2>1 DEF Current, AddressesIn
  <1>5. AllCurrent(n) => AllCurrent(n)'
    BY <1>1, <1>4 DEF AllCurrent
  <1>6. LastFrom(n, 0) => LastFrom(n, 0)' /\ cb[n][1] = Sent
    <2> SUFFICES ASSUME LastFrom(n, 0) PROVE LastFrom(n, 0)' /\ cb[n][1] = Sent
      OBVIOUS
    <2>1. cb[n][1] = Sent
      BY <1>1 DEF LastFrom
    <2>2. ASSUME NEW j \in 1..Len(cb'[n]) PROVE cb'[n][j] = Sent
      <3>1. j + 1 > 0 /\ j + 1 \in 1..Len(cb[n])
        BY <1>1
      <3>2. QED
        BY <1>1, <3>1 DEF LastFrom
    <2>3. QED
      BY <2>1, <2>2 DEF LastFrom
  <1>7. ASSUME Up(n), Identifying(n),
               NEW i \in 1..Len(cb'[n]), NEW j \in 1..Len(cb'[n]),
               i < j, cb'[n][i] = Sent, IsAddr(cb'[n][j])
        PROVE  Current(n, j)'
    <2>1. /\ i + 1 \in 1..Len(cb[n]) /\ j + 1 \in 1..Len(cb[n]) /\ i + 1 < j + 1
          /\ cb[n][i + 1] = Sent /\ IsAddr(cb[n][j + 1])
      BY <1>1, <1>7
    <2>2. Current(n, j + 1)
      BY <1>7, <2>1 DEF Up
    <2>3. QED
      BY <1>4, <2>2
  <1>8. ASSUME Up(n) PROVE \A i \in 1..Len(txq'[n]) : IsAnswer(txq'[n][i].msg) /\ ~txq'[n][i].got
                                                       => Told'
    BY <1>1, <1>3, <1>8 DEF Up
  <1>9. CASE cb[n][1] = Sent
    <2>1. box' = box /\ state'[n] = Noticed(n)
      BY <1>1, <1>9
    <2>2. CASE ~WaitsForAck(state[n])
      <3>1. state'[n] = state[n]
        BY <2>1, <2>2 DEF Noticed
      <3>2. CurrentBox(n) => CurrentBox(n)'
        BY <1>1, <1>3, <1>6, <2>1 DEF CurrentBox, AddressesIn
      <3>3. Up(n) => Up(n)'
        <4> SUFFICES ASSUME Up(n) PROVE Up(n)'
          OBVIOUS
        <4>1. Identifying(n)' =>
                \A i, j \in 1..Len(cb'[n]) : i < j /\ cb'[n][i] = Sent /\ IsAddr(cb'[n][j])
                   => Current(n, j)'
          BY <1>7, <3>1 DEF Identifying
        <4>2. QED
          BY <1>1, <1>3, <1>5, <1>8, <2>1, <3>1, <3>2, <4>1 DEF Up, Reading
      <3>4. QED
        BY <1>1, <1>2, <3>3, NodeStep
    <2>3. ASSUME NEW phase \in Phases, state[n] = <<phase, "WAIT_ACK">> PROVE Up(n) => Up(n)'
      <3> SUFFICES ASSUME Up(n) PROVE Up(n)'
        OBVIOUS
      <3>1. state'[n] = <<phase, IF phase = "IDENT" THEN "WAIT" ELSE "ACTION">>
        BY <1>0, <2>1, <2>3 DEF Noticed, WaitsForAck, Asks
      <3>2. ~Reading(n)'
        BY <1>0, <1>1, <2>3 DEF FlightInv, Place, Reading
      <3>3. CASE phase = "IDENT"
        <4>1. state'[n] = <<"IDENT", "WAIT">> /\ Identifying(n)
          BY <2>3, <3>1, <3>3 DEF Identifying
        <4>2. AllCurrent(n)'
          <5> SUFFICES ASSUME NEW i \in 1..Len(cb'[n]), IsAddr(cb'[n][i]) PROVE Current(n, i)'
            BY DEF AllCurrent
          <5>1. i + 1 \in 1..Len(cb[n]) /\ IsAddr(cb[n][i + 1]) /\ 1 < i + 1
            BY <1>1
          <5>2. Current(n, i + 1)
            BY <1>1, <1>9, <4>1, <5>1 DEF Up
          <5>3. QED
            BY <1>4, <5>2
        <4>3. QED
          BY <1>8, <3>2, <4>1, <4>2 DEF Up, Identifying
      <3>4. CASE phase # "IDENT"
        BY <1>8, <3>1, <3>4 DEF Up, Identifying, Phases
      <3>5. QED
        BY <3>3, <3>4
    <2>4. WaitsForAck(state[n]) => \E phase \in Phases : state[n] = <<phase, "WAIT_ACK">>
      BY DEF WaitsForAck
    <2>5. QED
      BY <1>1, <1>2, <2>2, <2>3, <2>4, NodeStep
  <1>10. CASE cb[n][1] # Sent
    <2>1. state' = state /\ box'[n] = Received(n, cb[n][1])
      BY <1>1, <1>10
    <2>2. IsAddr(box'[n]) => IsAddr(cb[n][1])
      BY <2>1 DEF Received, IsAddr
    <2>3. Current(n, 1) => CurrentBox(n)'
      <3> SUFFICES ASSUME Current(n, 1) PROVE CurrentBox(n)'
        OBVIOUS
      <3>1. LastFrom(n, 0)'
        BY <1>1 DEF Current, LastFrom
      <3>2. AddressesIn(box'[n]) = address[Coord]
        BY <1>0, <2>1, AddressReceived DEF AnswerInv, Current
      <3>3. QED
        BY <1>1, <1>3, <3>1, <3>2 DEF Current, CurrentBox, AddressesIn
    <2>4. ~CurrentBox(n)
      BY <1>6, <1>10 DEF CurrentBox
    <2>5. Up(n) => Up(n)'
      <3> SUFFICES ASSUME Up(n) PROVE Up(n)'
        OBVIOUS
      <3>1. Identifying(n)' =>
              \A i, j \in 1..Len(cb'[n]) : i < j /\ cb'[n][i] = Sent /\ IsAddr(cb'[n][j])
                 => Current(n, j)'
        BY <1>7, <2>1 DEF Identifying
      <3>2. AllCurrent(n) /\ IsAddr(box'[n]) => CurrentBox(n)'
        BY <1>1, <2>2, <2>3 DEF AllCurrent
      <3>3. QED
        BY <1>1, <1>3, <1>5, <1>8, <2>1, <2>4, <3>1, <3>2 DEF Up, Reading
    <2>6. QED
      BY <1>1, <1>2, <2>5, NodeStep
  <1>11. QED
    BY <1>9, <1>10

LEMMA NodeDeinit ==
    ASSUME IInv, FlightInv, AnswerInv, NEW n \in Nodes, Deinit(n) PROVE Answers' /\ NodesUp'
  <1>0. n \in Devices /\ n # Coord /\ Coord \in Devices /\ main[n] = "deinit"
    BY Constants DEF Deinit
  <1>1. /\ main'[n] = "idle" /\ Alone(n) /\ state' = state /\ box' = box
        /\ address' = address /\ learned' = learned
        /\ cb'[Coord] = cb[Coord] /\ Len(txq'[Coord]) = Len(txq[Coord])
        /\ \A i \in 1..Len(txq[Coord]) : txq'[Coord][i].msg = txq[Coord][i].msg
    BY <1>0, DeinitEffect
  <1>2. \A p \in Nodes : main'[p] = "idle"
    BY <1>0, <1>1, Constants DEF AnswerInv, Track, Alone
  <1>3. main'[Coord] = main[Coord]
    BY <1>0, <1>1 DEF Alone
  <1>4. /\ Assigned' <=> Assigned
        /\ Asked' <=> Asked
        /\ InHand' <=> InHand
        /\ Told' <=> Told
    BY <1>1, <1>3 DEF Assigned, Asked, InHand, Reading, Told
  <1>5. Answers'
    BY <1>1, <1>3, <1>4 DEF AnswerInv, Answers, Reading, AddressesIn
  <1>6. QED
    BY <1>2, <1>5 DEF NodesUp

-----------------------------------------------------------------------------
(* A step of the coordinator that leaves the nodes where they are.          *)
LEMMA CoordinatorStep ==
    ASSUME AnswerInv, Alone(Coord), \A n \in Nodes : cb'[n] = cb[n] /\ txq'[n] = txq[n],
           Engaged' => Engaged, Posted => Posted', Posted => address'[Coord] = address[Coord],
           Told => Told'
    PROVE  NodesUp'
  <1> SUFFICES ASSUME Engaged', NEW n \in Nodes, main'[n] # "idle" PROVE Up(n)'
    BY DEF NodesUp
  <1>1. main'[n] = main[n] /\ state'[n] = state[n] /\ box'[n] = box[n]
    BY Constants DEF Alone
  <1>2. Up(n)
    BY <1>1 DEF AnswerInv, NodesUp
  <1>3. QED
    BY <1>1, <1>2, UpStays

LEMMA CoordinatorLoop ==
    ASSUME IInv, FlightInv, AnswerInv, Loop(Coord) PROVE Answers' /\ NodesUp'
  <1>0. /\ main \in [Devices -> Places] /\ state \in [Devices -> States]
        /\ box \in [Devices -> [cmd : Cmds, first : Nat, rest : Nat \X Nat]]
        /\ Coord \in Devices /\ \A n \in Nodes : n \in Devices /\ n # Coord
    BY Constants DEF IInv, Control, Data
  <1>1. /\ txq' = txq /\ cb' = cb /\ Alone(Coord) /\ main[Coord] # "idle" /\ main'[Coord] # "idle"
        /\ main'[Coord] # "sent"
        /\ learned \subseteq learned'
    BY <1>0, LoopKeeps DEF Looped
  <1>2. Answers /\ Track
    BY DEF AnswerInv
  <1>3. CASE Enter(Coord)
    <2>1. /\ state[Coord] = <<"ENTER", "ONCE">> /\ state'[Coord] = <<"AUTH", "SEND">>
          /\ txq[Coord] = <<>> /\ cb[Coord] = <<>>
      BY <1>0, <1>1, <1>2, <1>3 DEF Enter, Track, Fresh
    <2>2. ~Assigned' /\ ~InHand' /\ ~Coming' /\ ~Assigned
      BY <1>1, <2>1 DEF Assigned, InHand, Coming
    <2>3. Answers'
      BY <1>1, <2>1, <2>2 DEF Answers
    <2>4. QED
      BY <1>1, <2>2, <2>3, CoordinatorStep DEF Engaged, Posted, Told
  <1>4. ASSUME state'[Coord] = state[Coord], box'[Coord] = box[Coord],
               address'[Coord] = address[Coord], Reading(Coord)' <=> Reading(Coord),
               main[Coord] # "sent"
        PROVE  Answers' /\ NodesUp'
    <2>1. /\ Assigned' <=> Assigned
          /\ Asked' <=> Asked
          /\ InHand' <=> InHand
          /\ Coming' <=> Coming
      BY <1>1, <1>4 DEF Assigned, Asked, InHand, Coming
    <2>2. Told => Told'
      BY <1>1, <1>4, <2>1 DEF Told
    <2>3. Posted' <=> Posted
      BY <1>1, <2>1 DEF Posted
    <2>4. Answers'
      BY <1>1, <1>2, <1>4, <2>1, <2>2 DEF Answers, AddressesIn
    <2>5. QED
      BY <1>1, <1>4, <2>1, <2>2, <2>3, <2>4, CoordinatorStep DEF Engaged
  <1>5. CASE Idle(Coord)
    <2>1. /\ state' = state /\ box' = box /\ address' = address
          /\ main[Coord] = "execute" /\ main'[Coord] \in {"execute", "deinit"}
      BY <1>0, <1>5 DEF Idle, EndIteration
    <2>2. QED
      BY <1>4, <2>1 DEF Reading
  <1>6. CASE ClearCommand(Coord)
    <2>1. /\ state' = state /\ address' = address /\ Reading(Coord) /\ Reading(Coord)'
          /\ box'[Coord].cmd = NoCommand /\ main[Coord] # "sent"
      BY <1>0, <1>6 DEF ClearCommand, Reading
    <2>2. /\ Assigned' <=> Assigned
          /\ Asked' <=> Asked
          /\ Coming' <=> Coming
          /\ InHand' => InHand
      BY <1>1, <2>1 DEF Assigned, Asked, InHand, Coming, IsIdent, NoCommand
    <2>3. Told => Told'
      BY <1>1, <2>1, <2>2 DEF Told
    <2>4. Posted' <=> Posted
      BY <1>1, <2>2 DEF Posted
    <2>5. ~IsAnswer(box'[Coord])
      BY <2>1 DEF IsAnswer, NoCommand
    <2>6. Answers'
      BY <1>1, <1>2, <2>1, <2>2, <2>3, <2>5 DEF Answers, AddressesIn
    <2>7. QED
      BY <1>1, <2>1, <2>2, <2>3, <2>4, <2>6, CoordinatorStep DEF Engaged
  <1>7. ASSUME NEW phase \in Phases, SetWaitForAck(Coord, phase) PROVE Answers' /\ NodesUp'
    <2>1. /\ main[Coord] = "sent" /\ state[Coord] = <<phase, "SEND">>
          /\ state'[Coord] = <<phase, "WAIT_ACK">> /\ box' = box /\ address' = address
      BY <1>0, <1>7 DEF SetWaitForAck, AfterSend
    <2>2. /\ Assigned' <=> Assigned
          /\ Asked' <=> Asked
          /\ ~InHand' /\ ~InHand
          /\ Coming' <=> Coming
      BY <1>1, <2>1 DEF Assigned, Asked, InHand, Coming, Phases
    <2>3. Told => Told'
      BY <1>1, <2>1, <2>2 DEF Told
    <2>4. Posted' <=> Posted
      BY <1>1, <2>2 DEF Posted
    <2>5. Answers'
      BY <1>1, <1>2, <2>1, <2>2, <2>3 DEF Answers, AddressesIn
    <2>6. QED
      BY <1>1, <2>1, <2>2, <2>3, <2>4, <2>5, CoordinatorStep DEF Engaged
  <1>8. ASSUME NEW phase \in Phases, TestCommand(Coord, phase) PROVE Answers' /\ NodesUp'
    <2>1. /\ state' = state /\ state[Coord] = <<phase, "WAIT">> /\ box' = box
          /\ address' = address
          /\ box[Coord].cmd = <<phase, IF phase = "IDENT" THEN "MESSAGE" ELSE "RESPONSE">>
      BY <1>8 DEF TestCommand, Expected, Asks
    <2>2. /\ Assigned' <=> Assigned
          /\ Asked' <=> Asked
          /\ Coming' <=> Coming
      BY <1>1, <2>1 DEF Assigned, Asked, Coming
    <2>3. InHand' => InHand
      BY <1>1, <2>1 DEF InHand, IsIdent, Phases
    <2>4. Told => Told'
      BY <1>1, <2>1, <2>2 DEF Told
    <2>5. Posted' <=> Posted
      BY <1>1, <2>2 DEF Posted
    <2>6. phase = "ADDR" => address[Coord] \in learned
      <3>1. phase = "ADDR" => Assigned /\ IsAnswer(box[Coord])
        BY <1>1, <2>1 DEF Assigned, IsAnswer
      <3>2. QED
        BY <1>2, <3>1 DEF Answers, Told
    <2>7. Answers'
      BY <1>1, <1>2, <2>1, <2>2, <2>3, <2>4, <2>6 DEF Answers, AddressesIn
    <2>8. QED
      BY <1>1, <2>1, <2>2, <2>3, <2>4, <2>5, <2>7, CoordinatorStep DEF Engaged
  <1>9. ASSUME NEW phase \in Phases, CopyPayload(Coord, phase) PROVE Answers' /\ NodesUp'
    <2>1. /\ state[Coord] = <<phase, "WAIT">> /\ main[Coord] = "copy" /\ box' = box
          /\ state'[Coord] = <<phase, IF phase = "IDENT" THEN "SEND" ELSE "ACTION">>
          /\ learned' = learned /\ Reading(Coord)
          /\ phase # "IDENT" => address' = address
      BY <1>0, <1>9 DEF CopyPayload, Asks, Reading, CoordinatorReads
    <2>2. ~Reading(Coord)'
      BY <1>0, <1>9 DEF CopyPayload, EndIteration, Reading
    <2>3. Coming' <=> Coming
      BY <1>1, <2>1 DEF Coming
    <2>4. CASE phase = "AUTH"
      <3>1. ~Assigned' /\ ~Assigned /\ ~Asked' /\ ~Asked /\ (InHand' <=> InHand)
        BY <1>1, <2>1, <2>2, <2>4 DEF Assigned, Asked, InHand
      <3>2. Answers'
        BY <1>1, <1>2, <2>1, <2>2, <2>4, <3>1 DEF Answers, Told
      <3>3. QED
        BY <1>1, <2>3, <3>1, <3>2, CoordinatorStep DEF Engaged, Posted, Told
    <2>5. CASE phase = "IDENT"
      <3>1. InHand /\ ~Assigned /\ ~Asked /\ ~Asked' /\ ~InHand' /\ Assigned'
        BY <1>1, <2>1, <2>2, <2>5 DEF Assigned, Asked, InHand
      <3>2. ~Told
        BY <3>1 DEF Told
      <3>3. Answers'
        BY <1>1, <1>2, <2>1, <2>2, <2>5, <3>1, <3>2 DEF Answers
      <3>4. QED
        BY <1>1, <3>1, <3>2, <3>3, CoordinatorStep DEF Engaged, Posted
    <2>6. CASE phase = "ADDR"
      <3>1. (Assigned' <=> Assigned) /\ (Asked' <=> Asked) /\ ~InHand' /\ ~InHand
        BY <1>1, <2>1, <2>2, <2>6 DEF Assigned, Asked, InHand
      <3>2. (Told => Told') /\ (Posted' <=> Posted)
        BY <1>1, <2>1, <2>6, <3>1 DEF Told, Posted
      <3>3. address[Coord] \in learned
        BY <1>2, <2>1, <2>6 DEF Answers
      <3>4. Answers'
        BY <1>1, <1>2, <2>1, <2>2, <2>6, <3>1, <3>2, <3>3 DEF Answers, AddressesIn
      <3>5. QED
        BY <1>1, <2>1, <2>3, <2>6, <3>1, <3>2, <3>4, CoordinatorStep DEF Engaged
    <2>7. QED
      BY <2>4, <2>5, <2>6 DEF Phases
  <1>10. ASSUME NEW phase \in Phases, TakeAction(Coord, phase) PROVE Answers' /\ NodesUp'
    <2> DEFINE result == CoordinatorAction(phase, action[Coord])
    <2>1. /\ state[Coord] = <<phase, "ACTION">> /\ main[Coord] = "execute" /\ box' = box
          /\ state'[Coord] = result.state /\ address' = address /\ learned' = learned
      BY <1>0, <1>10 DEF TakeAction
    <2>2. result.state \in {<<"EXIT", "ONCE">>, <<phase, "ACTION">>,
                            IF phase = "AUTH" THEN <<"IDENT", "WAIT">>
                            ELSE IF phase = "IDENT" THEN <<"ADDR", "SEND">>
                            ELSE <<"EXIT", "ONCE">>}
      BY <1>0, <2>1, SMTT(30) DEF CoordinatorAction, Entry, Asks, NextPhase, Phases
    <2> HIDE DEF result
    <2>3. ~Reading(Coord)' /\ ~Reading(Coord)
      BY <1>0, <1>10 DEF TakeAction, EndIteration, Reading
    <2>4. txq[Coord] = <<>>
      <3>1. Flight(Coord) /\ ~AtAck(Coord) /\ main[Coord] # "sent"
        BY <1>0, <2>1 DEF FlightInv, AtAck
      <3>2. QED
        BY <3>1 DEF Flight, InFlight
    <2>5. CASE state'[Coord] = state[Coord]
      BY <1>4, <2>1, <2>3, <2>5
    <2>6. CASE state'[Coord] = <<"EXIT", "ONCE">>
      <3>1. ~Assigned' /\ ~InHand' /\ ~Coming'
        BY <2>6 DEF Assigned, InHand, Coming
      <3>2. Answers'
        BY <1>1, <2>4, <2>6, <3>1 DEF Answers
      <3>3. QED
        BY <3>1, <3>2 DEF Engaged, NodesUp
    <2>7. CASE phase = "AUTH" /\ state'[Coord] = <<"IDENT", "WAIT">>
      <3>1. ~Assigned' /\ ~Assigned /\ ~Asked' /\ ~Asked /\ (InHand' <=> InHand)
            /\ (Coming' <=> Coming)
        BY <1>1, <2>1, <2>3, <2>7 DEF Assigned, Asked, InHand, Coming
      <3>2. Answers'
        BY <1>1, <1>2, <2>1, <2>3, <2>4, <2>7, <3>1 DEF Answers, Told
      <3>3. QED
        BY <1>1, <3>1, <3>2, CoordinatorStep DEF Engaged, Posted, Told
    <2>8. CASE phase = "IDENT" /\ state'[Coord] = <<"ADDR", "SEND">>
      <3>1. Assigned' /\ Assigned /\ ~Asked' /\ ~Asked /\ ~InHand' /\ ~InHand
            /\ (Coming' <=> Coming)
        BY <1>1, <2>1, <2>3, <2>8 DEF Assigned, Asked, InHand, Coming
      <3>2. Told' <=> Told
        BY <2>1, <3>1 DEF Told
      <3>3. Answers'
        BY <1>1, <1>2, <2>1, <2>3, <2>4, <2>8, <3>1, <3>2 DEF Answers
      <3>4. QED
        BY <1>1, <2>1, <3>1, <3>2, <3>3, CoordinatorStep DEF Engaged, Posted
    <2>9. QED
      BY <2>1, <2>2, <2>5, <2>6, <2>7, <2>8 DEF Phases
  <1>11. QED
    BY <1>3, <1>5, <1>6, <1>7, <1>8, <1>9, <1>10 DEF Loop

LEMMA CoordinatorStart ==
    ASSUME IInv, FlightInv, AnswerInv, Start(Coord) PROVE Answers' /\ NodesUp'
  <1>1. /\ main[Coord] = "idle" /\ state' = [state EXCEPT ![Coord] = <<"ENTER", "ONCE">>]
        /\ txq' = txq /\ cb' = cb
    BY DEF Start
  <1>2. txq'[Coord] = <<>> /\ cb'[Coord] = <<>> /\ state'[Coord] = <<"ENTER", "ONCE">>
    BY <1>1, Constants DEF FlightInv, Place, IInv, Control
  <1>3. ~Assigned' /\ ~InHand' /\ ~Coming'
    BY <1>2 DEF Assigned, InHand, Coming
  <1>4. Answers'
    BY <1>2, <1>3 DEF Answers
  <1>5. QED
    BY <1>3, <1>4 DEF NodesUp, Engaged

LEMMA CoordinatorDeinit ==
    ASSUME IInv, AnswerInv, Deinit(Coord) PROVE Answers' /\ NodesUp'
  <1>1. /\ main'[Coord] = "idle" /\ state' = state /\ address' = address /\ learned' = learned
        /\ txq'[Coord] = <<>> /\ cb'[Coord] = <<>>
    BY Constants, DeinitEffect
  <1>2. ~Assigned' /\ ~InHand' /\ ~Coming' /\ ~Reading(Coord)'
    BY <1>1 DEF Assigned, InHand, Coming, Reading
  <1>3. Answers'
    BY <1>1, <1>2 DEF AnswerInv, Answers
  <1>4. QED
    BY <1>2, <1>3 DEF NodesUp, Engaged

LEMMA CoordinatorSend ==
    ASSUME IInv, FlightInv, AnswerInv, NEW phase \in Phases, SendMessage(Coord, phase)
    PROVE  Answers' /\ NodesUp'
  <1> DEFINE m == CoordinatorMessage(phase)
  <1>0. Coord \in Devices /\ \A n \in Nodes : n \in Devices /\ n # Coord
    BY Constants
  <1>1. /\ main[Coord] = "execute" /\ main'[Coord] = "sent" /\ state[Coord] = <<phase, "SEND">>
        /\ state' = state /\ Alone(Coord) /\ box' = box /\ cb' = cb
        /\ address' = address /\ learned' = learned
        /\ \A x \in Devices : x # Coord => txq'[x] = txq[x]
        /\ txq'[Coord] = <<[msg |-> m, got |-> FALSE]>>
    BY <1>0, SendEffect
  <1>2. IsAddr(m) => phase = "ADDR" /\ AddressesIn(m) = address[Coord]
    <2>1. IsAddr(m) => phase = "ADDR"
      BY SMTT(30) DEF CoordinatorMessage, Ask, Answer, IsAddr, Phases
    <2>2. phase = "ADDR" => m = Ask(phase, address[Coord].pan,
                                    <<address[Coord].coordinator, address[Coord].node>>)
      BY DEF CoordinatorMessage
    <2>3. address[Coord] \in [pan : Nat, coordinator : Nat, node : Nat]
      BY <1>0 DEF IInv, Data
    <2>4. phase = "ADDR" => AddressesIn(m) = address[Coord]
      BY <2>2, <2>3 DEF Ask, AddressesIn
    <2>5. QED
      BY <2>1, <2>4
  <1> HIDE DEF m
  <1>3. /\ Assigned' <=> Assigned
        /\ ~InHand' /\ ~InHand
        /\ Coming' <=> Coming
        /\ ~Asked
        /\ (phase = "ADDR" => Asked' /\ Assigned')
        /\ ~Reading(Coord)'
    <2>1. /\ state'[Coord] = state[Coord]
          /\ state[Coord] \in {<<"AUTH", "SEND">>, <<"IDENT", "SEND">>, <<"ADDR", "SEND">>}
          /\ (phase = "ADDR" => state[Coord] = <<"ADDR", "SEND">>)
      BY <1>1 DEF Phases
    <2>2. ~Reading(Coord) /\ ~Reading(Coord)'
      BY <1>1 DEF Reading
    <2>3. ~InHand' /\ ~InHand
      BY <2>1, <2>2 DEF InHand
    <2>4. Assigned' <=> Assigned
      BY <1>1, <2>1 DEF Assigned
    <2>5. Coming' <=> Coming
      BY <1>1 DEF Coming
    <2>6. ~Asked
      BY <1>1, <2>1 DEF Asked
    <2>7. phase = "ADDR" => Asked' /\ Assigned'
      BY <1>1, <2>1 DEF Asked, Assigned
    <2>8. QED
      BY <2>2, <2>3, <2>4, <2>5, <2>6, <2>7
  <1>4. Told' <=> Told
    BY <1>1, <1>3 DEF Told
  <1>5. \A i \in 1..Len(txq'[Coord]) : txq'[Coord][i].msg = m
    BY <1>1
  <1>6. Answers'
    BY <1>1, <1>2, <1>3, <1>4, <1>5 DEF AnswerInv, Answers
  <1>7. QED
    BY <1>0, <1>1, <1>3, <1>4, <1>6, CoordinatorStep DEF Engaged, Posted

LEMMA CoordinatorAcknowledge ==
    ASSUME IInv, FlightInv, AnswerInv, Acknowledge(Coord) PROVE Answers' /\ NodesUp'
  <1>0. Coord \in Devices /\ \A n \in Nodes : n \in Devices /\ n # Coord
    BY Constants
  <1>1. /\ main' = main /\ state' = state /\ box' = box /\ address' = address
        /\ learned' = learned
        /\ txq'[Coord] = <<>> /\ cb'[Coord] = Append(cb[Coord], Sent)
        /\ \A x \in Devices : x # Coord => txq'[x] = txq[x] /\ cb'[x] = cb[x]
    BY <1>0, AcknowledgeEffect
  <1>2. /\ Len(cb'[Coord]) = Len(cb[Coord]) + 1 /\ Len(cb[Coord]) \in Nat
        /\ cb'[Coord][Len(cb[Coord]) + 1] = Sent
        /\ \A i \in 1..Len(cb[Coord]) : cb'[Coord][i] = cb[Coord][i]
        /\ \A i \in 1..Len(cb'[Coord]) : i = Len(cb[Coord]) + 1 \/ i \in 1..Len(cb[Coord])
    <2>1. cb[Coord] \in Seq(MsgType)
      BY <1>0 DEF IInv, Queues
    <2>2. QED
      BY <1>1, <2>1, SentIsMsg
  <1>3. ~IsIdent(Sent) /\ ~IsAnswer(Sent)
    BY DEF IsIdent, IsAnswer, Sent
  <1>4. /\ Assigned' <=> Assigned
        /\ InHand' <=> InHand
        /\ Asked' <=> Asked
        /\ Told' <=> Told
    BY <1>1 DEF Assigned, InHand, Asked, Told, Reading
  <1>5. Coming' => Coming
    BY <1>1, <1>2, <1>3 DEF Coming
  <1>6. \A i \in 1..Len(cb'[Coord]) :
           IsIdent(cb'[Coord][i]) \/ IsAnswer(cb'[Coord][i])
             => i \in 1..Len(cb[Coord]) /\ cb'[Coord][i] = cb[Coord][i]
    BY <1>2, <1>3
  <1>7. Answers'
    <2>1. Answers
      BY DEF AnswerInv
    <2>2. Assigned' \/ InHand' =>
            /\ IsAnswer(box'[Coord]) => Told'
            /\ \A i \in 1..Len(cb'[Coord]) : IsAnswer(cb'[Coord][i]) => Told'
      BY <1>1, <1>4, <1>6, <2>1 DEF Answers
    <2>3. state'[Coord] # <<"EXIT", "ONCE">> =>
            \A i, j \in 1..Len(cb'[Coord]) :
               i < j /\ IsIdent(cb'[Coord][i]) /\ IsAnswer(cb'[Coord][j]) => Told'
      BY <1>1, <1>4, <1>6, <2>1 DEF Answers
    <2>4. QED
      BY <1>1, <2>1, <2>2, <2>3 DEF Answers, Reading
  <1>8. Posted => Posted'
    BY <1>1, <1>4 DEF Posted
  <1>9. Alone(Coord)
    BY <1>1 DEF Alone
  <1>10. QED
    BY <1>0, <1>1, <1>4, <1>5, <1>7, <1>8, <1>9, CoordinatorStep DEF Engaged

LEMMA CoordinatorCallback ==
    ASSUME IInv, FlightInv, AnswerInv, Callback(Coord) PROVE Answers' /\ NodesUp'
  <1>0. Coord \in Devices /\ \A n \in Nodes : n \in Devices /\ n # Coord
    BY Constants
  <1>1. /\ main' = main /\ main[Coord] # "idle"
        /\ txq' = txq /\ address' = address /\ learned' = learned /\ Alone(Coord)
        /\ 1 \in 1..Len(cb[Coord]) /\ \A x \in Devices : x # Coord => cb'[x] = cb[x]
        /\ \A i \in 1..Len(cb'[Coord]) :
              cb'[Coord][i] = cb[Coord][i + 1] /\ i + 1 \in 1..Len(cb[Coord])
        /\ \/ cb[Coord][1] = Sent /\ box' = box /\ state'[Coord] = Noticed(Coord)
           \/ cb[Coord][1] # Sent /\ state' = state /\ box'[Coord] = Received(Coord, cb[Coord][1])
    BY <1>0, CallbackEffect
  <1>2. Answers
    BY DEF AnswerInv
  <1>3. ASSUME state[Coord] # <<"EXIT", "ONCE">>,
               NEW i \in 1..Len(cb'[Coord]), NEW j \in 1..Len(cb'[Coord]),
               i < j, IsIdent(cb'[Coord][i]), IsAnswer(cb'[Coord][j])
        PROVE  Told
    <2>1. /\ i + 1 \in 1..Len(cb[Coord]) /\ j + 1 \in 1..Len(cb[Coord]) /\ i + 1 < j + 1
          /\ IsIdent(cb[Coord][i + 1]) /\ IsAnswer(cb[Coord][j + 1])
      BY <1>1, <1>3
    <2>2. QED
      BY <1>2, <1>3, <2>1 DEF Answers
  <1>4. CASE cb[Coord][1] = Sent
    <2>1. box' = box /\ state'[Coord] = Noticed(Coord)
      BY <1>1, <1>4
    <2>2. \/ state'[Coord] = state[Coord]
          \/ /\ ~Reading(Coord)
             /\ \/ state[Coord] = <<"AUTH", "WAIT_ACK">> /\ state'[Coord] = <<"AUTH", "WAIT">>
                \/ state[Coord] = <<"IDENT", "WAIT_ACK">> /\ state'[Coord] = <<"IDENT", "ACTION">>
                \/ state[Coord] = <<"ADDR", "WAIT_ACK">> /\ state'[Coord] = <<"ADDR", "WAIT">>
      <3>1. CASE ~WaitsForAck(state[Coord])
        BY <2>1, <3>1 DEF Noticed
      <3>2. CASE WaitsForAck(state[Coord])
        <4>1. PICK phase \in Phases : state[Coord] = <<phase, "WAIT_ACK">>
          BY <3>2 DEF WaitsForAck
        <4>2. state'[Coord] = <<phase, IF phase # "IDENT" THEN "WAIT" ELSE "ACTION">>
          BY <2>1, <3>2, <4>1 DEF Noticed, Asks
        <4>3. ~Reading(Coord)
          BY <1>0, <4>1 DEF FlightInv, Place, Reading
        <4>4. QED
          BY <4>1, <4>2, <4>3 DEF Phases
      <3>3. QED
        BY <3>1, <3>2
    <2>3. Reading(Coord)' <=> Reading(Coord)
      BY <1>1 DEF Reading
    <2>4. /\ Assigned' <=> Assigned
          /\ Asked' <=> Asked
          /\ InHand' <=> InHand
      <3>1. main'[Coord] = main[Coord] /\ box'[Coord] = box[Coord]
        BY <1>1, <2>1
      <3>2. CASE state'[Coord] = state[Coord]
        BY <2>3, <3>1, <3>2 DEF Assigned, Asked, InHand, IsIdent
      <3>3. CASE state[Coord] = <<"AUTH", "WAIT_ACK">> /\ state'[Coord] = <<"AUTH", "WAIT">>
        <4>1. ~Reading(Coord) /\ ~Reading(Coord)'
          BY <2>2, <2>3, <3>3
        <4>2. QED
          BY <3>1, <3>3, <4>1 DEF Assigned, Asked, InHand
      <3>4. CASE state[Coord] = <<"IDENT", "WAIT_ACK">> /\ state'[Coord] = <<"IDENT", "ACTION">>
        BY <3>1, <3>4 DEF Assigned, Asked, InHand
      <3>5. CASE state[Coord] = <<"ADDR", "WAIT_ACK">> /\ state'[Coord] = <<"ADDR", "WAIT">>
        BY <3>1, <3>5 DEF Assigned, Asked, InHand
      <3>6. QED
        BY <2>2, <3>2, <3>3, <3>4, <3>5
    <2>5. Coming' => Coming
      BY <1>1, <2>2 DEF Coming
    <2>6. (Told' <=> Told) /\ (Posted' <=> Posted)
      BY <1>1, <2>4 DEF Told, Posted
    <2>7. Answers'
      <3>1. Assigned' \/ InHand' =>
              /\ IsAnswer(box'[Coord]) => Told'
              /\ \A i \in 1..Len(cb'[Coord]) : IsAnswer(cb'[Coord][i]) => Told'
        BY <1>1, <1>2, <2>1, <2>4, <2>6 DEF Answers
      <3>2. state'[Coord] # <<"EXIT", "ONCE">> =>
              \A i, j \in 1..Len(cb'[Coord]) :
                 i < j /\ IsIdent(cb'[Coord][i]) /\ IsAnswer(cb'[Coord][j]) => Told'
        BY <1>3, <2>2, <2>6
      <3>3. state'[Coord] = <<"ADDR", "WAIT">> /\ Reading(Coord)' => address'[Coord] \in learned'
        BY <1>1, <1>2, <2>2, <2>3 DEF Answers
      <3>4. state'[Coord] = <<"ADDR", "ACTION">> => address'[Coord] \in learned'
        BY <1>1, <1>2, <2>2 DEF Answers
      <3>5. QED
        BY <1>1, <1>2, <2>4, <3>1, <3>2, <3>3, <3>4 DEF Answers, AddressesIn
    <2>8. QED
      BY <1>0, <1>1, <2>4, <2>5, <2>6, <2>7, CoordinatorStep DEF Engaged
  <1>5. CASE cb[Coord][1] # Sent
    <2>1. state' = state /\ box'[Coord] = Received(Coord, cb[Coord][1])
      BY <1>1, <1>5
    <2>2. /\ IsAnswer(box'[Coord]) <=> IsAnswer(cb[Coord][1])
          /\ IsIdent(box'[Coord]) <=> IsIdent(cb[Coord][1])
      BY <2>1 DEF Received, IsAnswer, IsIdent
    <2>3. Reading(Coord)' <=> Reading(Coord)
      BY <1>1 DEF Reading
    <2>4. (Assigned' <=> Assigned) /\ (Asked' <=> Asked)
      BY <1>1, <2>1 DEF Assigned, Asked
    <2>5. (Told' <=> Told) /\ (Posted' <=> Posted)
      BY <1>1, <2>4 DEF Told, Posted
    <2>6. Coming' => Coming
      BY <1>1, <2>1 DEF Coming
    <2>7. InHand' => InHand \/ (state[Coord] # <<"EXIT", "ONCE">> /\ IsIdent(cb[Coord][1]))
      BY <1>1, <2>1, <2>2, <2>3 DEF InHand
    <2>8. IsIdent(cb[Coord][1]) => ~IsAnswer(cb[Coord][1])
      BY DEF IsIdent, IsAnswer
    <2>9. ASSUME Assigned' \/ InHand'
          PROVE  /\ IsAnswer(box'[Coord]) => Told'
                 /\ \A i \in 1..Len(cb'[Coord]) : IsAnswer(cb'[Coord][i]) => Told'
      <3>1. CASE Assigned \/ InHand
        BY <1>1, <1>2, <2>2, <2>5, <3>1 DEF Answers
      <3>2. CASE ~Assigned /\ ~InHand
        <4>1. state[Coord] # <<"EXIT", "ONCE">> /\ IsIdent(cb[Coord][1])
          BY <2>4, <2>7, <2>9, <3>2
        <4>2. ASSUME NEW i \in 1..Len(cb'[Coord]), IsAnswer(cb'[Coord][i]) PROVE Told
          <5>1. i + 1 \in 1..Len(cb[Coord]) /\ 1 < i + 1 /\ IsAnswer(cb[Coord][i + 1])
            BY <1>1, <4>2
          <5>2. QED
            BY <1>1, <1>2, <4>1, <5>1 DEF Answers
        <4>3. QED
          BY <2>2, <2>5, <2>8, <4>1, <4>2
      <3>3. QED
        BY <3>1, <3>2
    <2>10. Answers'
      <3>1. state'[Coord] # <<"EXIT", "ONCE">> =>
              \A i, j \in 1..Len(cb'[Coord]) :
                 i < j /\ IsIdent(cb'[Coord][i]) /\ IsAnswer(cb'[Coord][j]) => Told'
        BY <1>3, <2>1, <2>5
      <3>2. QED
        BY <1>1, <1>2, <2>1, <2>3, <2>4, <2>9, <3>1 DEF Answers, AddressesIn
    <2>11. Engaged' => Engaged
      BY <1>1, <2>4, <2>6, <2>7 DEF Engaged, Coming
    <2>12. QED
      BY <1>0, <1>1, <2>5, <2>10, <2>11, CoordinatorStep
  <1>6. QED
    BY <1>4, <1>5

(* The coordinator's message reaches a node.                                *)
LEMMA DeliverToNode ==
    ASSUME IInv, FlightInv, AnswerInv, NEW n \in Nodes, Deliver(Coord, n)
    PROVE  Answers' /\ NodesUp'
  <1>0. n \in Devices /\ n # Coord /\ Coord \in Devices
    BY Constants
  <1> DEFINE m == txq[Coord][1].msg
  <1>1. /\ main[n] # "idle"
        /\ main' = main /\ state' = state /\ box' = box /\ address' = address
        /\ learned' = learned
        /\ Len(txq[Coord]) = 1 /\ Len(txq'[Coord]) = 1
        /\ ~txq[Coord][1].got /\ txq'[Coord][1].got
        /\ txq'[Coord][1].msg = m /\ m \in MsgType
        /\ cb'[n] = Append(cb[n], m)
        /\ \A x \in Devices : x # Coord => txq'[x] = txq[x]
        /\ \A x \in Devices : x # n => cb'[x] = cb[x]
    BY <1>0, DeliverEffect
  <1>2. /\ Assigned' <=> Assigned
        /\ InHand' <=> InHand
        /\ Asked' <=> Asked
        /\ Told' <=> Told
        /\ Coming' <=> Coming
    BY <1>0, <1>1 DEF Assigned, InHand, Asked, Told, Reading, Coming
  <1>3. IsAddr(m) => Assigned /\ Asked /\ AddressesIn(m) = address[Coord]
    BY <1>1 DEF AnswerInv, Answers
  <1>4. Answers'
    <2>1. \A i \in 1..Len(txq'[Coord]) : i = 1
      BY <1>1
    <2>2. Answers
      BY DEF AnswerInv
    <2>3. cb'[Coord] = cb[Coord]
      BY <1>0, <1>1
    <2>4. \A i \in 1..Len(txq'[Coord]) : IsAddr(txq'[Coord][i].msg) =>
             /\ Assigned' /\ Asked'
             /\ AddressesIn(txq'[Coord][i].msg) = address'[Coord]
      BY <1>1, <1>2, <1>3, <2>1
    <2>5. QED
      BY <1>1, <1>2, <2>2, <2>3, <2>4 DEF Answers, Reading, AddressesIn
  <1>5. txq[Coord] # <<>>
    BY <1>1
  <1>6. ~Posted
    BY <1>1, <1>5 DEF Posted
  <1> HIDE DEF m
  <1>7. /\ Len(cb'[n]) = Len(cb[n]) + 1 /\ cb'[n][Len(cb[n]) + 1] = m /\ Len(cb[n]) \in Nat
        /\ \A i \in 1..Len(cb[n]) : cb'[n][i] = cb[n][i] /\ i \in 1..Len(cb'[n])
        /\ \A i \in 1..Len(cb'[n]) : i = Len(cb[n]) + 1 \/ i \in 1..Len(cb[n])
    <2>1. cb[n] \in Seq(MsgType)
      BY <1>0 DEF IInv, Queues
    <2>2. QED
      BY <1>1, <2>1
  <1>8. ASSUME IsAddr(m), NEW i \in Nat, i = Len(cb[n]) + 1 PROVE Current(n, i)'
    <2>1. Posted'
      BY <1>1, <1>2, <1>3, <1>8 DEF Posted
    <2>2. ASSUME NEW j \in 1..Len(cb'[n]), j > i PROVE FALSE
      BY <1>7, <1>8, <2>2
    <2>3. LastFrom(n, i)'
      BY <2>2 DEF LastFrom
    <2>4. AddressesIn(cb'[n][i]) = address'[Coord]
      BY <1>1, <1>3, <1>7, <1>8
    <2>5. QED
      BY <2>1, <2>3, <2>4 DEF Current
  <1>9. AllCurrent(n) => AllCurrent(n)'
    <2> SUFFICES ASSUME AllCurrent(n), NEW i \in 1..Len(cb'[n]), IsAddr(cb'[n][i])
                 PROVE  Current(n, i)'
      BY DEF AllCurrent
    <2>1. CASE i \in 1..Len(cb[n])
      BY <1>6, <1>7, <2>1 DEF AllCurrent, Current
    <2>2. CASE i = Len(cb[n]) + 1
      BY <1>7, <1>8, <2>2
    <2>3. QED
      BY <1>7, <2>1, <2>2
  <1>10. ~CurrentBox(n)
    BY <1>6 DEF CurrentBox
  <1>11. ASSUME Up(n), Identifying(n), NEW i \in 1..Len(cb'[n]), NEW j \in 1..Len(cb'[n]),
                i < j, cb'[n][i] = Sent, IsAddr(cb'[n][j])
         PROVE  Current(n, j)'
    <2>1. CASE j \in 1..Len(cb[n])
      <3>1. i \in 1..Len(cb[n])
        BY <1>7, <1>11, <2>1
      <3>2. Current(n, j)
        BY <1>7, <1>11, <2>1, <3>1 DEF Up
      <3>3. QED
        BY <1>6, <3>2 DEF Current
    <2>2. CASE j = Len(cb[n]) + 1
      BY <1>7, <1>8, <1>11, <2>2
    <2>3. QED
      BY <1>7, <2>1, <2>2
  <1>12. Up(n) => Up(n)'
    <2> SUFFICES ASSUME Up(n) PROVE Up(n)'
      OBVIOUS
    <2>1. txq'[n] = txq[n]
      BY <1>0, <1>1
    <2>2. Identifying(n)' =>
            \A i, j \in 1..Len(cb'[n]) : i < j /\ cb'[n][i] = Sent /\ IsAddr(cb'[n][j])
               => Current(n, j)'
      BY <1>1, <1>11 DEF Identifying
    <2>3. QED
      BY <1>1, <1>2, <1>9, <1>10, <2>1, <2>2 DEF Up, Reading
  <1>13. NodesUp'
    <2> SUFFICES ASSUME Engaged', NEW p \in Nodes, main'[p] # "idle" PROVE Up(p)'
      BY DEF NodesUp
    <2>1. p = n
      BY <1>1 DEF AnswerInv, Track
    <2>2. QED
      BY <1>1, <1>2, <1>12, <2>1 DEF AnswerInv, NodesUp, Engaged
  <1>14. QED
    BY <1>4, <1>13

(* A node's message reaches the coordinator; if it is an identification,    *)
(* the node has not seen its acknowledgement.                               *)
LEMMA DeliverToCoordinator ==
    ASSUME IInv, FlightInv, AnswerInv, NEW n \in Nodes, Deliver(n, Coord)
    PROVE  Answers' /\ NodesUp'
  <1>0. n \in Devices /\ n # Coord /\ Coord \in Devices
    BY Constants
  <1> DEFINE m == txq[n][1].msg
  <1>1. /\ main[n] # "idle" /\ main[Coord] # "idle"
        /\ main' = main /\ state' = state /\ box' = box /\ address' = address
        /\ learned' = learned
        /\ Len(txq[n]) = 1 /\ Len(txq'[n]) = 1
        /\ ~txq[n][1].got /\ txq'[n][1].got
        /\ txq'[n][1].msg = m /\ m \in MsgType
        /\ cb'[Coord] = Append(cb[Coord], m)
        /\ \A x \in Devices : x # n => txq'[x] = txq[x]
        /\ \A x \in Devices : x # Coord => cb'[x] = cb[x]
    BY <1>0, DeliverEffect
  <1>2. /\ Assigned' <=> Assigned
        /\ InHand' <=> InHand
        /\ Asked' <=> Asked
        /\ Told' <=> Told
        /\ Posted' <=> Posted
    BY <1>0, <1>1 DEF Assigned, InHand, Asked, Told, Posted, Reading
  <1>3. Engaged /\ IsAnswer(m) => Told
    <2>1. Engaged => Up(n)
      BY <1>1 DEF AnswerInv, NodesUp
    <2>2. 1 \in 1..Len(txq[n])
      BY <1>1
    <2>3. QED
      BY <1>1, <2>1, <2>2 DEF Up
  <1>4. IsIdent(m) => Identifying(n)
    <2>1. 1 \in 1..Len(txq[n])
      BY <1>1
    <2>2. QED
      BY <2>1 DEF AnswerInv, Track
  <1>5. ~PendingSent(n)
    <2>1. txq[n] # <<>>
      BY <1>1
    <2>2. QED
      BY <1>0, <2>1 DEF FlightInv, Flight
  <1> HIDE DEF m
  <1>6. /\ Len(cb'[Coord]) = Len(cb[Coord]) + 1 /\ Len(cb[Coord]) \in Nat
        /\ cb'[Coord][Len(cb[Coord]) + 1] = m
        /\ \A i \in 1..Len(cb[Coord]) : cb'[Coord][i] = cb[Coord][i]
        /\ \A i \in 1..Len(cb'[Coord]) : i = Len(cb[Coord]) + 1 \/ i \in 1..Len(cb[Coord])
    <2>1. cb[Coord] \in Seq(MsgType)
      BY <1>0 DEF IInv, Queues
    <2>2. QED
      BY <1>1, <2>1
  <1>7. Coming' => Coming \/ IsIdent(m)
    BY <1>1, <1>6 DEF Coming
  <1>8. Answers'
    <2>1. Answers
      BY DEF AnswerInv
    <2>2. ASSUME Assigned' \/ InHand'
          PROVE  /\ IsAnswer(box'[Coord]) => Told'
                 /\ \A i \in 1..Len(cb'[Coord]) : IsAnswer(cb'[Coord][i]) => Told'
      <3>1. Engaged
        BY <1>2, <2>2 DEF Engaged
      <3>2. ASSUME NEW i \in 1..Len(cb'[Coord]), IsAnswer(cb'[Coord][i]) PROVE Told
        <4>1. CASE i \in 1..Len(cb[Coord])
          BY <1>2, <1>6, <2>1, <2>2, <3>2, <4>1 DEF Answers
        <4>2. CASE i = Len(cb[Coord]) + 1
          BY <1>3, <1>6, <3>1, <3>2, <4>2
        <4>3. QED
          BY <1>6, <4>1, <4>2
      <3>3. QED
        BY <1>1, <1>2, <2>1, <2>2, <3>2 DEF Answers
    <2>3. ASSUME state'[Coord] # <<"EXIT", "ONCE">>,
                 NEW i \in 1..Len(cb'[Coord]), NEW j \in 1..Len(cb'[Coord]),
                 i < j, IsIdent(cb'[Coord][i]), IsAnswer(cb'[Coord][j])
          PROVE  Told
      <3>1. i \in 1..Len(cb[Coord]) /\ cb'[Coord][i] = cb[Coord][i]
        BY <1>6, <2>3
      <3>2. CASE j \in 1..Len(cb[Coord])
        <4>1. cb'[Coord][j] = cb[Coord][j]
          BY <1>6, <3>2
        <4>2. QED
          BY <1>1, <2>1, <2>3, <3>1, <3>2, <4>1 DEF Answers
      <3>3. CASE j = Len(cb[Coord]) + 1
        <4>1. Engaged
          BY <1>1, <2>3, <3>1 DEF Engaged, Coming
        <4>2. QED
          BY <1>3, <1>6, <2>3, <3>3, <4>1
      <3>4. QED
        BY <1>6, <3>2, <3>3
    <2>4. txq'[Coord] = txq[Coord]
      BY <1>0, <1>1
    <2>5. QED
      BY <1>1, <1>2, <2>1, <2>2, <2>3, <2>4 DEF Answers, Reading, AddressesIn
  <1>9. /\ cb'[n] = cb[n] /\ \A i \in 1..Len(txq'[n]) : i = 1
    BY <1>0, <1>1
  <1>10. \A i \in 1..Len(txq'[n]) : ~(IsAnswer(txq'[n][i].msg) /\ ~txq'[n][i].got)
    BY <1>1, <1>9
  <1>11. /\ \A i \in 1..Len(cb[n]) : Current(n, i) => Current(n, i)'
         /\ AllCurrent(n) => AllCurrent(n)'
         /\ CurrentBox(n) => CurrentBox(n)'
    BY <1>1, <1>2, <1>9, CurrentStays
  <1>12. Up(n) => Up(n)'
    BY <1>1, <1>2, <1>9, <1>10, <1>11 DEF Up, Identifying, Reading
  <1>13. IsIdent(m) => Up(n)'
    <2>1. \A i \in 1..Len(cb'[n]) : cb'[n][i] # Sent
      BY <1>5, <1>9 DEF PendingSent
    <2>2. IsIdent(m) => Identifying(n)'
      BY <1>1, <1>4 DEF Identifying
    <2>3. QED
      BY <1>10, <2>1, <2>2 DEF Up, Identifying
  <1>14. NodesUp'
    <2> SUFFICES ASSUME Engaged', NEW p \in Nodes, main'[p] # "idle" PROVE Up(p)'
      BY DEF NodesUp
    <2>1. p = n
      BY <1>1 DEF AnswerInv, Track
    <2>2. Engaged \/ IsIdent(m)
      BY <1>2, <1>7 DEF Engaged
    <2>3. QED
      BY <1>1, <1>12, <1>13, <2>1, <2>2 DEF AnswerInv, NodesUp
  <1>15. QED
    BY <1>8, <1>14

LEMMA AnswerInit == Init => AnswerInv
  <1> SUFFICES ASSUME Init PROVE AnswerInv
    OBVIOUS
  <1>1. /\ txq[Coord] = <<>> /\ cb[Coord] = <<>> /\ state[Coord] = <<"ENTER", "ONCE">>
    BY Constants DEF Init
  <1>2. ~Assigned /\ ~InHand /\ ~Coming
    BY <1>1 DEF Assigned, InHand, Coming
  <1>3. Answers
    BY <1>1, <1>2 DEF Answers
  <1>4. QED
    BY <1>2, <1>3, TrackInit DEF AnswerInv, NodesUp, Engaged

LEMMA AnswerNext == ASSUME IInv, FlightInv, AnswerInv, [Next]_vars PROVE AnswerInv'
  <1>1. Track'
    BY TrackNext DEF AnswerInv
  <1>2. CASE UNCHANGED vars
    <2>1. CoordinatorRests /\ Alone(Coord)
          /\ \A n \in Nodes : cb'[n] = cb[n] /\ txq'[n] = txq[n]
      BY <1>2 DEF vars, CoordinatorRests, Alone
    <2>2. Answers' /\ NodesUp'
      BY <2>1, RestsKeeps, CoordinatorStep DEF AnswerInv, CoordinatorRests
    <2>3. QED
      BY <1>1, <2>2 DEF AnswerInv
  <1>3. ASSUME NEW d \in Devices, Start(d) PROVE Answers' /\ NodesUp'
    BY <1>3, Constants, NodeStart, CoordinatorStart
  <1>4. ASSUME NEW d \in Devices, Loop(d) PROVE Answers' /\ NodesUp'
    BY <1>4, Constants, NodeLoop, CoordinatorLoop
  <1>5. ASSUME NEW d \in Devices, Deinit(d) PROVE Answers' /\ NodesUp'
    BY <1>5, Constants, NodeDeinit, CoordinatorDeinit
  <1>6. ASSUME NEW d \in Devices, NEW phase \in Phases, SendMessage(d, phase)
        PROVE  Answers' /\ NodesUp'
    BY <1>6, Constants, NodeSend, CoordinatorSend
  <1>7. ASSUME NEW d \in Devices, Callback(d) PROVE Answers' /\ NodesUp'
    BY <1>7, Constants, NodeCallback, CoordinatorCallback
  <1>8. ASSUME NEW d \in Devices, Acknowledge(d) PROVE Answers' /\ NodesUp'
    BY <1>8, Constants, NodeAcknowledge, CoordinatorAcknowledge
  <1>9. ASSUME NEW d \in Devices, NEW e \in Devices, Deliver(d, e) PROVE Answers' /\ NodesUp'
    <2>1. d = Coord <=> e # Coord
      BY <1>9, DeliverEffect
    <2>2. QED
      BY <1>9, <2>1, Constants, DeliverToNode, DeliverToCoordinator
  <1>10. ASSUME NEW d \in Devices, MainLoop(d) PROVE Answers' /\ NodesUp'
    BY <1>4, <1>5, <1>6, <1>10 DEF MainLoop, Loop
  <1>11. CASE Next
    <2>1. Answers' /\ NodesUp'
      BY <1>3, <1>7, <1>8, <1>9, <1>10, <1>11 DEF Next
    <2>2. QED
      BY <1>1, <2>1 DEF AnswerInv
  <1>12. QED
    BY <1>2, <1>11

(* The step in which the coordinator reports success.                       *)
LEMMA SuccessStep ==
    ASSUME IInv, AnswerInv, [Next]_vars, event[Coord] # "SUCCESS", event'[Coord] = "SUCCESS"
    PROVE  address[Coord] \in learned
  <1>0. event \in [Devices -> Events] /\ Coord \in Devices
    BY Constants DEF IInv, Control
  <1>1. ASSUME NEW d \in Devices, NEW e, EndIteration(d, e), d # Coord \/ e # "SUCCESS"
        PROVE  FALSE
    BY <1>0, <1>1, EndingEvent
  <1>2. ASSUME NEW d \in Devices, Loop(d) PROVE address[Coord] \in learned
    <2>1. CASE Enter(d) \/ Idle(d)
      BY <1>1, <2>1 DEF Enter, Idle
    <2>2. CASE ClearCommand(d)
      BY <2>2 DEF ClearCommand
    <2>3. ASSUME NEW phase \in Phases, SetWaitForAck(d, phase) \/ CopyPayload(d, phase)
          PROVE  FALSE
      BY <1>1, <2>3 DEF SetWaitForAck, CopyPayload
    <2>4. ASSUME NEW phase \in Phases, TestCommand(d, phase) PROVE FALSE
      BY <2>4 DEF TestCommand
    <2>5. ASSUME NEW phase \in Phases, TakeAction(d, phase) PROVE address[Coord] \in learned
      <3> DEFINE result == IF d = Coord THEN CoordinatorAction(phase, action[d])
                                        ELSE NodeAction(d, phase, action[d])
      <3>1. EndIteration(d, result.event) /\ state[d] = <<phase, "ACTION">>
        BY <2>5 DEF TakeAction
      <3>2. d = Coord /\ result.event = "SUCCESS"
        BY <1>1, <3>1
      <3>3. phase = "ADDR"
        BY <3>2, SMTT(30) DEF CoordinatorAction
      <3>4. QED
        BY <3>1, <3>2, <3>3 DEF AnswerInv, Answers
    <2>6. QED
      BY <1>2, <2>1, <2>2, <2>3, <2>4, <2>5 DEF Loop
  <1>3. ASSUME NEW d \in Devices, Start(d) PROVE FALSE
    BY <1>0, <1>3 DEF Start
  <1>4. ASSUME NEW d \in Devices,
               \/ Deinit(d) \/ Callback(d) \/ Acknowledge(d)
               \/ \E e \in Devices : Deliver(d, e)
               \/ \E phase \in Phases : SendMessage(d, phase)
        PROVE  FALSE
    <2>1. event' = event
      BY <1>4 DEF Deinit, Callback, Acknowledge, Deliver, SendMessage
    <2>2. QED
      BY <2>1
  <1>5. CASE UNCHANGED vars
    BY <1>5 DEF vars
  <1>6. QED
    BY <1>2, <1>3, <1>4, <1>5 DEF Next, MainLoop, Loop

(* The coordinator reports success only for an address that a node has      *)
(* taken over, for any number of nodes and procedures, although callbacks   *)
(* interrupt the main loops, procedures are given up and started again,     *)
(* frames are acknowledged and discarded, and a mailbox keeps what an       *)
(* earlier procedure left in it.                                            *)
THEOREM SuccessMeansLearned == Spec => CoordinatorSuccess
  <1>1. Init => FlightInv /\ AnswerInv
    BY FlightInit, AnswerInit
  <1>2. IInv /\ FlightInv /\ AnswerInv /\ [Next]_vars => FlightInv' /\ AnswerInv'
    BY FlightNext, AnswerNext
  <1>3. IInv /\ AnswerInv /\ [Next]_vars
          => [event[Coord] # "SUCCESS" /\ event'[Coord] = "SUCCESS"
                => address[Coord] \in learned]_vars
    BY SuccessStep
  <1>4. QED
    BY <1>1, <1>2, <1>3, Invariance, PTL DEF Spec, CoordinatorSuccess
=============================================================================
