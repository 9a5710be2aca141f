----------------------------- MODULE MCPairing ------------------------------
(***************************************************************************)
(* Instances of Pairing for TLC.  The node has role 2, the value that also  *)
(* says "failed" in a response, and its serialised address is that of the   *)
(* coordinator, so that the search for an available address has work to do. *)
(***************************************************************************)
EXTENDS Pairing

NodesMC == {"left", "right"}
OneNode == {"left"}
RoleMC == [n \in Nodes |-> IF n = "left" THEN 2 ELSE 1]
UniqueIdMC == [d \in Devices |-> IF d = Coord THEN 10 ELSE IF d = "left" THEN 11 ELSE 12]
GeneratedMC == [u \in {0} \cup {UniqueIdMC[d] : d \in Devices} |-> IF u = 12 THEN 4 ELSE 2]
OnceEach == [d \in Devices |-> 1]
CoordinatorTwice == [d \in Devices |-> IF d = Coord THEN 2 ELSE 1]
TwiceEach == [d \in Devices |-> 2]

Use(same, preempt, interrupted, attentive, again) ==
    [code |-> [d \in Devices |-> IF d = Coord \/ same THEN 8 ELSE 9],
     preempt |-> preempt, interrupted |-> interrupted, lossy |-> interrupted,
     attentive |-> attentive, again |-> again]

(* Nothing goes wrong.                                                      *)
Attentive == {Use(same, FALSE, FALSE, TRUE, FALSE) : same \in BOOLEAN}
(* One procedure, interrupted anywhere.                                     *)
Interrupted == {Use(same, TRUE, TRUE, FALSE, FALSE) : same \in BOOLEAN}
(* Procedures repeated, callbacks between state functions.                  *)
Again == {Use(same, FALSE, TRUE, FALSE, TRUE) : same \in BOOLEAN}
All == Attentive \cup Interrupted \cup Again

(* Two nodes, "right" before and again after "left"; no frame is lost.      *)
SecondNode == {[Use(TRUE, FALSE, TRUE, FALSE, TRUE) EXCEPT !.lossy = FALSE]}
RightTwice == [d \in Devices |-> IF d = "right" THEN 2 ELSE 1]

(* Callbacks that interrupt state functions of repeated procedures.         *)
Overwritten == {Use(TRUE, TRUE, TRUE, FALSE, TRUE)}

(* How to find what a second node does to the first, with SecondNode, and   *)
(* what a repeated procedure of the coordinator does to a node that is      *)
(* between test and copy of its mailbox, with Overwritten: NodeSuccess      *)
(* without its conditions:                                                  *)
OwnRole ==
    [][\A n \in Nodes : event[n] # "SUCCESS" /\ event'[n] = "SUCCESS"
         => (Role[n] < ListSize => list[Role[n]] = address[n].node)]_vars

(* The search is narrowed to steps in which callbacks and main loops have   *)
(* run before a frame goes out, and in which only the nodes give up, each   *)
(* once.                                                                   *)
Within(d) == main[d] \in {"sent", "clear", "copy"}
Ready(d) ==
    /\ main[d] = "execute"
    /\ \/ state[d][2] \in {"SEND", "ACTION"} \/ state[d] = <<"ENTER", "ONCE">>
       \/ \E phase \in Phases : state[d] = <<phase, "WAIT">> /\ box[d].cmd = Expected(d, phase)
Progress(d) == main'[d] # main[d] \/ state'[d] # state[d]
Eager ==
    IF \E d \in Devices : Within(d) THEN \E d \in Devices : Within(d) /\ Progress(d)
    ELSE IF \E d \in Devices : cb[d] # <<>> THEN \E d \in Devices : cb[d] # cb'[d] /\ txq' = txq
    ELSE (\E d \in Devices : Ready(d)) => \E d \in Devices : Ready(d) /\ Progress(d)
GivesUp(d) == event[d] = "NONE" /\ event'[d] \in {"ABORT", "TIMEOUT"}
NodesGiveUpOnce ==
    /\ ~GivesUp(Coord)
    /\ GivesUp("left") => state'["left"] = <<"IDENT", "WAIT_ACK">>
    /\ GivesUp("right") => started["right"] = 1 /\ state'["right"] = <<"AUTH", "WAIT">>
    /\ started'["left"] = 1 => started'["right"] >= 1
    /\ started'["right"] = 2 => started'["left"] = 1
=============================================================================
