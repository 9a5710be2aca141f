---------------------------- MODULE ReliableLink ----------------------------
(***************************************************************************)
(* What a connection in guaranteed delivery mode promises, without radios,  *)
(* sequence numbers or retransmissions.  Payloads 1, 2, ... are submitted   *)
(* in order and leave in order; only the oldest one that has not left can   *)
(* reach the peer; it is confirmed to the application only after it did;    *)
(* and the application may give up on waiting payloads.  Reaching the peer   *)
(* more than once is a stutter: the specification is about loss and order.  *)
(***************************************************************************)
EXTENDS Naturals

CONSTANT NumMsgs

VARIABLES
    submitted,  \* payloads 1..submitted were handed to the connection
    settled,    \* payloads 1..settled left it, confirmed or given up
    reached,    \* payloads that reached the peer's MAC
    confirmed   \* payloads reported as delivered

vars == <<submitted, settled, reached, confirmed>>

Init == submitted = 0 /\ settled = 0 /\ reached = {} /\ confirmed = {}

Submit ==
    /\ submitted < NumMsgs
    /\ submitted' = submitted + 1
    /\ UNCHANGED <<settled, reached, confirmed>>

Reach ==
    /\ settled < submitted
    /\ reached' = reached \cup {settled + 1}
    /\ UNCHANGED <<submitted, settled, confirmed>>

Confirm ==
    /\ settled < submitted
    /\ settled + 1 \in reached
    /\ confirmed' = confirmed \cup {settled + 1}
    /\ settled' = settled + 1
    /\ UNCHANGED <<submitted, reached>>

GiveUp ==
    /\ settled' \in settled..submitted
    /\ UNCHANGED <<submitted, reached, confirmed>>

Next == Submit \/ Reach \/ Confirm \/ GiveUp

Spec == Init /\ [][Next]_vars
=============================================================================
