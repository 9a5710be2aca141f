---------------------------- MODULE AudioStream -----------------------------
(***************************************************************************)
(* What an audio pipeline promises a listener, without queues, nodes or     *)
(* interrupts: packets 1, 2, ... are produced; each consumer hears packets   *)
(* in the order they were produced, none twice; packets may be lost on the   *)
(* way, but one that was lost is never heard afterwards.                     *)
(***************************************************************************)
EXTENDS Naturals

VARIABLES
    listeners,  \* the consumers; they never change
    sent,       \* packets 1..sent were produced
    transit,    \* transit[c]: packets consumer c may still hear
    heard       \* heard[c]: the last packet consumer c heard, 0 before the first

vars == <<listeners, sent, transit, heard>>

Init ==
    /\ sent = 0
    /\ transit = [c \in listeners |-> {}]
    /\ heard = [c \in listeners |-> 0]

(* A packet enters; older ones may be lost to make room for it.             *)
Put ==
    /\ sent' = sent + 1
    /\ \E kept \in [listeners -> SUBSET (1 .. sent)] :
          /\ \A c \in listeners : kept[c] \subseteq transit[c]
          /\ transit' = [c \in listeners |-> kept[c] \cup {sent + 1}]
    /\ UNCHANGED <<listeners, heard>>

Lose ==
    /\ \E kept \in [listeners -> SUBSET (1 .. sent)] :
          /\ \A c \in listeners : kept[c] \subseteq transit[c]
          /\ transit' = kept
    /\ UNCHANGED <<listeners, sent, heard>>

(* Consumer c hears its oldest packet.                                      *)
Play(c) ==
    /\ \E p \in transit[c] :
          /\ \A q \in transit[c] : p <= q
          /\ transit' = [transit EXCEPT ![c] = @ \ {p}]
          /\ heard' = [heard EXCEPT ![c] = p]
    /\ UNCHANGED <<listeners, sent>>

Next == Put \/ Lose \/ \E c \in listeners : Play(c)

Spec == Init /\ [][Next]_vars
=============================================================================
