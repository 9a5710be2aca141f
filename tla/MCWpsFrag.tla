----------------------------- MODULE MCWpsFrag ------------------------------
(***************************************************************************)
(* Instances of WpsFrag for TLC.                                            *)
(***************************************************************************)
EXTENDS WpsFrag

Use(polling, lossy, exact, queueSize, poolSize) ==
    [polling |-> polling, lossy |-> lossy, exact |-> exact,
     queueSize |-> queueSize, poolSize |-> poolSize]

(* The receiver's queues hold the longest payload, or all payloads together *)
(* so that a slow reader overruns nothing.                                  *)
ReadInCallback(exact) == Use(FALSE, TRUE, exact, 3, 3)
Polling == Use(TRUE, FALSE, FALSE, 9, 9)

ExactSetups == {ReadInCallback(TRUE)}

(* A queue for two frames: there payloads have at most two fragments, and   *)
(* there is one more of them.                                               *)
ShortPayloads == Use(FALSE, TRUE, FALSE, 2, 2)
LinkSetups == {ReadInCallback(FALSE), Polling, ShortPayloads}

InBounds ==
    IF setup = ShortPayloads THEN sending'.count <= 2 ELSE sentCount' < NumMsgs

(* A longer queue, in which fragments of several broken payloads meet.      *)
HolesSetups == {Use(FALSE, TRUE, FALSE, 4, 4)}

(* How to find, with five payloads, that three broken ones mislead the      *)
(* receiver: calls of wps_frag_send that are not interrupted, callbacks     *)
(* that run before the next frame, no acknowledgements, and a reader that   *)
(* gets whole payloads, which fails.                                        *)
Prompt ==
    /\ events # <<>> => events' = Tail(events)
    /\ sending # NotSending => sending' # sending
    /\ sending' # NotSending => txq = <<>> \/ sending # NotSending
    /\ acks' >= acks
NoAcks == <<sentCount, sending, nextId, txq, events, rx, accepted, stored>>
AlwaysWhole == \A i \in DOMAIN rx.read : IsWhole(rx.read[i])
=============================================================================
