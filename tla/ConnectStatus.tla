---------------------------- MODULE ConnectStatus ----------------------------
(***************************************************************************)
(* The connected/disconnected status of a connection                        *)
(* (link_connect_status.{h,c}): ConnectCount good frames in a row connect,  *)
(* losses that last DisconnectDuration disconnect.  The duration is kept    *)
(* in an unsigned word of DurationWrap values.                              *)
(***************************************************************************)
EXTENDS Naturals

CONSTANTS
    ConnectCount,        \* connect_count, good frames before CONNECTED
    DisconnectDuration,  \* disconnect_duration_us
    DurationWrap         \* the modulus of the uint16_t lost_duration_us

ASSUME ConnectStatusAssumption ==
    /\ ConnectCount \in Nat \ {0}
    /\ DisconnectDuration \in Nat \ {0}
    /\ DurationWrap \in Nat \ {0}
    /\ DisconnectDuration < DurationWrap

CONNECTED    == "connected"
DISCONNECTED == "disconnected"

(* frame_outcome_t as link_update_connect_status groups it: a frame         *)
(* received or acknowledged, one that was lost or rejected, and FRAME_WAIT  *)
(* (nothing was sent), which changes nothing.                               *)
Outcome == {"good", "lost", "wait"}

StatusRecord == [status : {CONNECTED, DISCONNECTED},
                 received : 0..(ConnectCount - 1),
                 lost : 0..(DisconnectDuration - 1)]

(* link_connect_status_init and link_connect_status_reset.                  *)
StatusReset == [status |-> DISCONNECTED, received |-> 0, lost |-> 0]

(* The duration grows by the time since the previous slot of the            *)
(* connection, in a word that wraps.                                        *)
AddLost(lost, elapsed) == (lost + elapsed) % DurationWrap

LostWhileConnected(cs, elapsed) ==
    IF AddLost(cs.lost, elapsed) >= DisconnectDuration
    THEN StatusReset
    ELSE [cs EXCEPT !.lost = AddLost(cs.lost, elapsed)]

GoodWhileDisconnected(cs) ==
    IF cs.received + 1 >= ConnectCount
    THEN [status |-> CONNECTED, received |-> 0, lost |-> 0]
    ELSE [cs EXCEPT !.received = cs.received + 1]

(* link_update_connect_status with always_connected FALSE (a connection     *)
(* with acknowledgement); sync_status FALSE only forces the status.         *)
UpdateConnectStatus(cs, outcome, synced, elapsed) ==
    CASE ~synced -> [cs EXCEPT !.status = DISCONNECTED]
      [] synced /\ outcome = "wait" -> cs
      [] synced /\ outcome = "good" /\ cs.status = CONNECTED ->
            [cs EXCEPT !.lost = 0]
      [] synced /\ outcome = "good" /\ cs.status = DISCONNECTED ->
            GoodWhileDisconnected(cs)
      [] synced /\ outcome = "lost" /\ cs.status = CONNECTED ->
            LostWhileConnected(cs, elapsed)
      [] synced /\ outcome = "lost" /\ cs.status = DISCONNECTED ->
            [cs EXCEPT !.received = 0]

IsConnected(cs) == cs.status = CONNECTED
=============================================================================
