--------------------------- MODULE MCWpsRequests ----------------------------
(* Devices with a reception and a transmission per schedule, one to three      *)
(* slots long.                                                              *)
EXTENDS WpsRequests

Device(slots, node, fastSync, drains) ==
    [slots |-> slots, node |-> node, fastSync |-> fastSync, drains |-> drains]

(* Every slot takes a node or resets rx_node: credit flow control, ranging or  *)
(* auto reply connections.                                                  *)
Renewing == {Device(<<"txAck", "rx">>, TRUE, fastSync, FALSE) : fastSync \in BOOLEAN}
            \cup {Device(<<"txAuto">>, FALSE, FALSE, FALSE)}
(* A transmission with a bare acknowledgement keeps rx_node.                  *)
Keeping == {Device(<<"rx", "tx">>, TRUE, FALSE, TRUE), Device(<<"tx", "rx">>, FALSE, TRUE, TRUE)}

AllDevices == Renewing \cup Keeping
FastSyncNodes == {Device(<<"rx", "tx">>, TRUE, TRUE, TRUE)}
=============================================================================
