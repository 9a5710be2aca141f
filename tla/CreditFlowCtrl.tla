--------------------------- MODULE CreditFlowCtrl ---------------------------
(***************************************************************************)
(* Credit flow control (link_credit_flow_ctrl.{h,c}) and the credit field   *)
(* of the header-only acknowledgement (wps_mac_protocols.c).  The sender     *)
(* holds a number of credits; when it has none it counts skipped slots, and  *)
(* past a threshold it polls the receiver with a header-only frame, whose    *)
(* acknowledgement carries fresh credits.                                   *)
(***************************************************************************)
EXTENDS Naturals

CONSTANTS
    CreditFlow,   \* BOOLEAN: swc_connection_set_credit_flow_ctrl
    SkipWrap      \* the modulus of the uint8_t skipped_frames_count (256)

ASSUME CreditFlowAssumption == CreditFlow \in BOOLEAN /\ SkipWrap \in Nat \ {0}

CREDIT_FLOW_CTRL_SKIPPED_FRAMES_THRESHOLD == 3

(* CREDIT_FLOW_CONTROL_MAX_VALUE: the credit field is one byte.             *)
CREDIT_FLOW_CONTROL_MAX_VALUE == 255

(* enable_credit_flow_ctrl: credits before the first acknowledgement,       *)
(* WPS_MIN_QUEUE_SIZE.                                                      *)
InitCredits == 2

(* link_credit_flow_ctrl_is_available: may a payload be sent, and the       *)
(* skipped counter after the question, whose test has that side effect.     *)
IsAvailable(credits) == ~(CreditFlow /\ credits = 0)
SkippedAfterAsking(credits, skipped) ==
    IF IsAvailable(credits) THEN skipped ELSE (skipped + 1) % SkipWrap

(* link_credit_flow_ctrl_is_skipped_frames_exceed.                          *)
IsSkippedFramesExceed(skipped) ==
    CreditFlow /\ skipped > CREDIT_FLOW_CTRL_SKIPPED_FRAMES_THRESHOLD

(* link_credit_flow_ctrl_frame_ack_received, without the skipped counter it *)
(* also clears.                                                             *)
CreditsAfterAck(credits) == IF credits > 0 THEN credits - 1 ELSE 0

(* wps_mac_send_credit_flow_control_header_acknowledge: what a receiver     *)
(* with free entries in its queue advertises; one is kept back for the      *)
(* frame this acknowledgement answers.                                      *)
AdvertiseAll(free) == free                 \* mutant: nothing kept back
Advertised(free) ==
    CASE free > CREDIT_FLOW_CONTROL_MAX_VALUE -> CREDIT_FLOW_CONTROL_MAX_VALUE
      [] free > 0 /\ free <= CREDIT_FLOW_CONTROL_MAX_VALUE -> free - 1
      [] OTHER -> 0
=============================================================================
