------------------------------- MODULE SawArq -------------------------------
(***************************************************************************)
(* The stop-and-wait ARQ helpers of link_saw_arq.{h,c}, as pure operators   *)
(* on the sequence number a connection keeps.  The header carries the       *)
(* number in two bits, and a connection starts from a default outside       *)
(* {0, 1} that depends on its direction, so that the first frame differs    *)
(* from whatever the peer remembers.                                        *)
(***************************************************************************)
EXTENDS Naturals

TX_DEFAULT_SAW_INDEX == 2
RX_DEFAULT_SAW_INDEX == 3

(* The value the two-bit field of the header can carry.                     *)
SeqNum == 0..3

(* link_saw_arq_inc_seq_num: seq_num &= 1; seq_num ^= 1.                    *)
MaskedSeqNum(seq) == seq % 2                   \* mutant: masked, not inverted
IncSeqNum(seq) == 1 - (seq % 2)

(* link_saw_arq_update_rx_seq_num: the number kept after a reception.       *)
StayingRxSeqNum(seq) == seq                    \* mutant: the mask is forgotten
MaskedRxSeqNum(seq)  == seq % 2
RxSeqNum(seq) == MaskedRxSeqNum(seq)

(* link_saw_arq_update_rx_seq_num: the duplicate flag, kept being the       *)
(* receiver's seq_num before the update.                                    *)
NeverDuplicate(seq, kept) == FALSE             \* mutant: no duplicate detection
IsRxFrameDuplicate(seq, kept) == seq = kept

(* is_saw_arq_guaranteed_delivery_mode: neither deadline is configured.     *)
IsGuaranteedDeliveryMode(ttlTicks, ttlRetries) == ~ttlTicks /\ ttlRetries = 0

(* The retries part of link_saw_arq_is_frame_timeout.                       *)
RetriesTimeoutLate(retry, ttlRetries) ==       \* mutant: > instead of >=
    ttlRetries # 0 /\ retry > ttlRetries
IsRetriesTimeout(retry, ttlRetries) == ttlRetries # 0 /\ retry >= ttlRetries
=============================================================================
