---------------------------- MODULE CircularData ----------------------------
(***************************************************************************)
(* The payload memory of a connection (xlayer_circular_data.{h,c}) as the   *)
(* Wireless Core uses it.  A block is allocated for the payload being       *)
(* written (wps_get_free_slot) or received (wps_mac_xlayer_update_main_rx_  *)
(* payload_buffer) and belongs to a queue node; nodes leave the queue in    *)
(* order and free their block (send_done, wps_read_done), and the newest    *)
(* block may be given back at once (a duplicate or an overrun, or a queue   *)
(* that refused the node), which rolls the allocation back.                 *)
(*                                                                         *)
(* A transmitting application allocates and the radio's interrupt frees; a  *)
(* receiving application frees and the interrupt allocates.  Spec makes     *)
(* every operation atomic.  PreemptedSpec is a receiving connection as the  *)
(* code runs it: wps_read_done takes no critical section, so the radio's    *)
(* interrupt may run inside the free.  Positions are offsets in the buffer, *)
(* in the unit of the block sizes: when every block has the configured      *)
(* payload size, one unit is one block.                                     *)
(***************************************************************************)
EXTENDS Naturals, Sequences

CONSTANTS
    BufferSize,   \* buffer_size
    Sizes,        \* the block sizes the connection asks for
    QueueSize,    \* max_size of the connection's queue
    MaxBlocks     \* how many nodes, hence blocks, the connection can own

ASSUME CircularDataAssumption ==
    /\ BufferSize \in Nat \ {0} /\ MaxBlocks \in Nat \ {0} /\ QueueSize \in Nat
    /\ Sizes \subseteq 1..BufferSize

VARIABLES
    head,      \* where the next block starts, if it fits
    tail,      \* where the oldest block starts
    lastHead,  \* head before the last allocation
    live,      \* the blocks in use, oldest first
    pending,   \* the newest block's node is not queued yet
    freeing    \* the preempted free in progress, or NotFreeing

vars == <<head, tail, lastHead, live, pending, freeing>>

Block(at, size) == [at |-> at, size |-> size]
NotFreeing == [started |-> FALSE]

(* No offset: xlayer_circular_data_allocate_space returns NULL.             *)
NoSpace == BufferSize

Init ==
    /\ head = 0 /\ tail = 0 /\ lastHead = 0
    /\ live = <<>> /\ pending = FALSE /\ freeing = NotFreeing

-----------------------------------------------------------------------------
(* Where xlayer_circular_data_allocate_space puts a block of this size.     *)
Place(size) ==
    CASE head >= tail /\ BufferSize - head >= size -> head
      [] head >= tail /\ BufferSize - head < size /\ tail >= size -> 0
      [] head < tail /\ tail - head >= size -> head
      [] OTHER -> NoSpace

(* The queue and the node pool let the connection have one more block.      *)
MayAllocate == ~pending /\ Len(live) < MaxBlocks

(* The assignments of a successful allocation.                              *)
TakePlaceNoWrap(at, size) ==           \* mutant: last_head = 0 is forgotten
    /\ lastHead' = head
    /\ head' = head + size
    /\ live' = Append(live, Block(at, size))
    /\ pending' = TRUE
TakePlace(at, size) ==
    /\ lastHead' = at
    /\ head' = at + size
    /\ live' = Append(live, Block(at, size))
    /\ pending' = TRUE

(* xlayer_circular_data_free_space as the last allocation's rollback, and   *)
(* as the release of the oldest block; any other block is left alone.       *)
IsRollback(block) == block.at = lastHead

ForgetRollback == UNCHANGED <<head, tail>>    \* mutant
Rollback == head' = lastHead /\ UNCHANGED tail

TailFor(size) == IF tail + size > BufferSize THEN 0 ELSE tail

Release(block) ==
    /\ tail' = IF block.at = TailFor(block.size)
               THEN TailFor(block.size) + block.size ELSE tail
    /\ UNCHANGED head

Free(block) ==
    \/ IsRollback(block) /\ Rollback
    \/ ~IsRollback(block) /\ Release(block)

-----------------------------------------------------------------------------
Allocate(size) ==
    /\ MayAllocate /\ Place(size) # NoSpace
    /\ TakePlace(Place(size), size)
    /\ UNCHANGED <<tail, freeing>>

(* The node that owns the newest block joins its queue.                     *)
EnqueueNode ==
    /\ pending /\ Len(live) <= QueueSize
    /\ pending' = FALSE
    /\ UNCHANGED <<head, tail, lastHead, live, freeing>>

(* The newest block is given back before its node was queued.               *)
DropPending ==
    /\ pending
    /\ Free(live[Len(live)])
    /\ live' = SubSeq(live, 1, Len(live) - 1)
    /\ pending' = FALSE
    /\ UNCHANGED <<lastHead, freeing>>

(* A node is at the head of the queue.                                      *)
Queued == Len(live) > (IF pending THEN 1 ELSE 0)

FreeOldest ==
    /\ Queued
    /\ Free(Head(live))
    /\ live' = Tail(live)
    /\ UNCHANGED <<lastHead, pending, freeing>>

Next ==
    \/ \E size \in Sizes : Allocate(size)
    \/ EnqueueNode \/ DropPending \/ FreeOldest

Spec == Init /\ [][Next]_vars

-----------------------------------------------------------------------------
(* A free the interrupt preempts.                                           *)

(* The application has dequeued the node and compared its block with        *)
(* last_head, and has yet to act on the answer.                             *)
FreeBegin ==
    /\ freeing = NotFreeing /\ Queued
    /\ freeing' = [started |-> TRUE, block |-> Head(live),
                   rollback |-> IsRollback(Head(live))]
    /\ live' = Tail(live)
    /\ UNCHANGED <<head, tail, lastHead, pending>>

(* head = last_head stores the value compared or one loaded again, as the   *)
(* compiler chooses.                                                        *)
FreeEnd ==
    /\ freeing.started
    /\ \/ /\ freeing.rollback
          /\ head' \in {freeing.block.at, lastHead}
          /\ UNCHANGED tail
       \/ ~freeing.rollback /\ Release(freeing.block)
    /\ freeing' = NotFreeing
    /\ UNCHANGED <<lastHead, live, pending>>

PreemptedNext ==
    \/ \E size \in Sizes : Allocate(size)
    \/ EnqueueNode \/ DropPending \/ FreeBegin \/ FreeEnd

PreemptedSpec == Init /\ [][PreemptedNext]_vars

-----------------------------------------------------------------------------
(* Properties.                                                              *)

TypeOK ==
    /\ head \in 0..BufferSize /\ tail \in 0..BufferSize
    /\ lastHead \in 0..BufferSize
    /\ live \in Seq([at : 0..(BufferSize - 1), size : Sizes])
    /\ Len(live) <= MaxBlocks
    /\ pending \in BOOLEAN

Apart(b, c) == b.at + b.size <= c.at \/ c.at + c.size <= b.at

(* No payload overwrites another: blocks in use lie in the buffer and do    *)
(* not overlap, so memory is never handed out while there is no space.      *)
NoOverlap ==
    /\ \A i \in DOMAIN live : live[i].at + live[i].size <= BufferSize
    /\ \A i, j \in DOMAIN live : i # j => Apart(live[i], live[j])

(* The memory never runs out before the nodes do, whatever was freed and    *)
(* rolled back before: a connection that may hold one more payload finds    *)
(* room for it, and no free was ignored on the way.                         *)
NeverStarved ==
    MayAllocate => \A size \in Sizes : Place(size) # NoSpace
=============================================================================
