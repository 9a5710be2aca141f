---------------------------- MODULE SacPipeline -----------------------------
(***************************************************************************)
(* One pipeline of the audio core (src/core/audio/api/sac_api.c) on the     *)
(* queues of src/library/queue/queue.c: a producer endpoint fills nodes of   *)
(* its own pool; sac_pipeline_process, in a low priority timer interrupt or   *)
(* the main loop, moves each packet through the processing nodes to the       *)
(* queues of the chained consumers; each consumer plays its queue.            *)
(*                                                                         *)
(* sac_pipeline_produce and sac_pipeline_consume run in interrupts: each is   *)
(* one step, and may come between two queue operations of process, every one  *)
(* of which is a critical section.  A node is named by the packet it holds    *)
(* (0: none), so a free list is its length: which free node is taken next     *)
(* makes no difference.  Processing does not change the number of packets;     *)
(* every packet has the same size, the unit of samples_buffered_size.          *)
(***************************************************************************)
EXTENDS Integers, Sequences, FiniteSets, Functions

CONSTANTS
    Setups,      \* pipelines the application may configure
    MaxPackets,  \* bound: packets produced
    MaxStarts,   \* bound: calls of sac_pipeline_start
    MaxTicks     \* bound: consumer interrupts between two steps of process

Packets == 1 .. MaxPackets
NoPacket == 0

(* A pipeline: endpoints that act at once or over a whole cycle, the queue    *)
(* sizes, the extra consumer nodes a clock drift stage asks for, initial      *)
(* buffering, processing stages that may fail, whether consume preempts       *)
(* process or is called next to it, and the number of chained consumers       *)
(* (sac_pipeline_consume serves the chain only when it acts at once).         *)
IsSetup(s) ==
    /\ s.delayedProducer \in BOOLEAN /\ s.delayedConsumer \in BOOLEAN
    /\ s.initialBuffering \in BOOLEAN /\ s.fails \in BOOLEAN /\ s.preempts \in BOOLEAN
    /\ s.producerQueue \in Nat \ {0} /\ s.consumerQueue \in Nat \ {0}
    /\ s.extra \in Nat /\ s.consumers \in Nat \ {0}
    /\ s.delayedConsumer => s.consumers = 1

ASSUME PipelineAssumption ==
    /\ \A s \in Setups : IsSetup(s)
    /\ MaxPackets \in Nat /\ MaxStarts \in Nat /\ MaxTicks \in Nat

VARIABLES
    setup,           \* the pipeline's configuration
    starts,          \* calls of sac_pipeline_start so far
    producing,       \* producer->iface.start was called, stop was not
    threshold,       \* buffering_threshold
    sent,            \* packets the producer endpoint was asked for
    filling,         \* producer's current_node
    producerQueue,   \* packets waiting for process
    producerFree,    \* length of the producer free queue
    pc,              \* where sac_pipeline_process is
    job,             \* packet process works on
    at,              \* consumer its loops have reached
    processingFree,  \* length of the processing free queue
    complete,        \* buffering_complete of each consumer
    running,         \* consumer->iface.start was called, stop was not
    queue,           \* consumer queues
    copies,          \* copy_count of the consumer node that holds a packet
    playing,         \* current_node of a delayed consumer
    consumerFree,    \* length of the consumer free queue
    buffered,        \* samples_buffered_size
    heard,           \* history: last packet handed to each consumer endpoint
    ticks            \* consumer interrupts since process last moved

producerVars == <<sent, filling, producerQueue, producerFree>>
processVars == <<pc, job, at, processingFree>>
controlVars == <<starts, producing, threshold>>
consumerVars == <<complete, running, queue, copies, playing, consumerFree, buffered, heard>>
vars == <<setup, controlVars, producerVars, processVars, consumerVars, ticks>>

Consumers == 1 .. setup.consumers
Limit == setup.consumerQueue + setup.extra

Locations == {"idle", "copy", "stage", "check", "drop", "take", "enqueue", "account", "release"}

----------------------------------------------------------------------------
(* init_audio_queues: EP_ACTION_NODE_COUNT and PROCESS_INPUT_NODE_COUNT nodes *)
(* beyond the producer queue, EP_ACTION_NODE_COUNT beyond a delayed consumer's.*)
ProcessingNodes == 2
OneSpareNode(s) == s.producerQueue + 1  \* mutant
ProducerNodes(s) == s.producerQueue + 2
NoPlayingNode(s) == s.consumerQueue + s.extra  \* mutant
ConsumerNodes(s) == s.consumerQueue + s.extra + (IF s.delayedConsumer THEN 1 ELSE 0)

Init ==
    /\ setup \in Setups
    /\ starts = 0 /\ producing = FALSE /\ threshold = 0
    /\ sent = 0 /\ filling = NoPacket /\ producerQueue = <<>>
    /\ producerFree = ProducerNodes(setup)
    /\ pc = "idle" /\ job = NoPacket /\ at = 1 /\ processingFree = ProcessingNodes
    /\ complete = [c \in Consumers |-> FALSE]
    /\ running = [c \in Consumers |-> FALSE]
    /\ queue = [c \in Consumers |-> <<>>]
    /\ copies = [p \in Packets |-> 0]
    /\ playing = NoPacket
    /\ consumerFree = ConsumerNodes(setup)
    /\ buffered = 0
    /\ heard = [c \in Consumers |-> NoPacket]
    /\ ticks = 0

----------------------------------------------------------------------------
(* sac_pipeline_start                                                       *)
Threshold(s) == IF s.initialBuffering THEN s.consumerQueue - 1 ELSE 1

Start ==
    /\ ~producing /\ starts < MaxStarts
    /\ starts' = starts + 1
    /\ producing' = TRUE
    /\ threshold' = Threshold(setup)
    /\ UNCHANGED <<setup, producerVars, processVars, consumerVars, ticks>>

(* sac_pipeline_stop: the producer's node goes home; the consumers keep their  *)
(* queues, their current node and buffering_complete.                         *)
Stop ==
    /\ producing /\ pc = "idle"
    /\ producing' = FALSE
    /\ running' = [c \in Consumers |-> FALSE]
    /\ filling' = NoPacket
    /\ producerFree' = producerFree + (IF filling # NoPacket THEN 1 ELSE 0)
    /\ UNCHANGED <<setup, starts, threshold, sent, producerQueue, processVars, complete, queue,
                   copies, playing, consumerFree, buffered, heard, ticks>>

----------------------------------------------------------------------------
(* sac_pipeline_produce                                                     *)

(* enqueue_producer_node: a full queue loses its oldest packet, whose node     *)
(* goes home.                                                               *)
ProducerFull == Len(producerQueue) >= setup.producerQueue
QueuedWithoutLimit(p) == Append(producerQueue, p)  \* mutant
QueuedAtHead(p) == <<p>> \o (IF ProducerFull THEN Tail(producerQueue) ELSE producerQueue)  \* mutant
Queued(p) == Append(IF ProducerFull THEN Tail(producerQueue) ELSE producerQueue, p)
NodesFreed == IF ProducerFull THEN 1 ELSE 0

(* A delayed producer's previous packet is complete: it is enqueued and the    *)
(* endpoint gets another node.                                              *)
ProduceDelayed ==
    /\ setup.delayedProducer
    /\ producing /\ sent < MaxPackets
    /\ LET full == filling # NoPacket
           free == producerFree + (IF full THEN NodesFreed ELSE 0)
       IN  /\ producerQueue' = IF full THEN Queued(filling) ELSE producerQueue
           /\ producerFree' = IF free > 0 THEN free - 1 ELSE 0
           /\ filling' = IF free > 0 THEN sent + 1 ELSE NoPacket
           /\ sent' = IF free > 0 THEN sent + 1 ELSE sent
    /\ UNCHANGED <<setup, controlVars, processVars, consumerVars, ticks>>

(* Another producer delivers at once: its packet is enqueued in the same call. *)
(* One that has nothing gives its node back: no change.                        *)
ProduceNow ==
    /\ ~setup.delayedProducer
    /\ producing /\ sent < MaxPackets
    /\ producerFree > 0
    /\ sent' = sent + 1
    /\ producerQueue' = Queued(sent + 1)
    /\ producerFree' = producerFree - 1 + NodesFreed
    /\ UNCHANGED <<setup, controlVars, filling, processVars, consumerVars, ticks>>

Produce == ProduceDelayed \/ ProduceNow

----------------------------------------------------------------------------
(* sac_pipeline_process                                                     *)

(* Starts every consumer that has enough packets, then takes the oldest packet *)
(* of the producer queue.                                                   *)
Buffered(c) == complete[c] \/ Len(queue[c]) >= threshold

Begin ==
    /\ producing /\ pc = "idle"
    /\ complete' = [c \in Consumers |-> Buffered(c)]
    /\ running' = [c \in Consumers |-> running[c] \/ (Buffered(c) /\ ~complete[c])]
    /\ \/ /\ producerQueue # <<>>
          /\ job' = Head(producerQueue)
          /\ producerQueue' = Tail(producerQueue)
          /\ pc' = "copy"
       \/ /\ producerQueue = <<>>
          /\ UNCHANGED <<job, producerQueue, pc>>
    /\ ticks' = 0
    /\ UNCHANGED <<setup, controlVars, sent, filling, producerFree, at, processingFree, queue,
                   copies, playing, consumerFree, buffered, heard>>

(* The packet is copied to a processing node and the producer node freed.      *)
Copy ==
    /\ pc = "copy"
    /\ producerFree' = producerFree + 1
    /\ processingFree' = IF processingFree > 0 THEN processingFree - 1 ELSE 0
    /\ pc' = IF processingFree > 0 THEN "stage" ELSE "idle"
    /\ job' = IF processingFree > 0 THEN job ELSE NoPacket
    /\ ticks' = 0
    /\ UNCHANGED <<setup, controlVars, sent, filling, producerQueue, at, consumerVars>>

(* process_samples: every stage writes to the other processing node and gives   *)
(* one of the two back.  A stage that fails ends the call.                     *)
StageDone ==
    /\ processingFree > 0
    /\ pc' = "check" /\ at' = 1
    /\ UNCHANGED <<job, processingFree>>

StageFailsLeaky ==  \* mutant: only the output node is given back
    /\ setup.fails \/ processingFree = 0
    /\ pc' = "idle"
    /\ job' = NoPacket
    /\ UNCHANGED <<processingFree, at>>

StageFails ==
    /\ setup.fails \/ processingFree = 0
    /\ pc' = "idle"
    /\ job' = NoPacket
    /\ processingFree' = processingFree + 1
    /\ UNCHANGED at

Stage ==
    /\ pc = "stage"
    /\ StageDone \/ StageFails
    /\ ticks' = 0
    /\ UNCHANGED <<setup, controlVars, producerVars, consumerVars>>

(* is_consumer_overflowing.  A consumer interrupt among its three readings      *)
(* has the outcome it has just before or just after them.                      *)
NoneFree(c) == consumerFree = 0  \* mutant
FullAndNoneFree(c) == Len(queue[c]) = Limit /\ consumerFree = 0  \* mutant
IsOverflowing(c) ==
    /\ Len(queue[c]) = Limit
    /\ consumerFree <= (IF setup.delayedConsumer /\ playing = NoPacket THEN 1 ELSE 0)

(* The loop over the consumers reaches the next one, or ends.                   *)
NextConsumer(loop, done) ==
    /\ at' = IF at < setup.consumers THEN at + 1 ELSE 1
    /\ pc' = IF at < setup.consumers THEN loop ELSE done

CheckOverflow ==
    /\ pc = "check"
    /\ \/ /\ IsOverflowing(at)
          /\ pc' = "drop" /\ UNCHANGED at
       \/ /\ ~IsOverflowing(at)
          /\ NextConsumer("check", "take")
    /\ ticks' = 0
    /\ UNCHANGED <<setup, controlVars, producerVars, job, processingFree, consumerVars>>

(* queue_dequeue_node of consumer c's queue, then queue_free_node, which sends   *)
(* the node home only when no consumer queue holds it.                          *)
Dequeue(c) ==
    /\ queue' = [queue EXCEPT ![c] = Tail(@)]
    /\ copies' = [copies EXCEPT ![Head(queue[c])] = @ - 1]
Home(p) == IF copies[p] = 1 THEN 1 ELSE 0

(* The overflowing consumer loses its oldest packet.                            *)
Drop ==
    /\ pc = "drop"
    /\ queue[at] # <<>>
    /\ Dequeue(at)
    /\ consumerFree' = consumerFree + Home(Head(queue[at]))
    /\ buffered' = buffered - 1
    /\ NextConsumer("check", "take")
    /\ ticks' = 0
    /\ UNCHANGED <<setup, controlVars, producerVars, job, processingFree, complete, running,
                   playing, heard>>

(* The packet is copied to a consumer node; without one it is lost.             *)
TakeNode ==
    /\ pc = "take"
    /\ consumerFree' = IF consumerFree > 0 THEN consumerFree - 1 ELSE 0
    /\ pc' = IF consumerFree > 0 THEN "enqueue" ELSE "release"
    /\ at' = 1
    /\ ticks' = 0
    /\ UNCHANGED <<setup, controlVars, producerVars, job, processingFree, complete, running, queue,
                   copies, playing, buffered, heard>>

(* queue_enqueue_node does nothing when the queue is full; its result is not     *)
(* looked at.                                                                *)
Enqueue ==
    /\ pc = "enqueue"
    /\ IF Len(queue[at]) < Limit
       THEN /\ queue' = [queue EXCEPT ![at] = Append(@, job)]
            /\ copies' = [copies EXCEPT ![job] = @ + 1]
       ELSE UNCHANGED <<queue, copies>>
    /\ pc' = "account"
    /\ ticks' = 0
    /\ UNCHANGED <<setup, controlVars, producerVars, job, at, processingFree, complete, running,
                   playing, consumerFree, buffered, heard>>

Account ==
    /\ pc = "account"
    /\ buffered' = buffered + 1
    /\ NextConsumer("enqueue", "release")
    /\ ticks' = 0
    /\ UNCHANGED <<setup, controlVars, producerVars, job, processingFree, complete, running, queue,
                   copies, playing, consumerFree, heard>>

(* The processing node is given back.                                         *)
Release ==
    /\ pc = "release"
    /\ processingFree' = processingFree + 1
    /\ job' = NoPacket
    /\ pc' = "idle"
    /\ ticks' = 0
    /\ UNCHANGED <<setup, controlVars, producerVars, at, consumerVars>>

Process ==
    \/ Begin \/ Copy \/ Stage \/ CheckOverflow \/ Drop \/ TakeNode
    \/ Enqueue \/ Account \/ Release

----------------------------------------------------------------------------
(* sac_pipeline_consume                                                     *)

(* consume_delay: the packet played so far goes home, the next one starts.      *)
(* Without a next one the consumer has to buffer again.                         *)
PlayedNodes == IF playing # NoPacket /\ copies[playing] = 0 THEN 1 ELSE 0

ConsumeDelayed ==
    /\ setup.delayedConsumer
    /\ running[1] /\ complete[1] /\ ticks < MaxTicks
    /\ consumerFree' = consumerFree + PlayedNodes
    /\ \/ /\ queue[1] # <<>>
          /\ Dequeue(1)
          /\ playing' = Head(queue[1])
          /\ heard' = [heard EXCEPT ![1] = Head(queue[1])]
          /\ buffered' = buffered - 1
          /\ UNCHANGED complete
       \/ /\ queue[1] = <<>>
          /\ playing' = NoPacket
          /\ complete' = [complete EXCEPT ![1] = FALSE]
          /\ UNCHANGED <<queue, copies, heard, buffered>>
    /\ ticks' = ticks + 1
    /\ UNCHANGED <<setup, controlVars, producerVars, processVars, running>>

(* consume_no_delay: the endpoint accepts the oldest packet and it goes home.   *)
(* An endpoint that refuses it leaves everything as it is.                      *)
ConsumeNow(c) ==
    /\ ~setup.delayedConsumer /\ producing
    /\ setup.preempts \/ pc = "idle"
    /\ complete[c] /\ queue[c] # <<>> /\ ticks < MaxTicks
    /\ heard' = [heard EXCEPT ![c] = Head(queue[c])]
    /\ Dequeue(c)
    /\ consumerFree' = consumerFree + Home(Head(queue[c]))
    /\ buffered' = buffered - 1
    /\ ticks' = ticks + 1
    /\ UNCHANGED <<setup, controlVars, producerVars, processVars, complete, running, playing>>

Consume == ConsumeDelayed \/ \E c \in Consumers : ConsumeNow(c)

----------------------------------------------------------------------------
Next == Start \/ Stop \/ Produce \/ Process \/ Consume

Spec == Init /\ [][Next]_vars

----------------------------------------------------------------------------
(* Properties                                                               *)

Holds(b) == IF b THEN 1 ELSE 0

(* Type invariant: queues stay within the lengths they are given.             *)
TypeOK ==
    /\ setup \in Setups
    /\ starts \in 0 .. MaxStarts /\ producing \in BOOLEAN /\ threshold \in Nat
    /\ sent \in 0 .. MaxPackets /\ filling \in 0 .. sent
    /\ producerQueue \in Seq(1 .. sent) /\ Len(producerQueue) <= setup.producerQueue
    /\ producerFree \in 0 .. ProducerNodes(setup)
    /\ pc \in Locations /\ job \in 0 .. sent /\ at \in Consumers
    /\ processingFree \in 0 .. ProcessingNodes
    /\ complete \in [Consumers -> BOOLEAN] /\ running \in [Consumers -> BOOLEAN]
    /\ queue \in [Consumers -> Seq(1 .. sent)]
    /\ \A c \in Consumers : Len(queue[c]) <= Limit
    /\ copies \in [Packets -> 0 .. setup.consumers]
    /\ playing \in 0 .. sent
    /\ consumerFree \in 0 .. ConsumerNodes(setup)
    /\ buffered \in Int
    /\ heard \in [Consumers -> 0 .. sent]
    /\ ticks \in 0 .. MaxTicks

(* No node is lost or in two places: the free ones, the queued ones and those   *)
(* an endpoint or process works on make up the pools, in whatever order the     *)
(* interrupts come; and copy_count is the number of queues a node is in         *)
(* (queue_free_node, queue.c:102-118, decides by it).              *)
InQueues(p) == {c \in Consumers : p \in Range(queue[c])}
NodesConserved ==
    /\ producerFree + Len(producerQueue) + Holds(filling # NoPacket) + Holds(pc = "copy")
         = ProducerNodes(setup)
    /\ processingFree + Holds(pc \notin {"idle", "copy"}) = ProcessingNodes
    /\ consumerFree + Holds(playing # NoPacket)
         + Cardinality({p \in Packets : InQueues(p) # {}})
         + Holds(pc = "enqueue" /\ at = 1)
         = ConsumerNodes(setup)
    /\ \A p \in Packets : copies[p] = Cardinality(InQueues(p))

(* "Free queue is bigger to ensure produce action and audio process input can     *)
(* always succeed" (sac_api.c:610): when the producer endpoint is called a node   *)
(* is free or the full queue gives one back, wherever process was interrupted.    *)
ProduceAlwaysSucceeds ==
    producerFree + Holds(setup.delayedProducer /\ filling # NoPacket /\ ProducerFull) > 0

(* The packet process has in hand always finds a consumer node: overflow was       *)
(* detected for every consumer that needed it, although consumers play between     *)
(* the detection and the allocation (move_audio_packet_to_consumer_queue).         *)
NodeForEveryPacket ==
    /\ pc = "take" => consumerFree > 0
    /\ pc = "enqueue" => Len(queue[at]) < Limit

(* Dropping the oldest packet finds one: were the queue emptied by interrupts      *)
(* after it was found full, process would read the size of a null node.            *)
DropFindsPacket == pc = "drop" => queue[at] # <<>>

(* samples_buffered_size, which the clock drift compensation divides, is what the   *)
(* consumer queues hold whenever a processing stage may read it.                   *)
QueuePlaces == UNION {{c} \X (1 .. Len(queue[c])) : c \in Consumers}
AccountedFor == pc # "account" => buffered = Cardinality(QueuePlaces)

(* Each consumer plays a subsequence of what was produced, in order, none twice:    *)
(* the pipeline implements AudioStream.                                            *)
YetToEnqueue(c) ==
    \/ pc \in {"copy", "stage", "check", "drop", "take"}
    \/ pc = "enqueue" /\ at <= c
    \/ pc = "account" /\ at < c
OnTheWay(c) ==
    Range(queue[c]) \cup Range(producerQueue)
        \cup (IF YetToEnqueue(c) THEN {job} ELSE {})
        \cup (IF filling # NoPacket THEN {filling} ELSE {})
Stream == INSTANCE AudioStream WITH
    listeners <- Consumers, transit <- [c \in Consumers |-> OnTheWay(c)]
StreamSpec == Stream!Spec
=============================================================================
