--------------------------- MODULE MCSacPipeline ----------------------------
(* Pipelines like those of the example applications, with queues of one, two   *)
(* or three packets.                                                        *)
EXTENDS SacPipeline

Pipeline(dp, dc, pq, cq, extra, initial, preempts, consumers) ==
    [delayedProducer |-> dp, delayedConsumer |-> dc, producerQueue |-> pq, consumerQueue |-> cq,
     extra |-> extra, initialBuffering |-> initial, fails |-> consumers = 1,
     preempts |-> preempts, consumers |-> consumers]

(* Codec to radio, with initial buffering: the timer callback that calls process *)
(* also calls consume; or an interrupt does.                                 *)
Recorders == {Pipeline(TRUE, FALSE, 1, 2, 0, TRUE, preempts, 1) : preempts \in BOOLEAN}
(* Radio to codec, with an extra node for clock drift compensation.            *)
Player == Pipeline(FALSE, TRUE, 1, 2, 1, FALSE, TRUE, 1)
(* Codec to codec, with a longer producer queue.                              *)
Monitor == Pipeline(TRUE, TRUE, 2, 2, 0, TRUE, TRUE, 1)
(* Radio to two consumers that act at once, called next to process.            *)
Split == Pipeline(FALSE, FALSE, 1, 2, 0, FALSE, FALSE, 2)

AllPipelines == Recorders \cup {Player, Monitor, Split}
=============================================================================
