------------------------- MODULE SacPipeline_proofs -------------------------
(***************************************************************************)
(* Proofs about SacPipeline, for any queue sizes, number of consumers,      *)
(* packets and restarts, and however the interrupts cut into process: the   *)
(* producer always finds a node, and the pipeline implements AudioStream.    *)
(* With chained consumers that do not preempt process: no node is lost, and   *)
(* each packet finds one; the queues are counted right.                       *)
(***************************************************************************)
EXTENDS SacPipeline, FiniteSetTheorems, SequenceTheorems, TLAPS

Increasing(s) == \A i, j \in 1 .. Len(s) : i < j => s[i] < s[j]

Types ==
    /\ setup \in Setups
    /\ sent \in Nat /\ filling \in 0 .. sent
    /\ producerQueue \in Seq(Nat) /\ Range(producerQueue) \subseteq 1 .. sent
    /\ pc \in Locations /\ job \in Nat /\ at \in Consumers
    /\ pc # "idle" => job \in 1 .. sent
    /\ ~setup.delayedProducer => filling = NoPacket
ConsumerTypes ==
    /\ queue \in [Consumers -> Seq(Nat)]
    /\ \A c \in Consumers : Range(queue[c]) \subseteq 1 .. sent
    /\ heard \in [Consumers -> Nat]
    /\ \A c \in Consumers : heard[c] <= sent

(* The producer's nodes: free, queued, being filled or being copied.        *)
ProducerPool ==
    /\ producerFree \in Nat
    /\ Len(producerQueue) <= setup.producerQueue
    /\ producerFree + Len(producerQueue) + Holds(filling # NoPacket) + Holds(pc = "copy")
         = ProducerNodes(setup)

(* Everything consumer c has or had is older than packet x.                 *)
Behind(c, x) == heard[c] < x /\ \A p \in Range(queue[c]) : p < x

(* From what was heard to what is being filled, packets only get newer.      *)
ProducerOrder ==
    /\ Increasing(producerQueue)
    /\ filling # NoPacket => \A p \in Range(producerQueue) : p < filling
    /\ pc # "idle" => \A p \in Range(producerQueue) : job < p
    /\ pc # "idle" /\ filling # NoPacket => job < filling
ConsumerOrder ==
    \A c \in Consumers :
        /\ Increasing(queue[c])
        /\ \A p \in Range(queue[c]) : heard[c] < p
        /\ \A p \in Range(producerQueue) : Behind(c, p)
        /\ filling # NoPacket => Behind(c, filling)
        /\ YetToEnqueue(c) => Behind(c, job)

IInv == Types /\ ConsumerTypes /\ ProducerPool /\ ProducerOrder /\ ConsumerOrder

----------------------------------------------------------------------------
(* Sequences by the set of their elements.                                  *)
LEMMA RangeFacts ==
    ASSUME NEW s \in Seq(Nat)
    PROVE  /\ \A x : x \in Range(s) <=> \E i \in 1 .. Len(s) : s[i] = x
           /\ Range(s) \subseteq Nat
  BY DEF Range

LEMMA RangeAppend ==
    ASSUME NEW s \in Seq(Nat), NEW x \in Nat
    PROVE  /\ Append(s, x) \in Seq(Nat) /\ Len(Append(s, x)) = Len(s) + 1
           /\ Range(Append(s, x)) = Range(s) \cup {x}
           /\ Increasing(s) /\ (\A p \in Range(s) : p < x) => Increasing(Append(s, x))
<1> DEFINE t == Append(s, x)
<1>1. t \in Seq(Nat) /\ Len(t) = Len(s) + 1 /\ Len(s) \in Nat
  OBVIOUS
<1>2. (\A i \in 1 .. Len(s) : t[i] = s[i]) /\ t[Len(s) + 1] = x
  OBVIOUS
<1> HIDE DEF t
<1>3. \A i \in 1 .. Len(t) : i \in 1 .. Len(s) \/ i = Len(s) + 1
  BY <1>1
<1>4. \A i \in 1 .. Len(s) : i \in 1 .. Len(t)
  BY <1>1
<1>5. Len(s) + 1 \in 1 .. Len(t)
  BY <1>1
<1>6. Range(t) = Range(s) \cup {x}
  <2>1. ASSUME NEW y \in Range(t) PROVE y \in Range(s) \cup {x}
    <3>1. PICK i \in 1 .. Len(t) : t[i] = y
      BY <1>1, RangeFacts
    <3>2. QED
      BY <1>2, <1>3, <3>1, RangeFacts
  <2>2. ASSUME NEW y \in Range(s) PROVE y \in Range(t)
    <3>1. PICK i \in 1 .. Len(s) : s[i] = y
      BY RangeFacts
    <3>2. t[i] = y /\ i \in 1 .. Len(t)
      BY <1>2, <1>4, <3>1
    <3>3. QED
      BY <1>1, <3>2, RangeFacts
  <2>3. x \in Range(t)
    BY <1>1, <1>2, <1>5, RangeFacts
  <2>4. QED
    BY <2>1, <2>2, <2>3
<1>7. ASSUME Increasing(s), \A p \in Range(s) : p < x
      PROVE  Increasing(t)
  <2>1. \A i \in 1 .. Len(s) : s[i] < x
    BY <1>7, RangeFacts
  <2>2. ASSUME NEW i \in 1 .. Len(t), NEW j \in 1 .. Len(t), i < j
        PROVE  t[i] < t[j]
    <3>1. i \in 1 .. Len(s)
      BY <1>1, <2>2
    <3>2. CASE j \in 1 .. Len(s)
      BY <1>2, <1>7, <2>2, <3>1, <3>2 DEF Increasing
    <3>3. CASE j = Len(s) + 1
      BY <1>2, <2>1, <3>1, <3>3
    <3>4. QED
      BY <1>3, <3>2, <3>3
  <2>3. QED
    BY <2>2 DEF Increasing
<1>8. QED
  BY <1>1, <1>6, <1>7 DEF t

LEMMA RangeTail ==
    ASSUME NEW s \in Seq(Nat), s # <<>>
    PROVE  /\ Tail(s) \in Seq(Nat) /\ Len(Tail(s)) = Len(s) - 1
           /\ Head(s) \in Range(s) /\ Head(s) \in Nat
           /\ Range(s) = {Head(s)} \cup Range(Tail(s))
           /\ Increasing(s) => /\ Increasing(Tail(s))
                               /\ \A p \in Range(Tail(s)) : Head(s) < p
<1> DEFINE t == Tail(s)
<1>1. /\ t \in Seq(Nat) /\ Len(t) = Len(s) - 1 /\ Len(s) \in Nat \ {0}
      /\ Head(s) = s[1] /\ Head(s) \in Nat
  OBVIOUS
<1>2. \A i \in 1 .. Len(t) : t[i] = s[i + 1]
  OBVIOUS
<1> HIDE DEF t
<1>3. 1 \in 1 .. Len(s) /\ \A i \in 1 .. Len(t) : i + 1 \in 1 .. Len(s) /\ 1 < i + 1
  BY <1>1
<1>4. \A i \in 1 .. Len(s) : i = 1 \/ (i - 1 \in 1 .. Len(t) /\ i = (i - 1) + 1)
  BY <1>1
<1>5. Head(s) \in Range(s)
  BY <1>1, <1>3, RangeFacts
<1>6. Range(s) = {Head(s)} \cup Range(t)
  <2>1. ASSUME NEW y \in Range(s) PROVE y \in {Head(s)} \cup Range(t)
    <3>1. PICK i \in 1 .. Len(s) : s[i] = y
      BY RangeFacts
    <3>2. CASE i = 1
      BY <1>1, <3>1, <3>2
    <3>3. CASE i - 1 \in 1 .. Len(t) /\ i = (i - 1) + 1
      <4>1. t[i - 1] = y
        BY <1>2, <3>1, <3>3
      <4>2. QED
        BY <1>1, <3>3, <4>1, RangeFacts
    <3>4. QED
      BY <1>4, <3>2, <3>3
  <2>2. ASSUME NEW y \in Range(t) PROVE y \in Range(s)
    <3>1. PICK i \in 1 .. Len(t) : t[i] = y
      BY <1>1, RangeFacts
    <3>2. s[i + 1] = y /\ i + 1 \in 1 .. Len(s)
      BY <1>2, <1>3, <3>1
    <3>3. QED
      BY <3>2, RangeFacts
  <2>3. QED
    BY <1>5, <2>1, <2>2
<1>7. ASSUME Increasing(s)
      PROVE  Increasing(t) /\ \A p \in Range(t) : Head(s) < p
  <2>1. ASSUME NEW i \in 1 .. Len(t), NEW j \in 1 .. Len(t), i < j
        PROVE  t[i] < t[j]
    <3>1. i + 1 \in 1 .. Len(s) /\ j + 1 \in 1 .. Len(s) /\ i + 1 < j + 1
      BY <1>3, <2>1
    <3>2. s[i + 1] < s[j + 1]
      BY <1>7, <3>1 DEF Increasing
    <3>3. QED
      BY <1>2, <3>2
  <2>2. ASSUME NEW p \in Range(t) PROVE Head(s) < p
    <3>1. PICK i \in 1 .. Len(t) : t[i] = p
      BY <1>1, RangeFacts
    <3>2. s[1] < s[i + 1]
      BY <1>3, <1>7, <3>1 DEF Increasing
    <3>3. QED
      BY <1>1, <1>2, <3>1, <3>2
  <2>3. QED
    BY <2>1, <2>2 DEF Increasing
<1>8. QED
  BY <1>1, <1>5, <1>6, <1>7 DEF t

LEMMA SetupFacts ==
    ASSUME setup \in Setups
    PROVE  /\ setup.producerQueue \in Nat \ {0} /\ setup.consumers \in Nat \ {0}
           /\ 1 \in Consumers /\ Consumers \subseteq Nat
           /\ ProducerNodes(setup) = setup.producerQueue + 2
<1>1. setup.producerQueue \in Nat \ {0} /\ setup.consumers \in Nat \ {0}
  BY PipelineAssumption DEF IsSetup
<1>2. QED
  BY <1>1 DEF Consumers, ProducerNodes

LEMMA InitInv == ASSUME Init PROVE IInv
<1>1. setup \in Setups
  BY DEF Init
<1>2. Range(<<>>) = {} /\ <<>> \in Seq(Nat) /\ Len(<<>>) = 0 /\ Increasing(<<>>)
  BY DEF Range, Increasing
<1>3. Types
  BY <1>1, <1>2, SetupFacts DEF Init, Types, Locations, NoPacket
<1>4. ConsumerTypes
  BY <1>2 DEF Init, ConsumerTypes, NoPacket
<1>5. ProducerPool
  BY <1>1, <1>2, SetupFacts DEF Init, ProducerPool, Holds, NoPacket
<1>6. ProducerOrder
  BY <1>2 DEF Init, ProducerOrder, NoPacket
<1>7. ConsumerOrder
  BY <1>2 DEF Init, ConsumerOrder, NoPacket, YetToEnqueue
<1>8. QED
  BY <1>3, <1>4, <1>5, <1>6, <1>7 DEF IInv

(* Whatever is on the way was produced.                                     *)
LEMMA OnTheWayProduced ==
    ASSUME IInv, NEW c \in Consumers
    PROVE  OnTheWay(c) \in SUBSET (1 .. sent)
<1>1. Range(queue[c]) \subseteq 1 .. sent /\ Range(producerQueue) \subseteq 1 .. sent
  BY DEF IInv, Types, ConsumerTypes
<1>2. YetToEnqueue(c) => job \in 1 .. sent
  BY DEF IInv, Types, YetToEnqueue
<1>3. filling # NoPacket => filling \in 1 .. sent
  BY DEF IInv, Types, NoPacket
<1>4. QED
  BY <1>1, <1>2, <1>3 DEF OnTheWay

(* A step after which nothing new is on the way loses packets at most.       *)
LEMMA Losing ==
    ASSUME IInv, setup' = setup, sent' = sent, heard' = heard,
           \A c \in Consumers : OnTheWay(c)' \subseteq OnTheWay(c)
    PROVE  Stream!Lose
<1> DEFINE kept == [c \in Consumers |-> OnTheWay(c)']
<1>1. Consumers' = Consumers
  BY DEF Consumers
<1>2. kept \in [Consumers -> SUBSET (1 .. sent)]
  BY OnTheWayProduced
<1>3. \A c \in Consumers : kept[c] \subseteq [d \in Consumers |-> OnTheWay(d)][c]
  OBVIOUS
<1>4. [c \in Consumers |-> OnTheWay(c)]' = kept
  BY <1>1
<1>5. QED
  BY <1>1, <1>2, <1>3, <1>4 DEF Stream!Lose

(* A step that only adds the newest packet, and may lose others.             *)
LEMMA Putting ==
    ASSUME IInv, setup' = setup, sent' = sent + 1, heard' = heard,
           \A c \in Consumers : /\ OnTheWay(c)' \subseteq OnTheWay(c) \cup {sent + 1}
                                /\ sent + 1 \in OnTheWay(c)'
    PROVE  Stream!Put
<1> DEFINE kept == [c \in Consumers |-> OnTheWay(c)' \cap OnTheWay(c)]
<1>1. Consumers' = Consumers
  BY DEF Consumers
<1>2. kept \in [Consumers -> SUBSET (1 .. sent)]
  BY OnTheWayProduced
<1>3. \A c \in Consumers : kept[c] \subseteq [d \in Consumers |-> OnTheWay(d)][c]
  OBVIOUS
<1>4. \A c \in Consumers : OnTheWay(c)' = kept[c] \cup {sent + 1}
  OBVIOUS
<1>5. [c \in Consumers |-> OnTheWay(c)]' = [c \in Consumers |-> kept[c] \cup {sent + 1}]
  BY <1>1, <1>4
<1>6. QED
  BY <1>1, <1>2, <1>3, <1>5 DEF Stream!Put

(* A step in which one consumer hears the oldest packet of its queue.        *)
LEMMA Playing ==
    ASSUME IInv, setup' = setup, sent' = sent, NEW c \in Consumers, queue[c] # <<>>,
           queue' = [queue EXCEPT ![c] = Tail(@)],
           heard' = [heard EXCEPT ![c] = Head(queue[c])],
           UNCHANGED <<producerQueue, filling, pc, job, at>>
    PROVE  /\ \E d \in Consumers : Stream!Play(d)
           /\ ConsumerTypes' /\ ConsumerOrder'
<1> DEFINE p == Head(queue[c])
<1>1. Consumers' = Consumers /\ \A d \in Consumers : YetToEnqueue(d)' = YetToEnqueue(d)
  BY DEF Consumers, YetToEnqueue
<1>2. /\ queue[c] \in Seq(Nat) /\ Increasing(queue[c]) /\ Range(queue[c]) \subseteq 1 .. sent
      /\ queue \in [Consumers -> Seq(Nat)] /\ heard \in [Consumers -> Nat]
      /\ sent \in Nat
  BY DEF IInv, Types, ConsumerTypes, ConsumerOrder
<1>3. /\ Tail(queue[c]) \in Seq(Nat) /\ Increasing(Tail(queue[c]))
      /\ p \in Nat /\ p \in Range(queue[c]) /\ p <= sent
      /\ Range(queue[c]) = {p} \cup Range(Tail(queue[c]))
      /\ \A q \in Range(Tail(queue[c])) : p < q
  BY <1>2, RangeTail
<1>4. /\ queue'[c] = Tail(queue[c]) /\ heard'[c] = p
      /\ \A d \in Consumers : d # c => queue'[d] = queue[d] /\ heard'[d] = heard[d]
      /\ queue' \in [Consumers -> Seq(Nat)] /\ heard' \in [Consumers -> Nat]
  BY <1>2, <1>3
<1> HIDE DEF p
<1>5. ConsumerTypes'
  <2>1. \A d \in Consumers : Range(queue'[d]) \subseteq 1 .. sent /\ heard'[d] <= sent
    BY <1>2, <1>3, <1>4 DEF IInv, ConsumerTypes
  <2>2. QED
    BY <1>1, <1>4, <2>1 DEF ConsumerTypes
<1>6. \A x \in Nat : Behind(c, x) => Behind(c, x)'
  BY <1>3, <1>4 DEF Behind
<1>7. \A d \in Consumers, x \in Nat : Behind(d, x) => Behind(d, x)'
  BY <1>4, <1>6 DEF Behind
<1>8. /\ \A x \in Range(producerQueue) : x \in Nat
      /\ filling \in Nat /\ job \in Nat
  BY DEF IInv, Types
<1>9. ConsumerOrder'
  <2> SUFFICES ASSUME NEW d \in Consumers
               PROVE  /\ Increasing(queue'[d])
                      /\ \A x \in Range(queue'[d]) : heard'[d] < x
                      /\ \A x \in Range(producerQueue) : Behind(d, x)'
                      /\ filling # NoPacket => Behind(d, filling)'
                      /\ YetToEnqueue(d) => Behind(d, job)'
    BY <1>1 DEF ConsumerOrder
  <2>1. Increasing(queue'[d]) /\ \A x \in Range(queue'[d]) : heard'[d] < x
    <3>1. CASE d = c
      BY <1>3, <1>4, <3>1
    <3>2. CASE d # c
      BY <1>4, <3>2 DEF IInv, ConsumerOrder
    <3>3. QED
      BY <3>1, <3>2
  <2>2. QED
    BY <1>7, <1>8, <2>1 DEF IInv, ConsumerOrder
<1>10. OnTheWay(c)' = OnTheWay(c) \ {p}
  <2>1. /\ \A x \in Range(producerQueue) : p < x
        /\ filling # NoPacket => p < filling
        /\ YetToEnqueue(c) => p < job
    BY <1>3 DEF IInv, ConsumerOrder, Behind
  <2>2. p \notin Range(producerQueue) /\ (filling # NoPacket => p # filling)
        /\ (YetToEnqueue(c) => p # job) /\ p \notin Range(Tail(queue[c]))
    BY <1>3, <1>8, <2>1
  <2>3. QED
    BY <1>1, <1>3, <1>4, <2>2 DEF OnTheWay
<1>11. p \in OnTheWay(c) /\ \A q \in OnTheWay(c) : p <= q
  <2>1. p \in OnTheWay(c)
    BY <1>3 DEF OnTheWay
  <2>2. ASSUME NEW q \in OnTheWay(c) PROVE p <= q
    <3>1. q \in Nat
      BY <1>2, OnTheWayProduced
    <3>2. CASE q \in Range(queue[c])
      BY <1>3, <3>1, <3>2
    <3>3. CASE q \in Range(producerQueue)
      BY <1>3, <3>1, <3>3 DEF IInv, ConsumerOrder, Behind
    <3>4. CASE YetToEnqueue(c) /\ q = job
      <4>1. Behind(c, job)
        BY <3>4 DEF IInv, ConsumerOrder
      <4>2. p < q
        BY <1>3, <3>4, <4>1 DEF Behind
      <4>3. QED
        BY <1>3, <3>1, <4>2
    <3>5. CASE filling # NoPacket /\ q = filling
      BY <1>3, <3>1, <3>5 DEF IInv, ConsumerOrder, Behind
    <3>6. QED
      BY <3>2, <3>3, <3>4, <3>5 DEF OnTheWay
  <2>3. QED
    BY <2>1, <2>2
<1>12. Stream!Play(c)
  <2> DEFINE way == [d \in Consumers |-> OnTheWay(d)]
  <2>1. \A d \in Consumers : d # c => OnTheWay(d)' = OnTheWay(d)
    BY <1>1, <1>4 DEF OnTheWay
  <2>2. way' = [way EXCEPT ![c] = @ \ {p}]
    BY <1>1, <1>10, <2>1
  <2>3. way[c] = OnTheWay(c)
    OBVIOUS
  <2>4. heard' = [heard EXCEPT ![c] = p]
    BY DEF p
  <2>5. QED
    BY <1>1, <1>11, <2>2, <2>3, <2>4 DEF Stream!Play
<1>13. QED
  BY <1>5, <1>9, <1>12

(* A step that only loses packets, or moves process on with the one it has.   *)
LEMMA Moving ==
    ASSUME IInv, UNCHANGED <<setup, sent, producerQueue, heard>>,
           filling' = filling \/ filling' = NoPacket,
           queue' \in [Consumers -> Seq(Nat)],
           \A c \in Consumers : Increasing(queue'[c]) /\ Range(queue'[c]) \subseteq Range(queue[c]),
           pc' \in Locations, at' \in Consumers, job' \in Nat,
           pc' # "idle" => pc # "idle" /\ job' = job,
           \A c \in Consumers : YetToEnqueue(c)' => YetToEnqueue(c),
           ProducerPool'
    PROVE  IInv' /\ Stream!Lose
<1>1. Consumers' = Consumers
  BY DEF Consumers
<1>2. \A c \in Consumers : YetToEnqueue(c)' => job' = job
  BY DEF YetToEnqueue
<1>3. Types'
  BY <1>1 DEF IInv, Types, NoPacket
<1>4. ConsumerTypes'
  BY <1>1 DEF IInv, ConsumerTypes
<1>5. ProducerOrder'
  <2>1. filling' # NoPacket => filling' = filling /\ filling # NoPacket
    OBVIOUS
  <2>2. QED
    BY <2>1 DEF IInv, ProducerOrder
<1>6. \A c \in Consumers, x \in Nat : Behind(c, x) => Behind(c, x)'
  BY DEF Behind
<1>7. ConsumerOrder'
  <2> SUFFICES ASSUME NEW c \in Consumers
               PROVE  /\ Increasing(queue'[c])
                      /\ \A p \in Range(queue'[c]) : heard[c] < p
                      /\ \A p \in Range(producerQueue) : Behind(c, p)'
                      /\ filling' # NoPacket => Behind(c, filling)'
                      /\ YetToEnqueue(c)' => Behind(c, job)'
    BY <1>1 DEF ConsumerOrder
  <2>1. \A p \in Range(producerQueue) : p \in Nat
    BY DEF IInv, Types
  <2>2. filling \in Nat /\ job \in Nat
    BY DEF IInv, Types
  <2>3. \A p \in Range(queue'[c]) : heard[c] < p
    BY DEF IInv, ConsumerOrder
  <2>4. \A p \in Range(producerQueue) : Behind(c, p)'
    BY <1>6, <2>1 DEF IInv, ConsumerOrder
  <2>5. ASSUME filling' # NoPacket PROVE Behind(c, filling)'
    BY <1>6, <2>2, <2>5 DEF IInv, ConsumerOrder
  <2>6. ASSUME YetToEnqueue(c)' PROVE Behind(c, job)'
    BY <1>2, <1>6, <2>2, <2>6 DEF IInv, ConsumerOrder
  <2>7. QED
    BY <2>3, <2>4, <2>5, <2>6
<1>8. ASSUME NEW c \in Consumers PROVE OnTheWay(c)' \subseteq OnTheWay(c)
  <2>1. (IF YetToEnqueue(c)' THEN {job'} ELSE {}) \subseteq (IF YetToEnqueue(c) THEN {job} ELSE {})
    BY <1>2
  <2>2. QED
    BY <2>1 DEF OnTheWay
<1>9. QED
  BY <1>3, <1>4, <1>5, <1>7, <1>8, Losing DEF IInv

(* Queues that do not change are as ordered as before.                        *)
LEMMA SameQueues ==
    ASSUME IInv, queue' = queue
    PROVE  /\ queue' \in [Consumers -> Seq(Nat)]
           /\ \A c \in Consumers : Increasing(queue'[c]) /\ Range(queue'[c]) \subseteq Range(queue[c])
  BY DEF IInv, ConsumerTypes, ConsumerOrder

(* The producer pool, when nodes only pass between process and the free queue. *)
LEMMA SamePool ==
    ASSUME IInv, UNCHANGED <<setup, filling, producerQueue>>,
           producerFree' = producerFree, (pc' = "copy") = (pc = "copy")
    PROVE  ProducerPool'
  BY DEF IInv, ProducerPool, ProducerNodes

(* What Types says of process.                                              *)
LEMMA ProcessFacts ==
    ASSUME IInv
    PROVE  /\ pc \in Locations /\ at \in Consumers /\ job \in Nat /\ sent \in Nat
           /\ setup.consumers \in Nat \ {0} /\ 1 \in Consumers
           /\ Consumers = 1 .. setup.consumers /\ NoPacket \in Nat
  BY SetupFacts DEF IInv, Types, Consumers, NoPacket

----------------------------------------------------------------------------
(* One lemma per action: the invariant holds after it, and it is a step of   *)
(* AudioStream.                                                             *)

LEMMA StartInv == ASSUME IInv, Start PROVE IInv' /\ Stream!Lose
<1>1. UNCHANGED <<setup, sent, producerQueue, heard, queue, filling, pc, at, job, producerFree>>
  BY DEF Start, producerVars, processVars, consumerVars
<1>2. \A c \in Consumers : YetToEnqueue(c)' => YetToEnqueue(c)
  BY <1>1 DEF YetToEnqueue
<1>3. QED
  BY <1>1, <1>2, ProcessFacts, SameQueues, SamePool, Moving

LEMMA StopInv == ASSUME IInv, Stop PROVE IInv' /\ Stream!Lose
<1>1. /\ UNCHANGED <<setup, sent, producerQueue, heard, queue, pc, at, job>>
      /\ filling' = NoPacket
      /\ producerFree' = producerFree + Holds(filling # NoPacket)
  BY DEF Stop, Holds, processVars
<1>2. \A c \in Consumers : YetToEnqueue(c)' => YetToEnqueue(c)
  BY <1>1 DEF YetToEnqueue
<1>3. ProducerPool'
  <2>1. Holds(filling' # NoPacket) = 0 /\ Holds(filling # NoPacket) \in Nat
        /\ Holds(pc = "copy") \in Nat
    BY <1>1 DEF Holds
  <2>2. Holds(pc' = "copy") = Holds(pc = "copy") /\ ProducerNodes(setup') = ProducerNodes(setup)
    BY <1>1
  <2>3. producerFree \in Nat /\ Len(producerQueue) \in Nat
    BY DEF IInv, Types, ProducerPool
  <2>4. producerFree' + Len(producerQueue') + 0 + Holds(pc' = "copy") = ProducerNodes(setup')
    BY <1>1, <2>1, <2>2, <2>3 DEF IInv, ProducerPool
  <2>5. producerFree' \in Nat /\ Len(producerQueue') <= setup'.producerQueue
    BY <1>1, <2>1, <2>3 DEF IInv, ProducerPool
  <2>6. QED
    BY <2>1, <2>4, <2>5 DEF ProducerPool
<1>4. QED
  BY <1>1, <1>2, <1>3, ProcessFacts, SameQueues, Moving

LEMMA CopyInv == ASSUME IInv, Copy PROVE IInv' /\ Stream!Lose
<1>1. /\ UNCHANGED <<setup, sent, producerQueue, heard, queue, filling, at>>
      /\ pc = "copy" /\ producerFree' = producerFree + 1
      /\ \/ pc' = "stage" /\ job' = job
         \/ pc' = "idle" /\ job' = NoPacket
  BY DEF Copy, consumerVars
<1>2. pc' \in Locations /\ pc # "idle" /\ pc' # "copy"
  BY <1>1 DEF Locations
<1>3. \A c \in Consumers : YetToEnqueue(c)' => YetToEnqueue(c)
  BY <1>1 DEF YetToEnqueue
<1>4. ProducerPool'
  <2>1. Holds(pc = "copy") = 1 /\ Holds(pc' = "copy") = 0 /\ Holds(filling # NoPacket) \in Nat
    BY <1>1, <1>2 DEF Holds
  <2>2. /\ Holds(filling' # NoPacket) = Holds(filling # NoPacket)
        /\ ProducerNodes(setup') = ProducerNodes(setup)
    BY <1>1
  <2>3. producerFree \in Nat /\ Len(producerQueue) \in Nat
    BY DEF IInv, Types, ProducerPool
  <2>4. producerFree' + Len(producerQueue') + Holds(filling' # NoPacket) + 0 = ProducerNodes(setup')
    BY <1>1, <2>1, <2>2, <2>3 DEF IInv, ProducerPool
  <2>5. producerFree' \in Nat /\ Len(producerQueue') <= setup'.producerQueue
    BY <1>1, <2>3 DEF IInv, ProducerPool
  <2>6. QED
    BY <2>1, <2>4, <2>5 DEF ProducerPool
<1>5. QED
  BY <1>1, <1>2, <1>3, <1>4, ProcessFacts, SameQueues, Moving

LEMMA StageInv == ASSUME IInv, Stage PROVE IInv' /\ Stream!Lose
<1>1. /\ UNCHANGED <<setup, sent, producerQueue, heard, queue, filling, producerFree>>
      /\ pc = "stage"
      /\ \/ pc' = "check" /\ job' = job /\ at' = 1
         \/ pc' = "idle" /\ job' = NoPacket /\ at' = at
  BY DEF Stage, StageDone, StageFails, producerVars, consumerVars
<1>2. pc' \in Locations /\ pc # "idle" /\ pc' # "copy" /\ pc # "copy"
  BY <1>1 DEF Locations
<1>3. \A c \in Consumers : YetToEnqueue(c)' => YetToEnqueue(c)
  BY <1>1 DEF YetToEnqueue
<1>4. QED
  BY <1>1, <1>2, <1>3, ProcessFacts, SameQueues, SamePool, Moving

LEMMA CheckInv == ASSUME IInv, CheckOverflow PROVE IInv' /\ Stream!Lose
<1>1. /\ UNCHANGED <<setup, sent, producerQueue, heard, queue, filling, producerFree, job>>
      /\ pc = "check" /\ pc' \in {"drop", "check", "take"}
      /\ at' \in {at, 1} \/ (at < setup.consumers /\ at' = at + 1)
  BY DEF CheckOverflow, NextConsumer, producerVars, consumerVars
<1>2. pc' \in Locations /\ pc # "idle" /\ pc' # "copy" /\ pc # "copy"
  BY <1>1 DEF Locations
<1>3. \A c \in Consumers : YetToEnqueue(c)' => YetToEnqueue(c)
  BY <1>1 DEF YetToEnqueue
<1>4. at' \in Consumers
  BY <1>1, ProcessFacts
<1>5. QED
  BY <1>1, <1>2, <1>3, <1>4, ProcessFacts, SameQueues, SamePool, Moving

LEMMA DropInv == ASSUME IInv, Drop PROVE IInv' /\ Stream!Lose
<1>1. /\ UNCHANGED <<setup, sent, producerQueue, heard, filling, producerFree, job>>
      /\ pc = "drop" /\ pc' \in {"check", "take"}
      /\ at' = 1 \/ (at < setup.consumers /\ at' = at + 1)
      /\ queue[at] # <<>> /\ queue' = [queue EXCEPT ![at] = Tail(@)]
  BY DEF Drop, Dequeue, NextConsumer, producerVars
<1>2. pc' \in Locations /\ pc # "idle" /\ pc' # "copy" /\ pc # "copy"
  BY <1>1 DEF Locations
<1>3. \A c \in Consumers : YetToEnqueue(c)' => YetToEnqueue(c)
  BY <1>1 DEF YetToEnqueue
<1>4. at' \in Consumers
  BY <1>1, ProcessFacts
<1>5. /\ queue \in [Consumers -> Seq(Nat)] /\ at \in Consumers
      /\ queue[at] \in Seq(Nat) /\ \A c \in Consumers : Increasing(queue[c])
  BY ProcessFacts DEF IInv, ConsumerTypes, ConsumerOrder
<1>6. /\ Tail(queue[at]) \in Seq(Nat) /\ Increasing(Tail(queue[at]))
      /\ Range(Tail(queue[at])) \subseteq Range(queue[at])
  BY <1>1, <1>5, RangeTail
<1>7. /\ queue' \in [Consumers -> Seq(Nat)]
      /\ \A c \in Consumers : Increasing(queue'[c]) /\ Range(queue'[c]) \subseteq Range(queue[c])
  BY <1>1, <1>5, <1>6
<1>8. QED
  BY <1>1, <1>2, <1>3, <1>4, <1>7, ProcessFacts, SamePool, Moving

LEMMA TakeInv == ASSUME IInv, TakeNode PROVE IInv' /\ Stream!Lose
<1>1. /\ UNCHANGED <<setup, sent, producerQueue, heard, queue, filling, producerFree, job>>
      /\ pc = "take" /\ pc' \in {"enqueue", "release"} /\ at' = 1
  BY DEF TakeNode, producerVars
<1>2. pc' \in Locations /\ pc # "idle" /\ pc' # "copy" /\ pc # "copy"
  BY <1>1 DEF Locations
<1>3. \A c \in Consumers : YetToEnqueue(c)' => YetToEnqueue(c)
  BY <1>1 DEF YetToEnqueue
<1>4. QED
  BY <1>1, <1>2, <1>3, ProcessFacts, SameQueues, SamePool, Moving

LEMMA AccountInv == ASSUME IInv, Account PROVE IInv' /\ Stream!Lose
<1>1. /\ UNCHANGED <<setup, sent, producerQueue, heard, queue, filling, producerFree, job>>
      /\ pc = "account"
      /\ \/ pc' = "enqueue" /\ at < setup.consumers /\ at' = at + 1
         \/ pc' = "release" /\ at' = 1
  BY DEF Account, NextConsumer, producerVars
<1>2. pc' \in Locations /\ pc # "idle" /\ pc' # "copy" /\ pc # "copy"
  BY <1>1 DEF Locations
<1>3. at' \in Consumers
  BY <1>1, ProcessFacts
<1>4. \A c \in Consumers : at \in Nat /\ c \in Nat /\ (at + 1 <= c => at < c)
  BY ProcessFacts
<1>5. \A c \in Consumers : YetToEnqueue(c)' => YetToEnqueue(c)
  BY <1>1, <1>4 DEF YetToEnqueue
<1>6. QED
  BY <1>1, <1>2, <1>3, <1>5, ProcessFacts, SameQueues, SamePool, Moving

LEMMA ReleaseInv == ASSUME IInv, Release PROVE IInv' /\ Stream!Lose
<1>1. /\ UNCHANGED <<setup, sent, producerQueue, heard, queue, filling, producerFree, at>>
      /\ pc = "release" /\ pc' = "idle" /\ job' = NoPacket
  BY DEF Release, producerVars, consumerVars
<1>2. pc' \in Locations /\ pc' # "copy" /\ pc # "copy"
  BY <1>1 DEF Locations
<1>3. \A c \in Consumers : YetToEnqueue(c)' => YetToEnqueue(c)
  BY <1>1 DEF YetToEnqueue
<1>4. QED
  BY <1>1, <1>2, <1>3, ProcessFacts, SameQueues, SamePool, Moving

(* What enqueue_producer_node makes of the producer queue.                    *)
LEMMA Queueing ==
    ASSUME IInv, NEW p \in Nat, \A q \in Range(producerQueue) : q < p
    PROVE  /\ Queued(p) \in Seq(Nat) /\ NodesFreed \in Nat
           /\ Len(Queued(p)) + NodesFreed = Len(producerQueue) + 1
           /\ Len(Queued(p)) <= setup.producerQueue
           /\ Increasing(Queued(p))
           /\ p \in Range(Queued(p)) /\ Range(Queued(p)) \subseteq Range(producerQueue) \cup {p}
<1> DEFINE kept == IF ProducerFull THEN Tail(producerQueue) ELSE producerQueue
<1>1. /\ producerQueue \in Seq(Nat) /\ Increasing(producerQueue)
      /\ Len(producerQueue) <= setup.producerQueue
      /\ setup.producerQueue \in Nat \ {0}
  BY SetupFacts DEF IInv, Types, ProducerPool, ProducerOrder
<1>2. ProducerFull => producerQueue # <<>>
  BY <1>1 DEF ProducerFull
<1>3. /\ kept \in Seq(Nat) /\ Increasing(kept) /\ Range(kept) \subseteq Range(producerQueue)
      /\ Len(kept) = Len(producerQueue) - NodesFreed
  BY <1>1, <1>2, RangeTail DEF NodesFreed
<1>4. NodesFreed \in Nat /\ Len(kept) < setup.producerQueue
  BY <1>1, <1>2, <1>3 DEF NodesFreed, ProducerFull
<1>5. Queued(p) = Append(kept, p)
  BY DEF Queued
<1> HIDE DEF kept
<1>6. /\ Append(kept, p) \in Seq(Nat) /\ Len(Append(kept, p)) = Len(kept) + 1
      /\ Range(Append(kept, p)) = Range(kept) \cup {p}
      /\ Increasing(Append(kept, p))
  BY <1>3, RangeAppend
<1>7. QED
  BY <1>1, <1>3, <1>4, <1>5, <1>6

LEMMA ProduceNowInv == ASSUME IInv, ProduceNow PROVE IInv' /\ Stream!Put
<1> DEFINE new == sent + 1
<1>1. /\ UNCHANGED <<setup, filling, processVars, queue, heard>>
      /\ sent' = new /\ producerFree > 0
      /\ producerQueue' = Queued(new)
      /\ producerFree' = producerFree - 1 + NodesFreed
  BY DEF ProduceNow, consumerVars
<1>2. Consumers' = Consumers /\ \A c \in Consumers : YetToEnqueue(c)' = YetToEnqueue(c)
  BY <1>1 DEF Consumers, YetToEnqueue, processVars
<1>3. sent \in Nat /\ new \in Nat /\ sent < new /\ \A q \in Range(producerQueue) : q \in Nat /\ q < new
  BY DEF IInv, Types
<1>4. /\ producerQueue' \in Seq(Nat) /\ NodesFreed \in Nat
      /\ Len(producerQueue') + NodesFreed = Len(producerQueue) + 1
      /\ Len(producerQueue') <= setup.producerQueue
      /\ Increasing(producerQueue')
      /\ new \in Range(producerQueue')
      /\ Range(producerQueue') \subseteq Range(producerQueue) \cup {new}
  BY <1>1, <1>3, Queueing
<1>5. ~setup.delayedProducer /\ filling = NoPacket
  BY DEF ProduceNow, IInv, Types
<1>6. Types' /\ ConsumerTypes'
  <2>1. Range(producerQueue') \subseteq 1 .. new
    BY <1>3, <1>4 DEF IInv, Types
  <2>2. Types'
    BY <1>1, <1>2, <1>3, <1>4, <1>5, <2>1 DEF IInv, Types, processVars, NoPacket
  <2>3. ConsumerTypes'
    BY <1>1, <1>2, <1>3 DEF IInv, ConsumerTypes
  <2>4. QED
    BY <2>2, <2>3
<1>7. ProducerPool'
  <2>1. /\ producerFree \in Nat /\ Len(producerQueue) \in Nat
        /\ producerFree + Len(producerQueue) + Holds(filling # NoPacket) + Holds(pc = "copy")
             = ProducerNodes(setup)
    BY DEF IInv, Types, ProducerPool
  <2>2. /\ Holds(filling' # NoPacket) = Holds(filling # NoPacket)
        /\ Holds(pc' = "copy") = Holds(pc = "copy")
        /\ setup' = setup /\ ProducerNodes(setup') = ProducerNodes(setup)
    BY <1>1 DEF processVars
  <2>3. Holds(filling # NoPacket) \in Nat /\ Holds(pc = "copy") \in Nat
    BY DEF Holds
  <2>4. /\ producerFree' \in Nat /\ Len(producerQueue') \in Nat
        /\ producerFree' + Len(producerQueue') = producerFree + Len(producerQueue)
    BY <1>1, <1>4, <2>1, SMTT(30)
  <2>5. producerFree' + Len(producerQueue') + Holds(filling' # NoPacket) + Holds(pc' = "copy")
          = ProducerNodes(setup')
    BY <2>1, <2>2, <2>3, <2>4
  <2>6. QED
    BY <1>4, <2>2, <2>4, <2>5 DEF ProducerPool
<1>8. ProducerOrder'
  <2>1. pc # "idle" => job < new
    BY <1>3 DEF IInv, Types
  <2>2. QED
    BY <1>1, <1>4, <1>5, <2>1 DEF IInv, ProducerOrder, processVars
<1>9. \A c \in Consumers : Behind(c, new)
  BY <1>3 DEF IInv, ConsumerTypes, Behind
<1>10. ConsumerOrder'
  <2>1. \A c \in Consumers, x \in Nat : Behind(c, x)' = Behind(c, x)
    BY <1>1 DEF Behind
  <2>2. \A x \in Range(producerQueue') : x \in Nat
    BY <1>4, RangeFacts
  <2>3. \A c \in Consumers : \A x \in Range(producerQueue') : Behind(c, x)
    BY <1>4, <1>9 DEF IInv, ConsumerOrder
  <2>4. \A c \in Consumers : \A x \in Range(producerQueue') : Behind(c, x)'
    BY <2>1, <2>2, <2>3
  <2>5. ASSUME NEW c \in Consumers, YetToEnqueue(c) PROVE Behind(c, job)'
    <3>1. Behind(c, job) /\ job \in Nat /\ job' = job
      BY <1>1, <2>5 DEF IInv, Types, ConsumerOrder, processVars
    <3>2. QED
      BY <2>1, <3>1
  <2>6. QED
    BY <1>1, <1>2, <1>5, <2>4, <2>5 DEF IInv, ConsumerOrder, processVars
<1>11. \A c \in Consumers : /\ OnTheWay(c)' \subseteq OnTheWay(c) \cup {new}
                            /\ new \in OnTheWay(c)'
  BY <1>1, <1>2, <1>4 DEF OnTheWay, processVars
<1>12. QED
  BY <1>1, <1>6, <1>7, <1>8, <1>10, <1>11, Putting DEF IInv

(* The delayed producer always gets a node: the pool has two more than its queue. *)
LEMMA NodeToProduce ==
    ASSUME IInv
    PROVE  producerFree + Holds(filling # NoPacket /\ ProducerFull) > 0
<1> DEFINE full == filling # NoPacket
<1>1. /\ producerFree \in Nat /\ Len(producerQueue) \in Nat /\ setup.producerQueue \in Nat
      /\ Len(producerQueue) <= setup.producerQueue
      /\ producerFree + Len(producerQueue) + Holds(full) + Holds(pc = "copy")
           = setup.producerQueue + 2
  BY SetupFacts DEF IInv, Types, ProducerPool
<1>2. Holds(pc = "copy") \in 0 .. 1
  BY DEF Holds
<1>3. CASE ~full
  <2>1. Holds(full) = 0 /\ Holds(full /\ ProducerFull) = 0
    BY <1>3 DEF Holds
  <2>2. QED
    BY <1>1, <1>2, <2>1
<1>4. CASE full /\ ~ProducerFull
  <2>1. Holds(full) = 1 /\ Holds(full /\ ProducerFull) = 0
    BY <1>4 DEF Holds
  <2>2. Len(producerQueue) < setup.producerQueue
    BY <1>1, <1>4 DEF ProducerFull
  <2>3. QED
    BY <1>1, <1>2, <2>1, <2>2
<1>5. CASE full /\ ProducerFull
  <2>1. Holds(full /\ ProducerFull) = 1
    BY <1>5 DEF Holds
  <2>2. QED
    BY <1>1, <2>1
<1>6. QED
  BY <1>3, <1>4, <1>5

LEMMA ProduceDelayedInv == ASSUME IInv, ProduceDelayed PROVE IInv' /\ Stream!Put
<1> DEFINE new == sent + 1
           full == filling # NoPacket
           free == producerFree + (IF full THEN NodesFreed ELSE 0)
<1>1. free > 0
  <2>1. producerFree \in Nat
    BY DEF IInv, ProducerPool
  <2>2. (IF full THEN NodesFreed ELSE 0) = Holds(full /\ ProducerFull)
    BY DEF Holds, NodesFreed
  <2>3. QED
    BY <2>2, NodeToProduce
<1>2. /\ UNCHANGED <<setup, processVars, queue, heard>>
      /\ sent' = new /\ filling' = new
      /\ producerQueue' = (IF full THEN Queued(filling) ELSE producerQueue)
      /\ producerFree' = free - 1
      /\ setup.delayedProducer
  BY <1>1 DEF ProduceDelayed, consumerVars
<1>3. /\ sent \in Nat /\ new \in Nat /\ sent < new /\ new # NoPacket
      /\ filling \in Nat /\ filling <= sent
      /\ producerQueue \in Seq(Nat) /\ Increasing(producerQueue)
      /\ Len(producerQueue) <= setup.producerQueue
      /\ Range(producerQueue) \subseteq 1 .. sent
  BY DEF IInv, Types, ProducerOrder, ProducerPool, NoPacket
<1>4. full => \A q \in Range(producerQueue) : q < filling
  BY DEF IInv, ProducerOrder
<1>5. /\ producerQueue' \in Seq(Nat) /\ Increasing(producerQueue')
      /\ Len(producerQueue') <= setup.producerQueue
      /\ Range(producerQueue') \subseteq Range(producerQueue) \cup (IF full THEN {filling} ELSE {})
  BY <1>2, <1>3, <1>4, Queueing
<1>6. full => /\ NodesFreed \in Nat
              /\ Len(producerQueue') + NodesFreed = Len(producerQueue) + 1
              /\ filling \in Range(producerQueue')
  BY <1>2, <1>3, <1>4, Queueing
<1>7. Consumers' = Consumers /\ \A c \in Consumers : YetToEnqueue(c)' = YetToEnqueue(c)
  BY <1>2 DEF Consumers, YetToEnqueue, processVars
<1>8. \A p \in Range(producerQueue') : p \in 1 .. sent
  BY <1>3, <1>5 DEF NoPacket
<1>9. Types'
  <2>1. Range(producerQueue') \subseteq 1 .. new /\ filling' \in 0 .. new
    BY <1>2, <1>3, <1>8
  <2>2. QED
    BY <1>2, <1>3, <1>5, <1>7, <2>1 DEF IInv, Types, processVars
<1>10. ConsumerTypes'
  BY <1>2, <1>3, <1>7 DEF IInv, ConsumerTypes
<1>11. ProducerPool'
  <2>1. Holds(filling' # NoPacket) = 1 /\ Holds(pc' = "copy") = Holds(pc = "copy")
        /\ Holds(pc = "copy") \in Nat
    BY <1>2, <1>3 DEF Holds, processVars
  <2>2. producerFree \in Nat /\ Len(producerQueue) \in Nat /\ Len(producerQueue') \in Nat
    BY <1>3, <1>5 DEF IInv, ProducerPool
  <2>3. free + Len(producerQueue') = producerFree + Len(producerQueue) + Holds(full)
    <3>1. CASE full
      <4>1. Holds(full) = 1 /\ free = producerFree + NodesFreed
        BY <3>1 DEF Holds
      <4>2. QED
        BY <1>6, <2>2, <3>1, <4>1
    <3>2. CASE ~full
      <4>1. Holds(full) = 0 /\ free = producerFree /\ producerQueue' = producerQueue
        BY <1>2, <2>2, <3>2 DEF Holds
      <4>2. QED
        BY <2>2, <4>1
    <3>3. QED
      BY <3>1, <3>2
  <2>4. free \in Nat /\ Holds(full) \in Nat
    BY <1>6, <2>2 DEF Holds
  <2>5. producerFree + Len(producerQueue) + Holds(full) + Holds(pc = "copy") = ProducerNodes(setup)
    BY DEF IInv, ProducerPool
  <2>6. producerFree' \in Nat
        /\ producerFree' + Len(producerQueue') + 1 + Holds(pc = "copy") = ProducerNodes(setup)
    <3> HIDE DEF free, full
    <3>1. QED
      BY <1>1, <1>2, <2>1, <2>2, <2>3, <2>4, <2>5
  <2>7. QED
    BY <1>2, <1>5, <2>1, <2>6 DEF ProducerPool
<1>12. ProducerOrder'
  <2>1. \A p \in Range(producerQueue') : p < new
    BY <1>3, <1>8
  <2>2. pc # "idle" => job \in 1 .. sent
    BY DEF IInv, Types
  <2>3. pc # "idle" => job < new
    BY <1>3, <2>2
  <2>4. pc # "idle" => \A p \in Range(producerQueue') : job < p
    BY <1>5 DEF IInv, ProducerOrder
  <2>5. QED
    BY <1>2, <1>5, <2>1, <2>3, <2>4 DEF ProducerOrder, processVars
<1>13. ConsumerOrder'
  <2>1. \A c \in Consumers, x \in Nat : Behind(c, x)' = Behind(c, x)
    BY <1>2 DEF Behind
  <2>2. \A c \in Consumers : Behind(c, new)
    BY <1>3 DEF IInv, ConsumerTypes, Behind
  <2>3. \A c \in Consumers : \A x \in Range(producerQueue') : Behind(c, x)
    BY <1>5 DEF IInv, ConsumerOrder
  <2>4. \A c \in Consumers : \A x \in Range(producerQueue') : Behind(c, x)'
    BY <1>8, <1>3, <2>1, <2>3
  <2>5. ASSUME NEW c \in Consumers, YetToEnqueue(c) PROVE Behind(c, job)'
    <3>1. Behind(c, job) /\ job \in Nat /\ job' = job
      BY <1>2, <2>5 DEF IInv, Types, ConsumerOrder, processVars
    <3>2. QED
      BY <2>1, <3>1
  <2>6. \A c \in Consumers : Behind(c, filling)'
    BY <1>2, <1>3, <2>1, <2>2
  <2>7. QED
    BY <1>2, <1>7, <2>4, <2>5, <2>6 DEF IInv, ConsumerOrder, processVars
<1>14. ASSUME NEW c \in Consumers
       PROVE  /\ OnTheWay(c)' \subseteq OnTheWay(c) \cup {new}
              /\ new \in OnTheWay(c)'
  <2>1. /\ Range(producerQueue') \subseteq OnTheWay(c)
        /\ queue' = queue /\ job' = job /\ YetToEnqueue(c)' = YetToEnqueue(c)
    BY <1>2, <1>5, <1>7 DEF OnTheWay, processVars
  <2>2. QED
    BY <1>2, <1>3, <2>1 DEF OnTheWay
<1>15. QED
  BY <1>2, <1>9, <1>10, <1>11, <1>12, <1>13, <1>14, Putting DEF IInv

LEMMA BeginInv == ASSUME IInv, Begin PROVE IInv' /\ Stream!Lose
<1>1. UNCHANGED <<setup, sent, filling, producerFree, queue, heard, at>> /\ pc = "idle"
  BY DEF Begin
<1>2. CASE producerQueue' = producerQueue /\ pc' = pc /\ job' = job
  <2>1. \A c \in Consumers : YetToEnqueue(c)' => YetToEnqueue(c)
    BY <1>1, <1>2 DEF YetToEnqueue
  <2>2. QED
    BY <1>1, <1>2, <2>1, ProcessFacts, SameQueues, SamePool, Moving
<1>3. CASE /\ producerQueue # <<>> /\ job' = Head(producerQueue)
           /\ producerQueue' = Tail(producerQueue) /\ pc' = "copy"
  <2>1. /\ producerQueue \in Seq(Nat) /\ Increasing(producerQueue)
        /\ Range(producerQueue) \subseteq 1 .. sent
        /\ Len(producerQueue) <= setup.producerQueue
        /\ setup.producerQueue \in Nat
    BY SetupFacts DEF IInv, Types, ProducerPool, ProducerOrder
  <2>2. /\ producerQueue' \in Seq(Nat) /\ Increasing(producerQueue')
        /\ Len(producerQueue') = Len(producerQueue) - 1 /\ Len(producerQueue) \in Nat
        /\ Range(producerQueue) = {job'} \cup Range(producerQueue')
        /\ \A p \in Range(producerQueue') : job' < p
        /\ job' \in Nat
    BY <1>3, <2>1, RangeTail
  <2>3. Consumers' = Consumers
    BY <1>1 DEF Consumers
  <2>4. Types'
    <3>1. pc' \in Locations /\ job' \in 1 .. sent
      BY <1>3, <2>1, <2>2 DEF Locations
    <3>2. QED
      BY <1>1, <1>3, <2>1, <2>2, <2>3, <3>1 DEF IInv, Types
  <2>5. ConsumerTypes'
    BY <1>1, <2>3 DEF IInv, ConsumerTypes
  <2>6. ProducerPool'
    <3>1. Holds(pc' = "copy") = 1 /\ Holds(pc = "copy") = 0 /\ Holds(filling # NoPacket) \in Nat
      BY <1>1, <1>3 DEF Holds
    <3>2. Holds(filling' # NoPacket) = Holds(filling # NoPacket)
          /\ ProducerNodes(setup') = ProducerNodes(setup)
      BY <1>1
    <3>3. producerFree \in Nat
      BY DEF IInv, ProducerPool
    <3>4. producerFree' + Len(producerQueue') + Holds(filling' # NoPacket) + 1
            = ProducerNodes(setup')
      BY <1>1, <2>2, <3>1, <3>2, <3>3 DEF IInv, ProducerPool
    <3>5. Len(producerQueue') <= setup'.producerQueue
      BY <1>1, <2>1, <2>2
    <3>6. QED
      BY <1>1, <3>1, <3>3, <3>4, <3>5 DEF ProducerPool
  <2>7. ProducerOrder'
    BY <1>1, <2>2 DEF IInv, ProducerOrder
  <2>8. ConsumerOrder'
    <3>1. \A c \in Consumers, x \in Nat : Behind(c, x)' = Behind(c, x)
      BY <1>1 DEF Behind
    <3>2. ASSUME NEW c \in Consumers
          PROVE  /\ \A p \in Range(producerQueue') : Behind(c, p)'
                 /\ Behind(c, job)'
      <4>1. \A p \in Range(producerQueue) : Behind(c, p) /\ p \in Nat
        BY <2>1 DEF IInv, ConsumerOrder
      <4>2. \A p \in Range(producerQueue) : Behind(c, p)'
        BY <3>1, <4>1
      <4>3. job' \in Range(producerQueue) /\ Range(producerQueue') \subseteq Range(producerQueue)
        BY <2>2
      <4>4. QED
        BY <4>2, <4>3 DEF Behind
    <3>3. \A c \in Consumers : filling # NoPacket => Behind(c, filling)'
      BY <1>1 DEF IInv, ConsumerOrder, Behind
    <3>4. QED
      BY <1>1, <2>3, <3>2, <3>3 DEF IInv, ConsumerOrder
  <2>9. \A c \in Consumers : OnTheWay(c)' \subseteq OnTheWay(c)
    BY <1>1, <2>2 DEF OnTheWay
  <2>10. QED
    BY <1>1, <2>4, <2>5, <2>6, <2>7, <2>8, <2>9, Losing DEF IInv
<1>4. QED
  BY <1>2, <1>3 DEF Begin

LEMMA EnqueueInv == ASSUME IInv, Enqueue PROVE IInv' /\ Stream!Lose
<1>1. /\ UNCHANGED <<setup, sent, producerQueue, heard, filling, producerFree, job, at>>
      /\ pc = "enqueue" /\ pc' = "account"
      /\ \/ queue' = queue
         \/ queue' = [queue EXCEPT ![at] = Append(@, job)]
  BY DEF Enqueue, producerVars
<1>2. pc' \in Locations /\ pc # "idle" /\ pc' # "idle" /\ pc' # "copy" /\ pc # "copy"
  BY <1>1 DEF Locations
<1>3. \A c \in Consumers : at \in Nat /\ c \in Nat /\ (at < c => at <= c /\ at # c)
  BY ProcessFacts
<1>4. \A c \in Consumers : YetToEnqueue(c)' => YetToEnqueue(c) /\ c # at
  BY <1>1, <1>3 DEF YetToEnqueue
<1>5. CASE queue' = queue
  BY <1>1, <1>2, <1>4, <1>5, ProcessFacts, SameQueues, SamePool, Moving
<1>6. CASE queue' = [queue EXCEPT ![at] = Append(@, job)]
  <2>1. /\ queue \in [Consumers -> Seq(Nat)] /\ at \in Consumers /\ job \in 1 .. sent
        /\ queue[at] \in Seq(Nat) /\ Increasing(queue[at]) /\ job \in Nat /\ sent \in Nat
        /\ Range(queue[at]) \subseteq 1 .. sent
    BY <1>2, ProcessFacts DEF IInv, Types, ConsumerTypes, ConsumerOrder
  <2>2. YetToEnqueue(at)
    BY <1>1, <1>3, <2>1 DEF YetToEnqueue
  <2>3. Behind(at, job)
    BY <2>1, <2>2 DEF IInv, ConsumerOrder
  <2>4. /\ Append(queue[at], job) \in Seq(Nat) /\ Increasing(Append(queue[at], job))
        /\ Range(Append(queue[at], job)) = Range(queue[at]) \cup {job}
    BY <2>1, <2>3, RangeAppend DEF Behind
  <2>5. /\ queue'[at] = Append(queue[at], job)
        /\ \A c \in Consumers : c # at => queue'[c] = queue[c]
        /\ queue' \in [Consumers -> Seq(Nat)]
    BY <1>6, <2>1, <2>4
  <2>6. Consumers' = Consumers
    BY <1>1 DEF Consumers
  <2>7. Types'
    BY <1>1, <1>2, <2>6 DEF IInv, Types
  <2>8. ConsumerTypes'
    <3>1. \A c \in Consumers : Range(queue'[c]) \subseteq 1 .. sent
      BY <2>1, <2>4, <2>5 DEF IInv, ConsumerTypes
    <3>2. QED
      BY <1>1, <2>5, <2>6, <3>1 DEF IInv, ConsumerTypes
  <2>9. ProducerPool'
    BY <1>1, <1>2, SamePool
  <2>10. ProducerOrder'
    BY <1>1, <1>2 DEF IInv, ProducerOrder
  <2>11. ConsumerOrder'
    <3> SUFFICES ASSUME NEW c \in Consumers
                 PROVE  /\ Increasing(queue'[c])
                        /\ \A x \in Range(queue'[c]) : heard[c] < x
                        /\ \A x \in Range(producerQueue) : Behind(c, x)'
                        /\ filling # NoPacket => Behind(c, filling)'
                        /\ YetToEnqueue(c)' => Behind(c, job)'
      BY <1>1, <2>6 DEF ConsumerOrder
    <3>1. CASE c # at
      <4>1. Behind(c, job)' = Behind(c, job) /\ Behind(c, filling)' = Behind(c, filling)
            /\ \A x : Behind(c, x)' = Behind(c, x)
        BY <1>1, <2>5, <3>1 DEF Behind
      <4>2. QED
        BY <1>4, <2>5, <3>1, <4>1 DEF IInv, ConsumerOrder
    <3>2. CASE c = at
      <4>1. \A x \in Nat : Behind(at, x) /\ job < x => Behind(at, x)'
        BY <1>1, <2>4, <2>5 DEF Behind
      <4>2. \A x \in Range(producerQueue) : x \in Nat /\ job < x /\ Behind(at, x)
        BY <1>2, <2>1 DEF IInv, Types, ProducerOrder, ConsumerOrder
      <4>3. filling # NoPacket => filling \in Nat /\ job < filling /\ Behind(at, filling)
        BY <1>2, <2>1 DEF IInv, Types, ProducerOrder, ConsumerOrder
      <4>4. filling # NoPacket => Behind(at, filling)'
        BY <1>1, <2>4, <2>5, <4>3 DEF Behind
      <4>5. \A x \in Range(queue'[at]) : heard[at] < x
        BY <2>1, <2>3, <2>4, <2>5 DEF IInv, ConsumerOrder, Behind
      <4>6. Increasing(queue'[at]) /\ ~YetToEnqueue(at)'
        <5>1. Increasing(queue'[at])
          BY <2>4, <2>5
        <5>2. ~YetToEnqueue(at)'
          BY <1>1, <1>3, <2>1 DEF YetToEnqueue
        <5>3. QED
          BY <5>1, <5>2
      <4>7. \A x \in Range(producerQueue) : Behind(at, x)'
        BY <4>1, <4>2
      <4>8. QED
        BY <1>1, <3>2, <4>4, <4>5, <4>6, <4>7 DEF Behind
    <3>3. QED
      BY <3>1, <3>2
  <2>12. ASSUME NEW c \in Consumers PROVE OnTheWay(c)' \subseteq OnTheWay(c)
    <3>1. CASE c # at
      <4>1. (IF YetToEnqueue(c)' THEN {job'} ELSE {}) \subseteq (IF YetToEnqueue(c) THEN {job} ELSE {})
        BY <1>1, <1>4
      <4>2. QED
        BY <1>1, <2>5, <3>1, <4>1 DEF OnTheWay
    <3>2. CASE c = at
      BY <1>1, <1>4, <2>2, <2>4, <2>5, <3>2 DEF OnTheWay
    <3>3. QED
      BY <3>1, <3>2
  <2>13. QED
    BY <1>1, <2>7, <2>8, <2>9, <2>10, <2>11, <2>12, Losing DEF IInv
<1>7. QED
  BY <1>1, <1>5, <1>6

LEMMA ConsumeDelayedInv ==
    ASSUME IInv, ConsumeDelayed
    PROVE  IInv' /\ (Stream!Lose \/ \E c \in Consumers : Stream!Play(c))
<1>1. UNCHANGED <<setup, sent, filling, producerQueue, producerFree, pc, job, at, processingFree>>
  BY DEF ConsumeDelayed, producerVars, processVars
<1>2. Consumers' = Consumers /\ ProducerPool' /\ 1 \in Consumers
  BY <1>1, SamePool, ProcessFacts DEF Consumers
<1>3. CASE queue[1] # <<>> /\ Dequeue(1) /\ heard' = [heard EXCEPT ![1] = Head(queue[1])]
  <2>1. /\ \E c \in Consumers : Stream!Play(c)
        /\ ConsumerTypes' /\ ConsumerOrder'
    BY <1>1, <1>2, <1>3, Playing DEF Dequeue
  <2>2. Types' /\ ProducerOrder'
    BY <1>1, <1>2 DEF IInv, Types, ProducerOrder
  <2>3. QED
    BY <1>2, <2>1, <2>2 DEF IInv
<1>4. CASE UNCHANGED <<queue, heard>>
  <2>1. \A c \in Consumers : YetToEnqueue(c)' => YetToEnqueue(c)
    BY <1>1 DEF YetToEnqueue
  <2>2. QED
    BY <1>1, <1>2, <1>4, <2>1, ProcessFacts, SameQueues, Moving
<1>5. QED
  BY <1>3, <1>4 DEF ConsumeDelayed

LEMMA ConsumeNowInv ==
    ASSUME IInv, NEW c \in Consumers, ConsumeNow(c)
    PROVE  IInv' /\ \E d \in Consumers : Stream!Play(d)
<1>1. /\ UNCHANGED <<setup, sent, filling, producerQueue, producerFree, pc, job, at, processingFree>>
      /\ queue[c] # <<>> /\ Dequeue(c) /\ heard' = [heard EXCEPT ![c] = Head(queue[c])]
  BY DEF ConsumeNow, producerVars, processVars
<1>2. Consumers' = Consumers /\ ProducerPool'
  BY <1>1, SamePool DEF Consumers
<1>3. /\ \E d \in Consumers : Stream!Play(d)
      /\ ConsumerTypes' /\ ConsumerOrder'
  BY <1>1, Playing DEF Dequeue
<1>4. Types' /\ ProducerOrder'
  BY <1>1, <1>2 DEF IInv, Types, ProducerOrder
<1>5. QED
  BY <1>2, <1>3, <1>4 DEF IInv

(* What a stutter of the pipeline leaves alone.                              *)
LEMMA StutterInv ==
    ASSUME IInv, UNCHANGED vars
    PROVE  IInv' /\ Stream!Lose
<1>1. UNCHANGED <<setup, sent, producerQueue, heard, queue, filling, pc, at, job, producerFree>>
  BY DEF vars, producerVars, processVars, consumerVars
<1>2. \A c \in Consumers : YetToEnqueue(c)' => YetToEnqueue(c)
  BY <1>1 DEF YetToEnqueue
<1>3. QED
  BY <1>1, <1>2, ProcessFacts, SameQueues, SamePool, Moving

LEMMA NextInv == ASSUME IInv, [Next]_vars PROVE IInv' /\ Stream!Next
<1>1. CASE Start
  BY <1>1, StartInv DEF Stream!Next
<1>2. CASE Stop
  BY <1>2, StopInv DEF Stream!Next
<1>3. CASE Produce
  BY <1>3, ProduceDelayedInv, ProduceNowInv DEF Produce, Stream!Next
<1>4. CASE Process
  BY <1>4, BeginInv, CopyInv, StageInv, CheckInv, DropInv, TakeInv, EnqueueInv, AccountInv,
     ReleaseInv DEF Process, Stream!Next
<1>5. CASE Consume
  BY <1>5, ConsumeDelayedInv, ConsumeNowInv DEF Consume, Stream!Next
<1>6. CASE UNCHANGED vars
  BY <1>6, StutterInv DEF Stream!Next
<1>7. QED
  BY <1>1, <1>2, <1>3, <1>4, <1>5, <1>6 DEF Next

----------------------------------------------------------------------------
(* The inductive invariant holds: from what was heard to what is being        *)
(* filled, packets only get newer, and the producer's nodes are all accounted  *)
(* for (src/core/audio/api/sac_api.c).                                       *)
THEOREM Invariance == Spec => []IInv
<1>1. Init => IInv
  BY InitInv
<1>2. IInv /\ [Next]_vars => IInv'
  BY NextInv
<1>3. QED
  BY <1>1, <1>2, PTL DEF Spec

(* init_audio_queues gives the producer enough nodes: whenever its endpoint is  *)
(* called one is free, or the full queue gives one back, for every queue size   *)
(* and wherever process was interrupted (sac_api.c:610).                       *)
THEOREM ProducerFindsNode == Spec => []ProduceAlwaysSucceeds
<1>1. IInv => ProduceAlwaysSucceeds
  <2> SUFFICES ASSUME IInv PROVE ProduceAlwaysSucceeds
    OBVIOUS
  <2>1. CASE setup.delayedProducer
    BY <2>1, NodeToProduce DEF ProduceAlwaysSucceeds, Holds
  <2>2. CASE ~setup.delayedProducer
    <3>1. filling = NoPacket
      BY <2>2 DEF IInv, Types
    <3>2. QED
      BY <3>1, NodeToProduce DEF ProduceAlwaysSucceeds, Holds
  <2>3. setup.delayedProducer \in BOOLEAN
    BY PipelineAssumption DEF IInv, Types, IsSetup
  <2>4. QED
    BY <2>1, <2>2, <2>3
<1>2. QED
  BY <1>1, Invariance, PTL

(* The pipeline implements AudioStream: each consumer hears a subsequence of     *)
(* what was produced, in order, none twice, whatever process, the interrupts    *)
(* and the full queues do (sac_pipeline_produce, process, consume).             *)
THEOREM Refinement == Spec => StreamSpec
<1>1. Init => Stream!Init
  <2> SUFFICES ASSUME Init PROVE Stream!Init
    OBVIOUS
  <2>1. Range(<<>>) = {}
    BY DEF Range
  <2>2. \A c \in Consumers : OnTheWay(c) = {}
    BY <2>1 DEF Init, OnTheWay, YetToEnqueue, NoPacket
  <2>3. [c \in Consumers |-> OnTheWay(c)] = [c \in Consumers |-> {}]
    BY <2>2
  <2>4. QED
    BY <2>3 DEF Init, NoPacket, Stream!Init
<1>2. IInv /\ [Next]_vars => [Stream!Next]_(Stream!vars)
  BY NextInv
<1>3. QED
  BY <1>1, <1>2, Invariance, PTL DEF Spec, StreamSpec, Stream!Spec
----------------------------------------------------------------------------
(* The nodes of the consumers.                                              *)

(* Chained consumers are called next to process and do not preempt it.        *)
ChainMode == \A s \in Setups : s.preempts => s.consumers = 1

QueuedPackets == UNION {Range(queue[c]) : c \in Consumers}

(* Counters and flags stay in their ranges, and the two processing nodes are   *)
(* free or at work.                                                         *)
Sizes ==
    /\ starts \in 0 .. MaxStarts /\ producing \in BOOLEAN /\ threshold \in Nat
    /\ sent <= MaxPackets
    /\ processingFree \in Nat
    /\ processingFree + Holds(pc \notin {"idle", "copy"}) = ProcessingNodes
    /\ complete \in [Consumers -> BOOLEAN] /\ running \in [Consumers -> BOOLEAN]
    /\ buffered \in Int /\ ticks \in 0 .. MaxTicks

(* copy_count is the number of queues that hold the node.                    *)
Copies ==
    /\ copies \in [Packets -> Nat]
    /\ \A p \in Packets : copies[p] = Cardinality(InQueues(p))

ConsumerPool ==
    /\ consumerFree \in Nat /\ playing \in Nat
    /\ playing # NoPacket => setup.delayedConsumer /\ playing = heard[1]
    /\ consumerFree + Holds(playing # NoPacket) + Cardinality(QueuedPackets)
         + Holds(pc = "enqueue" /\ at = 1) = ConsumerNodes(setup)

(* The queues are suffixes of one stream, but for the packet in hand.         *)
Nested ==
    \A c, d \in Consumers : \A p \in Range(queue[c]), r \in Range(queue[d]) :
        p <= r => r \in Range(queue[c]) \/ (r = job /\ YetToEnqueue(c))

(* Nothing queued is newer than the packet in hand; while it goes from one     *)
(* consumer to the next none has played it.                                  *)
Newest ==
    /\ pc # "idle" => \A c \in Consumers : \A p \in Range(queue[c]) : p <= job
    /\ pc \in {"enqueue", "account"} /\ setup.consumers > 1 =>
          \A c \in Consumers : YetToEnqueue(c) \/ job \in Range(queue[c])

(* The queues that were checked have room for the packet in hand.             *)
Room ==
    /\ \A c \in Consumers : Len(queue[c]) <= Limit
    /\ pc \in {"check", "drop"} => \A c \in Consumers : c < at => Len(queue[c]) < Limit
    /\ pc = "take" => \A c \in Consumers : Len(queue[c]) < Limit
    /\ pc \in {"enqueue", "account"} =>
          \A c \in Consumers : YetToEnqueue(c) => Len(queue[c]) < Limit

NodeInv == IInv /\ Sizes /\ Copies /\ ConsumerPool /\ Nested /\ Newest /\ Room

LEMMA IntervalSize ==
    ASSUME NEW n \in Nat
    PROVE  IsFiniteSet(1 .. n) /\ Cardinality(1 .. n) = n
<1>1. IsFiniteSet(1 .. n) /\ Cardinality(1 .. n) = IF 1 > n THEN 0 ELSE n - 1 + 1
  BY FS_Interval, 1 \in Int, n \in Int
<1>2. (IF 1 > n THEN 0 ELSE n - 1 + 1) = n
  OBVIOUS
<1>3. QED
  BY <1>1, <1>2

(* How many different packets a queue holds.                                 *)
LEMMA RangeSize ==
    ASSUME NEW s \in Seq(Nat)
    PROVE  /\ IsFiniteSet(Range(s)) /\ Cardinality(Range(s)) \in Nat
           /\ Cardinality(Range(s)) <= Len(s)
           /\ Increasing(s) => Cardinality(Range(s)) = Len(s)
<1>1. Len(s) \in Nat /\ DOMAIN s = 1 .. Len(s) /\ s \in [1 .. Len(s) -> Nat]
  OBVIOUS
<1>2. s \in Surjection(1 .. Len(s), Range(s))
  <2>1. \A x \in Range(s) : \E i \in 1 .. Len(s) : s[i] = x
    BY RangeFacts
  <2>2. \A i \in 1 .. Len(s) : s[i] \in Range(s)
    BY RangeFacts
  <2>3. s \in [1 .. Len(s) -> Range(s)]
    BY <1>1, <2>2
  <2>4. QED
    BY <2>1, <2>3 DEF Surjection
<1>3. IsFiniteSet(1 .. Len(s)) /\ Cardinality(1 .. Len(s)) = Len(s)
  BY <1>1, IntervalSize
<1>4. /\ IsFiniteSet(Range(s)) /\ Cardinality(Range(s)) <= Len(s)
      /\ Cardinality(Range(s)) = Len(s) <=> s \in Injection(1 .. Len(s), Range(s))
  BY <1>2, <1>3, FS_Surjection
<1>5. Increasing(s) => s \in Injection(1 .. Len(s), Range(s))
  <2>1. ASSUME Increasing(s), NEW i \in 1 .. Len(s), NEW j \in 1 .. Len(s), s[i] = s[j]
        PROVE  i = j
    <3>1. s[i] \in Nat /\ s[j] \in Nat
      BY <1>1
    <3>2. ~(i < j) /\ ~(j < i)
      BY <2>1, <3>1 DEF Increasing
    <3>3. QED
      BY <1>1, <3>2
  <2>2. QED
    BY <1>2, <2>1 DEF Surjection, Injection, IsInjective
<1>6. QED
  BY <1>4, <1>5, FS_CardinalityType

(* The queued packets, and the queues of one packet.                          *)
LEMMA QueuedFacts ==
    ASSUME IInv, Sizes
    PROVE  /\ QueuedPackets \subseteq 1 .. sent /\ QueuedPackets \subseteq Packets
           /\ IsFiniteSet(QueuedPackets) /\ Cardinality(QueuedPackets) \in Nat
           /\ \A c \in Consumers : /\ queue[c] \in Seq(Nat) /\ Increasing(queue[c])
                                   /\ Range(queue[c]) \subseteq QueuedPackets
           /\ \A p : /\ InQueues(p) \subseteq Consumers
                     /\ IsFiniteSet(InQueues(p)) /\ Cardinality(InQueues(p)) \in Nat
                     /\ Cardinality(InQueues(p)) <= setup.consumers
                     /\ InQueues(p) # {} <=> p \in QueuedPackets
           /\ IsFiniteSet(Consumers)
<1>1. /\ sent \in Nat /\ sent <= MaxPackets /\ MaxPackets \in Nat
      /\ setup.consumers \in Nat /\ Consumers = 1 .. setup.consumers
  BY ProcessFacts, PipelineAssumption DEF Sizes
<1>2. \A c \in Consumers : /\ queue[c] \in Seq(Nat) /\ Increasing(queue[c])
                           /\ Range(queue[c]) \subseteq 1 .. sent
  BY DEF IInv, ConsumerTypes, ConsumerOrder
<1>3. QueuedPackets \subseteq 1 .. sent
      /\ \A c \in Consumers : Range(queue[c]) \subseteq QueuedPackets
  BY <1>2 DEF QueuedPackets
<1>4. 1 .. sent \subseteq Packets
  BY <1>1 DEF Packets
<1>5. IsFiniteSet(1 .. sent) /\ IsFiniteSet(Consumers)
      /\ Cardinality(Consumers) = setup.consumers
  BY <1>1, IntervalSize
<1>6. IsFiniteSet(QueuedPackets) /\ Cardinality(QueuedPackets) \in Nat
  BY <1>3, <1>5, FS_Subset, FS_CardinalityType
<1>7. ASSUME NEW p
      PROVE  /\ InQueues(p) \subseteq Consumers
             /\ IsFiniteSet(InQueues(p)) /\ Cardinality(InQueues(p)) \in Nat
             /\ Cardinality(InQueues(p)) <= setup.consumers
             /\ InQueues(p) # {} <=> p \in QueuedPackets
  <2>1. InQueues(p) \subseteq Consumers
    BY DEF InQueues
  <2>2. IsFiniteSet(InQueues(p)) /\ Cardinality(InQueues(p)) <= setup.consumers
    BY <1>5, <2>1, FS_Subset
  <2>3. InQueues(p) # {} <=> p \in QueuedPackets
    BY DEF InQueues, QueuedPackets
  <2>4. QED
    BY <2>1, <2>2, <2>3, FS_CardinalityType
<1>8. QED
  BY <1>2, <1>3, <1>4, <1>5, <1>6, <1>7

LEMMA SizesStep ==
    ASSUME IInv, Sizes, [Next]_vars
    PROVE  Sizes'
<1> DEFINE busy == Holds(pc \notin {"idle", "copy"})
<1>1. /\ starts \in Nat /\ starts <= MaxStarts /\ producing \in BOOLEAN /\ threshold \in Nat
      /\ sent \in Nat /\ sent <= MaxPackets
      /\ processingFree \in Nat /\ processingFree + busy = 2
      /\ complete \in [Consumers -> BOOLEAN] /\ running \in [Consumers -> BOOLEAN]
      /\ buffered \in Int /\ ticks \in Nat /\ ticks <= MaxTicks
      /\ MaxStarts \in Nat /\ MaxPackets \in Nat /\ MaxTicks \in Nat
      /\ 0 \in 0 .. MaxTicks
  BY PipelineAssumption, ProcessFacts DEF Sizes, ProcessingNodes
<1>2. /\ pc \in {"idle", "copy"} => processingFree = 2
      /\ pc \notin {"idle", "copy"} => processingFree = 1
  BY <1>1 DEF Holds
<1>3. Threshold(setup) \in Nat
  BY PipelineAssumption DEF IInv, Types, IsSetup, Threshold
<1>4. ASSUME setup' = setup,
             starts' \in 0 .. MaxStarts, producing' \in BOOLEAN, threshold' \in Nat,
             sent' <= MaxPackets,
             \/ processingFree' = processingFree
                  /\ (pc' \in {"idle", "copy"} <=> pc \in {"idle", "copy"})
             \/ pc' \in {"idle", "copy"} /\ processingFree' = 2
             \/ pc' \notin {"idle", "copy"} /\ processingFree' = 1,
             complete' \in [Consumers -> BOOLEAN], running' \in [Consumers -> BOOLEAN],
             buffered' \in Int, ticks' \in 0 .. MaxTicks
      PROVE  Sizes'
  <2>1. Consumers' = Consumers
    BY <1>4 DEF Consumers
  <2>2. processingFree' \in Nat /\ processingFree' + Holds(pc' \notin {"idle", "copy"}) = 2
    BY <1>2, <1>4 DEF Holds
  <2>3. QED
    BY <1>4, <2>1, <2>2 DEF Sizes, ProcessingNodes
<1> HIDE DEF busy
<1>5. CASE Start
  <2>1. /\ UNCHANGED <<setup, sent, buffered, complete, running, ticks, pc, processingFree>>
        /\ starts' = starts + 1 /\ starts < MaxStarts /\ producing' = TRUE
        /\ threshold' = Threshold(setup)
    BY <1>5 DEF Start, producerVars, processVars, consumerVars
  <2>2. starts' \in 0 .. MaxStarts
    BY <1>1, <2>1
  <2>3. QED
    BY <1>1, <1>3, <1>4, <2>1, <2>2
<1>6. CASE Stop
  <2>1. running' \in [Consumers -> BOOLEAN]
    BY <1>6 DEF Stop
  <2>2. UNCHANGED <<setup, starts, threshold, sent, buffered, complete, ticks, pc, processingFree>>
        /\ producing' = FALSE
    BY <1>6 DEF Stop, processVars
  <2>3. producing' \in BOOLEAN
    BY <2>2, Zenon
  <2>4. starts' = starts /\ ticks' = ticks /\ sent' = sent /\ buffered' = buffered
    BY <2>2
  <2>5. /\ starts' \in 0 .. MaxStarts /\ ticks' \in 0 .. MaxTicks
        /\ buffered' \in Int /\ sent' <= MaxPackets
    BY <1>1, <2>4
  <2>6. QED
    BY <1>1, <1>4, <2>1, <2>2, <2>3, <2>5
<1>7. CASE Produce
  <2>1. sent' <= MaxPackets
    BY <1>1, <1>7 DEF Produce, ProduceDelayed, ProduceNow
  <2>2. QED
    BY <1>1, <1>4, <1>7, <2>1
       DEF Produce, ProduceDelayed, ProduceNow, controlVars, processVars, consumerVars
<1>8. CASE Begin
  <2>1. /\ complete' \in [Consumers -> BOOLEAN] /\ running' \in [Consumers -> BOOLEAN]
    BY <1>1, <1>8 DEF Begin, Buffered
  <2>2. pc \in {"idle", "copy"} /\ pc' \in {"idle", "copy"} /\ processingFree' = processingFree
    BY <1>8 DEF Begin
  <2>3. UNCHANGED <<setup, starts, producing, threshold, sent, buffered>> /\ ticks' = 0
    BY <1>8 DEF Begin, controlVars
  <2>4. QED
    BY <1>1, <1>4, <2>1, <2>2, <2>3
<1>9. CASE Copy
  <2>1. pc' = "stage" /\ processingFree' = 1
    BY <1>2, <1>9 DEF Copy
  <2>2. UNCHANGED <<setup, starts, producing, threshold, sent, buffered, complete, running>>
        /\ ticks' = 0
    BY <1>9 DEF Copy, controlVars, consumerVars
  <2>3. QED
    BY <1>1, <1>4, <2>1, <2>2
<1>10. CASE Stage
  <2>1. \/ pc' = "check" /\ processingFree' = 1
        \/ pc' = "idle" /\ processingFree' = 2
    BY <1>2, <1>10 DEF Stage, StageDone, StageFails
  <2>2. UNCHANGED <<setup, starts, producing, threshold, sent, buffered, complete, running>>
        /\ ticks' = 0
    BY <1>10 DEF Stage, controlVars, consumerVars, producerVars
  <2>3. QED
    BY <1>1, <1>4, <2>1, <2>2
<1>11. CASE CheckOverflow
  <2>1. pc = "check" /\ pc' \in {"check", "drop", "take"} /\ processingFree' = processingFree
    BY <1>11 DEF CheckOverflow, NextConsumer
  <2>2. UNCHANGED <<setup, starts, producing, threshold, sent, buffered, complete, running>>
        /\ ticks' = 0
    BY <1>11 DEF CheckOverflow, controlVars, consumerVars, producerVars
  <2>3. QED
    BY <1>1, <1>4, <2>1, <2>2
<1>12. CASE Drop
  <2>1. pc = "drop" /\ pc' \in {"check", "take"} /\ processingFree' = processingFree
    BY <1>12 DEF Drop, NextConsumer
  <2>2. UNCHANGED <<setup, starts, producing, threshold, sent, complete, running>>
        /\ ticks' = 0 /\ buffered' = buffered - 1
    BY <1>12 DEF Drop, controlVars, producerVars
  <2>3. QED
    BY <1>1, <1>4, <2>1, <2>2
<1>13. CASE TakeNode
  <2>1. pc = "take" /\ pc' \in {"enqueue", "release"} /\ processingFree' = processingFree
    BY <1>13 DEF TakeNode
  <2>2. UNCHANGED <<setup, starts, producing, threshold, sent, buffered, complete, running>>
        /\ ticks' = 0
    BY <1>13 DEF TakeNode, controlVars, producerVars
  <2>3. QED
    BY <1>1, <1>4, <2>1, <2>2
<1>14. CASE Enqueue
  <2>1. pc = "enqueue" /\ pc' = "account" /\ processingFree' = processingFree
    BY <1>14 DEF Enqueue
  <2>2. UNCHANGED <<setup, starts, producing, threshold, sent, buffered, complete, running>>
        /\ ticks' = 0
    BY <1>14 DEF Enqueue, controlVars, producerVars
  <2>3. QED
    BY <1>1, <1>4, <2>1, <2>2
<1>15. CASE Account
  <2>1. pc = "account" /\ pc' \in {"enqueue", "release"} /\ processingFree' = processingFree
    BY <1>15 DEF Account, NextConsumer
  <2>2. UNCHANGED <<setup, starts, producing, threshold, sent, complete, running>>
        /\ ticks' = 0 /\ buffered' = buffered + 1
    BY <1>15 DEF Account, controlVars, producerVars
  <2>3. QED
    BY <1>1, <1>4, <2>1, <2>2
<1>16. CASE Release
  <2>1. pc' = "idle" /\ processingFree' = 2
    BY <1>2, <1>16 DEF Release
  <2>2. UNCHANGED <<setup, starts, producing, threshold, sent, buffered, complete, running>>
        /\ ticks' = 0
    BY <1>16 DEF Release, controlVars, consumerVars, producerVars
  <2>3. QED
    BY <1>1, <1>4, <2>1, <2>2
<1>17. CASE Consume
  <2>1. /\ UNCHANGED <<setup, starts, producing, threshold, sent, processingFree, pc, running>>
        /\ ticks' = ticks + 1 /\ ticks < MaxTicks
        /\ buffered' = buffered \/ buffered' = buffered - 1
        /\ complete' = complete \/ complete' = [complete EXCEPT ![1] = FALSE]
    BY <1>17 DEF Consume, ConsumeDelayed, ConsumeNow, controlVars, producerVars, processVars
  <2>2. complete' \in [Consumers -> BOOLEAN]
    BY <1>1, <2>1
  <2>3. buffered' \in Int /\ ticks' \in 0 .. MaxTicks
    BY <1>1, <2>1
  <2>4. QED
    BY <1>1, <1>4, <2>1, <2>2, <2>3
<1>18. CASE UNCHANGED vars
  BY <1>1, <1>4, <1>18 DEF vars, controlVars, producerVars, processVars, consumerVars
<1>19. QED
  BY <1>5, <1>6, <1>7, <1>8, <1>9, <1>10, <1>11, <1>12, <1>13, <1>14, <1>15, <1>16, <1>17, <1>18
     DEF Next, Process

(* A queue gives its oldest packet: copy_count follows, and the packet is      *)
(* queued no longer when that was its last queue.                            *)
LEMMA Dequeued ==
    ASSUME IInv, Sizes, Copies, setup' = setup,
           NEW c \in Consumers, queue[c] # <<>>, Dequeue(c)
    PROVE  /\ Copies'
           /\ Head(queue[c]) \in QueuedPackets /\ Head(queue[c]) \in Range(queue[c])
           /\ Cardinality(QueuedPackets') \in Nat
           /\ Cardinality(QueuedPackets) = Cardinality(QueuedPackets') + Home(Head(queue[c]))
           /\ queue' \in [Consumers -> Seq(Nat)]
           /\ Range(queue'[c]) = Range(queue[c]) \ {Head(queue[c])}
           /\ \A x \in Range(queue'[c]) : Head(queue[c]) < x
           /\ Len(queue'[c]) = Len(queue[c]) - 1 /\ Len(queue[c]) \in Nat
           /\ \A d \in Consumers : d # c => queue'[d] = queue[d]
<1> PICK p : p = Head(queue[c])
  OBVIOUS
<1>1. /\ queue[c] \in Seq(Nat) /\ Increasing(queue[c])
      /\ QueuedPackets \subseteq Packets /\ Range(queue[c]) \subseteq QueuedPackets
      /\ queue \in [Consumers -> Seq(Nat)] /\ Consumers' = Consumers
      /\ Range(queue[c]) \subseteq Nat
  BY QueuedFacts, RangeFacts DEF IInv, ConsumerTypes, Consumers
<1>2. /\ Tail(queue[c]) \in Seq(Nat) /\ Len(Tail(queue[c])) = Len(queue[c]) - 1
      /\ p \in Range(queue[c]) /\ p \in Nat
      /\ Range(queue[c]) = {p} \cup Range(Tail(queue[c]))
      /\ \A x \in Range(Tail(queue[c])) : p < x
  BY <1>1, RangeTail
<1>3. /\ queue'[c] = Tail(queue[c]) /\ queue' \in [Consumers -> Seq(Nat)]
      /\ \A d \in Consumers : d # c => queue'[d] = queue[d]
      /\ copies' = [copies EXCEPT ![p] = @ - 1]
  BY <1>1, <1>2 DEF Dequeue
<1>4. p \notin Range(Tail(queue[c]))
  BY <1>2
<1>5. Range(queue'[c]) = Range(queue[c]) \ {p}
  BY <1>2, <1>3, <1>4
<1>6. /\ \A x : x # p => InQueues(x)' = InQueues(x)
      /\ InQueues(p)' = InQueues(p) \ {c} /\ c \in InQueues(p)
  <2>1. \A x : InQueues(x)' = {d \in Consumers : x \in Range(queue'[d])}
    BY <1>1 DEF InQueues
  <2>2. \A x, d : x # p /\ d \in Consumers => (x \in Range(queue'[d]) <=> x \in Range(queue[d]))
    BY <1>3, <1>5
  <2>3. \A d \in Consumers : p \in Range(queue'[d]) <=> d # c /\ p \in Range(queue[d])
    BY <1>3, <1>5
  <2>4. \A x : x # p => InQueues(x)' = InQueues(x)
    BY <2>1, <2>2 DEF InQueues
  <2>5. InQueues(p)' = InQueues(p) \ {c}
    BY <2>1, <2>3 DEF InQueues
  <2>6. c \in InQueues(p)
    BY <1>2 DEF InQueues
  <2>7. QED
    BY <2>4, <2>5, <2>6
<1>7. /\ Cardinality(InQueues(p)') = Cardinality(InQueues(p)) - 1
      /\ Cardinality(InQueues(p)') \in Nat
      /\ Cardinality(InQueues(p)') = 0 <=> InQueues(p) \ {c} = {}
  <2>1. IsFiniteSet(InQueues(p))
    BY QueuedFacts
  <2>2. /\ IsFiniteSet(InQueues(p) \ {c})
        /\ Cardinality(InQueues(p) \ {c}) = Cardinality(InQueues(p)) - 1
    BY <1>6, <2>1, FS_RemoveElement
  <2>3. QED
    BY <1>6, <2>2, FS_EmptySet, FS_CardinalityType
<1>8. p \in Packets /\ copies[p] = Cardinality(InQueues(p)) /\ copies \in [Packets -> Nat]
      /\ copies[p] \in Nat
  BY <1>1, <1>2 DEF Copies
<1>9. Copies'
  <2>1. copies' \in [Packets -> Nat] /\ copies'[p] = Cardinality(InQueues(p)')
        /\ \A x \in Packets : x # p => copies'[x] = copies[x]
    BY <1>3, <1>7, <1>8
  <2>2. ASSUME NEW x \in Packets PROVE copies'[x] = Cardinality(InQueues(x)')
    <3>1. CASE x = p
      BY <2>1, <3>1
    <3>2. CASE x # p
      <4>1. InQueues(x)' = InQueues(x) /\ copies'[x] = copies[x]
        BY <1>6, <2>1, <3>2
      <4>2. copies[x] = Cardinality(InQueues(x))
        BY DEF Copies
      <4>3. Cardinality(InQueues(x)') = Cardinality(InQueues(x))
        BY <4>1, Zenon
      <4>4. QED
        BY <4>1, <4>2, <4>3
    <3>3. QED
      BY <3>1, <3>2
  <2>3. QED
    BY <2>1, <2>2 DEF Copies
<1>10. QueuedPackets' = IF InQueues(p) \ {c} = {} THEN QueuedPackets \ {p} ELSE QueuedPackets
  <2>1. \A x : x \in QueuedPackets' <=> InQueues(x)' # {}
    BY <1>1 DEF QueuedPackets, InQueues
  <2>2. \A x : x \in QueuedPackets <=> InQueues(x) # {}
    BY DEF QueuedPackets, InQueues
  <2>3. \A x : x # p => (x \in QueuedPackets' <=> x \in QueuedPackets)
    BY <1>6, <2>1, <2>2
  <2>4. p \in QueuedPackets
    BY <1>1, <1>2
  <2>5. p \in QueuedPackets' <=> InQueues(p) \ {c} # {}
    BY <1>6, <2>1
  <2>6. CASE InQueues(p) \ {c} = {}
    <3>1. \A x : x \in QueuedPackets' <=> x \in QueuedPackets \ {p}
      BY <2>3, <2>5, <2>6
    <3>2. QED
      BY <2>6, <3>1
  <2>7. CASE InQueues(p) \ {c} # {}
    <3>1. \A x : x \in QueuedPackets' <=> x \in QueuedPackets
      BY <2>3, <2>4, <2>5, <2>7
    <3>2. QED
      BY <2>7, <3>1
  <2>8. QED
    BY <2>6, <2>7
<1>11. Home(p) = IF InQueues(p) \ {c} = {} THEN 1 ELSE 0
  BY <1>7, <1>8 DEF Home
<1>12. /\ Cardinality(QueuedPackets') \in Nat
       /\ Cardinality(QueuedPackets) = Cardinality(QueuedPackets') + Home(p)
  <2>1. IsFiniteSet(QueuedPackets) /\ Cardinality(QueuedPackets) \in Nat
    BY QueuedFacts
  <2>2. p \in QueuedPackets
    BY <1>1, <1>2
  <2>3. /\ IsFiniteSet(QueuedPackets \ {p})
        /\ Cardinality(QueuedPackets \ {p}) = Cardinality(QueuedPackets) - 1
        /\ Cardinality(QueuedPackets \ {p}) \in Nat
    BY <2>1, <2>2, FS_RemoveElement, FS_CardinalityType
  <2>4. QED
    BY <1>10, <1>11, <2>1, <2>3
<1>13. Len(queue[c]) \in Nat /\ \A x \in Range(queue'[c]) : p < x
  BY <1>1, <1>2, <1>3
<1>14. p \in QueuedPackets /\ Len(queue'[c]) = Len(queue[c]) - 1
  BY <1>1, <1>2, <1>3
<1>15. QED
  BY <1>2, <1>3, <1>5, <1>9, <1>12, <1>13, <1>14

(* After it the queues are still suffixes of one stream, none is longer, and   *)
(* none holds anything it did not.                                          *)
LEMMA DequeuedOrder ==
    ASSUME IInv, Sizes, Copies, Nested, UNCHANGED <<setup, job>>,
           NEW c \in Consumers, queue[c] # <<>>, Dequeue(c),
           \A d \in Consumers : YetToEnqueue(d)' = YetToEnqueue(d)
    PROVE  /\ Nested' /\ Consumers' = Consumers /\ Limit' = Limit
           /\ \A d \in Consumers : /\ Range(queue'[d]) \subseteq Range(queue[d])
                                   /\ Len(queue'[d]) <= Len(queue[d])
                                   /\ Len(queue'[d]) \in Nat /\ Len(queue[d]) \in Nat
                                   /\ Range(queue[d]) \subseteq Nat
<1>1. Consumers' = Consumers /\ Limit' = Limit
  BY DEF Consumers, Limit
<1>2. \A d \in Consumers : queue[d] \in Seq(Nat) /\ Range(queue[d]) \subseteq Nat
  BY QueuedFacts, RangeFacts
<1>3. \A d \in Consumers : queue'[d] = queue[d] \/ d = c
  BY Dequeued
<1>4. /\ Range(queue'[c]) = Range(queue[c]) \ {Head(queue[c])}
      /\ \A x \in Range(queue'[c]) : Head(queue[c]) < x
      /\ Head(queue[c]) \in Nat
  BY <1>2, Dequeued
<1>5. ASSUME NEW d \in Consumers
      PROVE  /\ Range(queue'[d]) \subseteq Range(queue[d])
             /\ Len(queue'[d]) <= Len(queue[d])
             /\ Len(queue'[d]) \in Nat /\ Len(queue[d]) \in Nat
  <2>1. Range(queue'[d]) \subseteq Range(queue[d])
    BY <1>3, <1>4
  <2>2. Len(queue[d]) \in Nat /\ queue'[d] \in Seq(Nat)
    BY <1>2, Dequeued
  <2>3. Len(queue'[d]) \in Nat
    BY <2>2
  <2>4. Len(queue'[d]) <= Len(queue[d])
    <3>1. Len(queue'[c]) = Len(queue[c]) - 1 /\ Len(queue[c]) \in Nat
      BY Dequeued
    <3>2. QED
      BY <1>3, <2>2, <3>1
  <2>5. QED
    BY <2>1, <2>2, <2>3, <2>4
<1>6. ASSUME NEW a \in Consumers, NEW d \in Consumers,
             NEW p \in Range(queue'[a]), NEW r \in Range(queue'[d]), p <= r
      PROVE  r \in Range(queue'[a]) \/ (r = job' /\ YetToEnqueue(a)')
  <2>1. p \in Range(queue[a]) /\ r \in Range(queue[d]) /\ p \in Nat /\ r \in Nat
    BY <1>2, <1>5
  <2>2. r \in Range(queue[a]) \/ (r = job /\ YetToEnqueue(a))
    BY <1>6, <2>1 DEF Nested
  <2>3. CASE a = c
    <3>1. Head(queue[c]) < r
      BY <1>4, <1>6, <2>1, <2>3
    <3>2. r \in Range(queue[a]) => r \in Range(queue'[a])
      BY <1>4, <2>1, <2>3, <3>1
    <3>3. QED
      BY <2>2, <3>2
  <2>4. CASE a # c
    BY <1>3, <2>2, <2>4
  <2>5. QED
    BY <2>3, <2>4
<1>7. Nested'
  BY <1>1, <1>6 DEF Nested
<1>8. QED
  BY <1>1, <1>2, <1>5, <1>7

Chain == Copies /\ ConsumerPool /\ Nested /\ Newest /\ Room

LEMMA LimitFacts ==
    ASSUME IInv
    PROVE  /\ Limit \in Nat \ {0} /\ setup.delayedConsumer \in BOOLEAN
           /\ ConsumerNodes(setup) = Limit + Holds(setup.delayedConsumer)
           /\ setup.delayedConsumer => setup.consumers = 1
           /\ ChainMode /\ setup.preempts => setup.consumers = 1
<1>1. IsSetup(setup) /\ (ChainMode => (setup.preempts => setup.consumers = 1))
  BY PipelineAssumption DEF IInv, Types, ChainMode
<1>2. QED
  BY <1>1 DEF IsSetup, Limit, ConsumerNodes, Holds

(* Until it is enqueued no queue holds the packet in hand.                    *)
LEMMA NotYetQueued ==
    ASSUME IInv, Sizes
    PROVE  /\ \A c \in Consumers : YetToEnqueue(c) => /\ job \notin Range(queue[c])
                                                      /\ \A p \in Range(queue[c]) : p < job
           /\ pc \in {"copy", "stage", "check", "drop", "take"}
                => \A c \in Consumers : YetToEnqueue(c)
<1>1. ASSUME NEW c \in Consumers, YetToEnqueue(c)
      PROVE  job \notin Range(queue[c]) /\ \A p \in Range(queue[c]) : p < job
  <2>1. \A p \in Range(queue[c]) : p < job
    BY <1>1 DEF IInv, ConsumerOrder, Behind
  <2>2. job \in Nat
    BY ProcessFacts
  <2>3. QED
    BY <2>1, <2>2
<1>2. QED
  BY <1>1 DEF YetToEnqueue

LEMMA Regroup ==
    ASSUME NEW f \in Nat, NEW x \in Nat, NEW g \in Nat, NEW y \in Nat,
           NEW a \in Nat, NEW b \in Nat, NEW z, f + x = g + y, g + a + b + y = z
    PROVE  f + a + b + x = z
  OBVIOUS

(* Steps of process that touch no consumer queue.                             *)
LEMMA Passing ==
    ASSUME IInv, Sizes, Chain, UNCHANGED <<setup, queue, copies, playing, heard>>,
           consumerFree' \in Nat,
           consumerFree' + Holds(pc' = "enqueue" /\ at' = 1)
             = consumerFree + Holds(pc = "enqueue" /\ at = 1),
           pc' # "idle" => \A c \in Consumers : \A p \in Range(queue[c]) : p <= job',
           \A c, d \in Consumers : YetToEnqueue(c) /\ job \in Range(queue[d])
                                     => YetToEnqueue(c)' /\ job' = job,
           pc' \in {"enqueue", "account"} /\ setup.consumers > 1 =>
               \A c \in Consumers : YetToEnqueue(c)' \/ job' \in Range(queue[c]),
           Room'
    PROVE  Chain'
<1>1. Consumers' = Consumers
  BY DEF Consumers
<1>2. Copies'
  <2>1. \A p : InQueues(p)' = InQueues(p)
    BY <1>1 DEF InQueues
  <2>2. \A p \in Packets : Cardinality(InQueues(p)') = Cardinality(InQueues(p))
    BY <2>1, Zenon
  <2>3. QED
    BY <2>2 DEF Chain, Copies
<1>3. ConsumerPool'
  <2>1. QueuedPackets' = QueuedPackets
    BY <1>1 DEF QueuedPackets
  <2>2. Cardinality(QueuedPackets') = Cardinality(QueuedPackets)
    BY <2>1, Zenon
  <2>3. Holds(playing' # NoPacket) = Holds(playing # NoPacket)
        /\ ConsumerNodes(setup') = ConsumerNodes(setup)
    OBVIOUS
  <2>4. /\ Holds(playing # NoPacket) \in Nat /\ Cardinality(QueuedPackets) \in Nat
        /\ Holds(pc' = "enqueue" /\ at' = 1) \in Nat /\ Holds(pc = "enqueue" /\ at = 1) \in Nat
    BY QueuedFacts DEF Holds
  <2>5. consumerFree' + Holds(playing # NoPacket) + Cardinality(QueuedPackets)
         + Holds(pc' = "enqueue" /\ at' = 1) = ConsumerNodes(setup)
    BY <2>4, Regroup DEF Chain, ConsumerPool
  <2>6. QED
    BY <2>2, <2>3, <2>5 DEF Chain, ConsumerPool
<1>4. Nested'
  BY <1>1 DEF Chain, Nested
<1>5. Newest'
  BY <1>1 DEF Chain, Newest
<1>6. QED
  BY <1>2, <1>3, <1>4, <1>5 DEF Chain

(* Steps that touch neither process nor the consumers.                        *)
LEMMA Outside ==
    ASSUME IInv, Sizes, Chain,
           UNCHANGED <<setup, queue, copies, playing, heard, consumerFree, pc, at, job>>
    PROVE  Chain'
<1>1. Consumers' = Consumers /\ Limit' = Limit
      /\ \A c \in Consumers : YetToEnqueue(c)' = YetToEnqueue(c)
  BY DEF Consumers, Limit, YetToEnqueue
<1>2. Room'
  BY <1>1 DEF Chain, Room
<1>3. consumerFree' \in Nat
      /\ consumerFree' + Holds(pc' = "enqueue" /\ at' = 1)
           = consumerFree + Holds(pc = "enqueue" /\ at = 1)
  BY DEF Chain, ConsumerPool
<1>4. /\ pc' # "idle" => \A c \in Consumers : \A p \in Range(queue[c]) : p <= job'
      /\ pc' \in {"enqueue", "account"} /\ setup.consumers > 1 =>
               \A c \in Consumers : YetToEnqueue(c)' \/ job' \in Range(queue[c])
  BY <1>1 DEF Chain, Newest
<1>5. \A c, d \in Consumers : YetToEnqueue(c) /\ job \in Range(queue[d])
                                     => YetToEnqueue(c)' /\ job' = job
  BY <1>1
<1>6. QED
  BY <1>2, <1>3, <1>4, <1>5, Passing

LEMMA BeginChain == ASSUME IInv, Sizes, Chain, Begin PROVE Chain'
<1>1. UNCHANGED <<setup, queue, copies, playing, heard, consumerFree, at>> /\ pc = "idle"
  BY DEF Begin
<1>2. CASE pc' = pc /\ job' = job
  BY <1>1, <1>2, Outside
<1>3. CASE producerQueue # <<>> /\ job' = Head(producerQueue) /\ pc' = "copy"
  <2>1. job' \in Range(producerQueue) /\ job' \in Nat
    BY <1>3, RangeTail DEF IInv, Types
  <2>2. \A c \in Consumers : \A p \in Range(queue[c]) : p <= job'
    <3>1. \A c \in Consumers : \A p \in Range(queue[c]) : p < job' /\ p \in Nat
      BY <2>1, QueuedFacts, RangeFacts DEF IInv, ConsumerOrder, Behind
    <3>2. QED
      BY <2>1, <3>1
  <2>3. \A c \in Consumers : ~YetToEnqueue(c)
    BY <1>1 DEF YetToEnqueue
  <2>4. Room'
    BY <1>1, <1>3 DEF Chain, Room, Consumers, Limit
  <2>5. consumerFree' \in Nat
        /\ consumerFree' + Holds(pc' = "enqueue" /\ at' = 1)
             = consumerFree + Holds(pc = "enqueue" /\ at = 1)
    BY <1>1, <1>3 DEF Chain, ConsumerPool, Holds
  <2>6. QED
    BY <1>1, <1>3, <2>2, <2>3, <2>4, <2>5, Passing
<1>4. QED
  BY <1>2, <1>3 DEF Begin

(* A step that process takes before it enqueues its packet.                   *)
LEMMA Before ==
    ASSUME IInv, Sizes, Chain, UNCHANGED <<setup, queue, copies, playing, heard, consumerFree>>,
           pc \in {"copy", "stage", "check"},
           pc' \notin {"enqueue", "account"}, pc' # "idle" => job' = job, Room'
    PROVE  Chain'
<1>1. \A d \in Consumers : job \notin Range(queue[d])
  BY NotYetQueued
<1>2. consumerFree' \in Nat
      /\ consumerFree' + Holds(pc' = "enqueue" /\ at' = 1)
           = consumerFree + Holds(pc = "enqueue" /\ at = 1)
  <2>1. ~(pc' = "enqueue" /\ at' = 1) /\ ~(pc = "enqueue" /\ at = 1)
    OBVIOUS
  <2>2. QED
    BY <2>1 DEF Chain, ConsumerPool, Holds
<1>3. pc' # "idle" => \A c \in Consumers : \A p \in Range(queue[c]) : p <= job'
  BY DEF Chain, Newest
<1>4. QED
  BY <1>1, <1>2, <1>3, Passing

LEMMA CopyChain == ASSUME IInv, Sizes, Chain, Copy PROVE Chain'
<1>1. UNCHANGED <<setup, queue, copies, playing, heard, consumerFree, at>>
      /\ pc = "copy" /\ pc' \in {"stage", "idle"} /\ (pc' # "idle" => job' = job)
  BY DEF Copy, consumerVars
<1>2. Room'
  BY <1>1 DEF Chain, Room, Consumers, Limit
<1>3. QED
  BY <1>1, <1>2, Before

LEMMA StageChain == ASSUME IInv, Sizes, Chain, Stage PROVE Chain'
<1>1. UNCHANGED <<setup, queue, copies, playing, heard, consumerFree>>
      /\ pc = "stage" /\ pc' \in {"check", "idle"} /\ (pc' # "idle" => job' = job /\ at' = 1)
  BY DEF Stage, StageDone, StageFails, consumerVars
<1>2. Room'
  <2>1. pc' = "check" => \A c \in Consumers : ~(c < at')
    BY <1>1, ProcessFacts
  <2>2. QED
    BY <1>1, <2>1 DEF Chain, Room, Consumers, Limit
<1>3. QED
  BY <1>1, <1>2, Before

(* A queue at its limit holds a node for each of its places: no other is free,  *)
(* but for the one a delayed consumer that plays nothing has not taken.         *)
LEMMA FullOverflows ==
    ASSUME IInv, Sizes, Chain, pc = "check", Len(queue[at]) = Limit
    PROVE  IsOverflowing(at)
<1>1. at \in Consumers /\ queue[at] \in Seq(Nat) /\ Increasing(queue[at])
      /\ Range(queue[at]) \subseteq QueuedPackets
  BY ProcessFacts, QueuedFacts
<1>2. Cardinality(Range(queue[at])) = Limit
  BY <1>1, RangeSize
<1>3. Cardinality(QueuedPackets) \in Nat /\ Limit <= Cardinality(QueuedPackets)
  BY <1>1, <1>2, QueuedFacts, FS_Subset
<1>4. consumerFree + Holds(playing # NoPacket) + Cardinality(QueuedPackets)
        = Limit + Holds(setup.delayedConsumer)
  <2>1. Holds(pc = "enqueue" /\ at = 1) = 0
    BY DEF Holds
  <2>2. Holds(playing # NoPacket) \in Nat /\ consumerFree \in Nat
    BY DEF Holds, Chain, ConsumerPool
  <2>3. QED
    BY <1>3, <2>1, <2>2, LimitFacts DEF Chain, ConsumerPool
<1>5. consumerFree + Holds(playing # NoPacket) <= Holds(setup.delayedConsumer)
  <2>1. /\ Holds(playing # NoPacket) \in Nat /\ consumerFree \in Nat
        /\ Holds(setup.delayedConsumer) \in Nat /\ Limit \in Nat
    BY LimitFacts DEF Holds, Chain, ConsumerPool
  <2>2. QED
    BY <1>3, <1>4, <2>1
<1>6. consumerFree <= (IF setup.delayedConsumer /\ playing = NoPacket THEN 1 ELSE 0)
  <2>1. consumerFree \in Nat
    BY DEF Chain, ConsumerPool
  <2>2. CASE setup.delayedConsumer /\ playing = NoPacket
    BY <1>5, <2>1, <2>2 DEF Holds
  <2>3. CASE playing # NoPacket
    BY <1>5, <2>1, <2>3 DEF Holds
  <2>4. CASE ~setup.delayedConsumer
    BY <1>5, <2>1, <2>4 DEF Holds
  <2>5. QED
    BY <2>2, <2>3, <2>4
<1>7. QED
  BY <1>6 DEF IsOverflowing

LEMMA CheckChain == ASSUME IInv, Sizes, Chain, CheckOverflow PROVE Chain'
<1>1. UNCHANGED <<setup, queue, copies, playing, heard, consumerFree, job>>
      /\ pc = "check" /\ pc' \in {"check", "drop", "take"}
  BY DEF CheckOverflow, NextConsumer, consumerVars
<1>2. Consumers' = Consumers /\ Limit' = Limit
  BY <1>1 DEF Consumers, Limit
<1>3. Room'
  <2>1. CASE pc' = "drop" /\ at' = at
    BY <1>1, <1>2, <2>1 DEF Chain, Room
  <2>2. CASE ~IsOverflowing(at) /\ NextConsumer("check", "take")
    <3>1. Len(queue[at]) < Limit
      <4>1. Len(queue[at]) <= Limit /\ Len(queue[at]) \in Nat /\ Limit \in Nat
        BY ProcessFacts, QueuedFacts, LimitFacts DEF Chain, Room
      <4>2. Len(queue[at]) # Limit
        BY <1>1, <2>2, FullOverflows
      <4>3. QED
        BY <4>1, <4>2
    <3>2. \A c \in Consumers : c <= at => Len(queue[c]) < Limit
      BY <1>1, <3>1, ProcessFacts DEF Chain, Room
    <3>3. CASE at < setup.consumers /\ at' = at + 1 /\ pc' = "check"
      BY <1>1, <1>2, <3>2, <3>3, ProcessFacts DEF Chain, Room
    <3>4. CASE ~(at < setup.consumers) /\ at' = 1 /\ pc' = "take"
      <4>1. \A c \in Consumers : c <= at
        BY <3>4, ProcessFacts
      <4>2. QED
        BY <1>1, <1>2, <3>2, <3>4, <4>1 DEF Chain, Room
    <3>5. QED
      BY <2>2, <3>3, <3>4 DEF NextConsumer
  <2>3. QED
    BY <2>1, <2>2 DEF CheckOverflow
<1>4. QED
  BY <1>1, <1>3, Before

LEMMA DropChain == ASSUME IInv, Sizes, Chain, Drop PROVE Chain'
<1>1. /\ UNCHANGED <<setup, playing, heard, job>> /\ pc = "drop" /\ pc' \in {"check", "take"}
      /\ queue[at] # <<>> /\ Dequeue(at) /\ at \in Consumers
      /\ consumerFree' = consumerFree + Home(Head(queue[at]))
  BY ProcessFacts DEF Drop, NextConsumer
<1>2. /\ \A c \in Consumers : YetToEnqueue(c)' = YetToEnqueue(c)
      /\ Copies /\ Nested /\ setup' = setup /\ job' = job
  BY <1>1 DEF YetToEnqueue, Chain
<1>3. /\ Nested' /\ Consumers' = Consumers /\ Limit' = Limit
      /\ \A d \in Consumers : /\ Range(queue'[d]) \subseteq Range(queue[d])
                              /\ Len(queue'[d]) <= Len(queue[d])
                              /\ Len(queue'[d]) \in Nat /\ Len(queue[d]) \in Nat
  BY <1>1, <1>2, DequeuedOrder
<1>4. /\ Copies' /\ Cardinality(QueuedPackets') \in Nat
      /\ Cardinality(QueuedPackets) = Cardinality(QueuedPackets') + Home(Head(queue[at]))
      /\ Len(queue'[at]) = Len(queue[at]) - 1
  BY <1>1, Dequeued DEF Chain
<1>5. ConsumerPool'
  <2>1. /\ Holds(pc = "enqueue" /\ at = 1) = 0 /\ Holds(pc' = "enqueue" /\ at' = 1) = 0
        /\ Holds(playing' # NoPacket) = Holds(playing # NoPacket)
        /\ Holds(playing # NoPacket) \in Nat /\ Home(Head(queue[at])) \in Nat
        /\ ConsumerNodes(setup') = ConsumerNodes(setup) /\ consumerFree \in Nat
    BY <1>1 DEF Holds, Home, Chain, ConsumerPool
  <2>2. consumerFree' \in Nat
        /\ consumerFree' + Holds(playing' # NoPacket) + Cardinality(QueuedPackets')
             + Holds(pc' = "enqueue" /\ at' = 1) = ConsumerNodes(setup')
    BY <1>1, <1>4, <2>1 DEF Chain, ConsumerPool
  <2>3. QED
    BY <1>1, <2>2 DEF Chain, ConsumerPool
<1>6. Newest'
  BY <1>1, <1>3 DEF Chain, Newest
<1>7. Room'
  <2>1. /\ Limit \in Nat /\ at \in Nat /\ \A c \in Consumers : Len(queue[c]) <= Limit
        /\ \A c \in Consumers : c < at => Len(queue[c]) < Limit
        /\ \A c \in Consumers : c \in Nat
    BY <1>1, LimitFacts, ProcessFacts DEF Chain, Room
  <2>2. \A c \in Consumers : Len(queue'[c]) <= Limit
    BY <1>3, <2>1
  <2>3. Len(queue'[at]) < Limit
    BY <1>1, <1>3, <1>4, <2>1
  <2>4. \A c \in Consumers : c <= at => Len(queue'[c]) < Limit
    BY <1>3, <2>1, <2>3
  <2>5. CASE at < setup.consumers /\ at' = at + 1 /\ pc' = "check"
    <3>1. \A c \in Consumers : c < at' => c <= at
      BY <2>1, <2>5
    <3>2. QED
      BY <1>3, <2>2, <2>4, <2>5, <3>1 DEF Room
  <2>6. CASE ~(at < setup.consumers) /\ pc' = "take"
    <3>1. \A c \in Consumers : c <= at
      BY <2>6, ProcessFacts
    <3>2. QED
      BY <1>3, <2>2, <2>4, <2>6, <3>1 DEF Room
  <2>7. QED
    BY <2>5, <2>6 DEF Drop, NextConsumer
<1>8. QED
  BY <1>3, <1>4, <1>5, <1>6, <1>7 DEF Chain

LEMMA TakeChain == ASSUME IInv, Sizes, Chain, TakeNode PROVE Chain'
<1>1. /\ UNCHANGED <<setup, queue, copies, playing, heard, job>> /\ pc = "take" /\ at' = 1
      /\ consumerFree' = IF consumerFree > 0 THEN consumerFree - 1 ELSE 0
      /\ pc' = IF consumerFree > 0 THEN "enqueue" ELSE "release"
  BY DEF TakeNode
<1>2. \A d \in Consumers : job \notin Range(queue[d])
  BY <1>1, NotYetQueued
<1>3. consumerFree' \in Nat
      /\ consumerFree' + Holds(pc' = "enqueue" /\ at' = 1)
           = consumerFree + Holds(pc = "enqueue" /\ at = 1)
  BY <1>1 DEF Chain, ConsumerPool, Holds
<1>4. pc' # "idle" => \A c \in Consumers : \A p \in Range(queue[c]) : p <= job'
  BY <1>1 DEF Chain, Newest
<1>5. pc' = "enqueue" => \A c \in Consumers : YetToEnqueue(c)'
  BY <1>1, ProcessFacts DEF YetToEnqueue
<1>6. Room'
  BY <1>1 DEF Chain, Room, Consumers, Limit
<1>7. QED
  BY <1>1, <1>2, <1>3, <1>4, <1>5, <1>6, Passing

LEMMA AccountChain == ASSUME IInv, Sizes, Chain, Account PROVE Chain'
<1>1. /\ UNCHANGED <<setup, queue, copies, playing, heard, job, consumerFree>> /\ pc = "account"
      /\ \/ at < setup.consumers /\ at' = at + 1 /\ pc' = "enqueue"
         \/ ~(at < setup.consumers) /\ at' = 1 /\ pc' = "release"
  BY DEF Account, NextConsumer
<1>2. \A c \in Consumers : YetToEnqueue(c)' <=> YetToEnqueue(c)
  <2>1. CASE at < setup.consumers /\ at' = at + 1 /\ pc' = "enqueue"
    BY <1>1, <2>1, ProcessFacts DEF YetToEnqueue
  <2>2. CASE ~(at < setup.consumers) /\ at' = 1 /\ pc' = "release"
    BY <1>1, <2>2, ProcessFacts DEF YetToEnqueue
  <2>3. QED
    BY <1>1, <2>1, <2>2
<1>3. consumerFree' \in Nat
      /\ consumerFree' + Holds(pc' = "enqueue" /\ at' = 1)
           = consumerFree + Holds(pc = "enqueue" /\ at = 1)
  <2>1. at' = at + 1 => at' # 1
    BY ProcessFacts
  <2>2. ~(pc' = "enqueue" /\ at' = 1) /\ ~(pc = "enqueue" /\ at = 1)
    BY <1>1, <2>1
  <2>3. QED
    BY <1>1, <2>2 DEF Chain, ConsumerPool, Holds
<1>4. pc' # "idle" => \A c \in Consumers : \A p \in Range(queue[c]) : p <= job'
  BY <1>1 DEF Chain, Newest
<1>5. pc' \in {"enqueue", "account"} /\ setup.consumers > 1 =>
          \A c \in Consumers : YetToEnqueue(c)' \/ job' \in Range(queue[c])
  BY <1>1, <1>2 DEF Chain, Newest
<1>6. Room'
  BY <1>1, <1>2 DEF Chain, Room, Consumers, Limit
<1>7. QED
  BY <1>1, <1>2, <1>3, <1>4, <1>5, <1>6, Passing

LEMMA ReleaseChain == ASSUME IInv, Sizes, Chain, Release PROVE Chain'
<1>1. UNCHANGED <<setup, queue, copies, playing, heard, consumerFree>>
      /\ pc = "release" /\ pc' = "idle"
  BY DEF Release, consumerVars
<1>2. \A c \in Consumers : ~YetToEnqueue(c)
  BY <1>1 DEF YetToEnqueue
<1>3. consumerFree' \in Nat
      /\ consumerFree' + Holds(pc' = "enqueue" /\ at' = 1)
           = consumerFree + Holds(pc = "enqueue" /\ at = 1)
  BY <1>1 DEF Chain, ConsumerPool, Holds
<1>4. Room'
  BY <1>1 DEF Chain, Room, Consumers, Limit
<1>5. QED
  BY <1>1, <1>2, <1>3, <1>4, Passing

(* A consumer interrupt: process stands where it stood.                       *)
LEMMA PlayedChain ==
    ASSUME IInv, Sizes, Chain, UNCHANGED <<setup, pc, at, job>>,
           NEW c \in Consumers, queue[c] # <<>>, Dequeue(c),
           consumerFree' \in Nat, playing' \in Nat,
           playing' # NoPacket => setup.delayedConsumer /\ playing' = heard'[1],
           consumerFree' + Holds(playing' # NoPacket)
             = consumerFree + Holds(playing # NoPacket) + Home(Head(queue[c])),
           pc \in {"enqueue", "account"} => setup.consumers = 1
    PROVE  Chain'
<1>1. \A d \in Consumers : YetToEnqueue(d)' = YetToEnqueue(d)
  BY DEF YetToEnqueue
<1>2. /\ Nested' /\ Consumers' = Consumers /\ Limit' = Limit
      /\ \A d \in Consumers : /\ Range(queue'[d]) \subseteq Range(queue[d])
                              /\ Len(queue'[d]) <= Len(queue[d])
                              /\ Len(queue'[d]) \in Nat /\ Len(queue[d]) \in Nat
  <2>1. Copies /\ Nested /\ setup' = setup /\ job' = job
    BY DEF Chain
  <2>2. QED
    BY <1>1, <2>1, DequeuedOrder
<1>3. /\ Copies' /\ Cardinality(QueuedPackets') \in Nat
      /\ Cardinality(QueuedPackets) = Cardinality(QueuedPackets') + Home(Head(queue[c]))
  BY Dequeued DEF Chain
<1>4. ConsumerPool'
  <2>1. /\ Holds(pc = "enqueue" /\ at = 1) \in Nat /\ Home(Head(queue[c])) \in Nat
        /\ Holds(playing # NoPacket) \in Nat /\ Holds(playing' # NoPacket) \in Nat
        /\ consumerFree \in Nat
    BY DEF Holds, Home, Chain, ConsumerPool
  <2>2. consumerFree' + Holds(playing' # NoPacket) + Cardinality(QueuedPackets')
          + Holds(pc = "enqueue" /\ at = 1) = ConsumerNodes(setup)
    BY <1>3, <2>1 DEF Chain, ConsumerPool
  <2>3. QED
    BY <2>2 DEF ConsumerPool
<1>5. Newest'
  <2>1. pc \in {"enqueue", "account"} => ~(setup.consumers > 1)
    OBVIOUS
  <2>2. QED
    BY <1>2, <2>1 DEF Chain, Newest
<1>6. Room'
  <2>1. \A d \in Consumers : Len(queue[d]) <= Limit => Len(queue'[d]) <= Limit
    BY <1>2, LimitFacts
  <2>2. \A d \in Consumers : Len(queue[d]) < Limit => Len(queue'[d]) < Limit
    BY <1>2, LimitFacts
  <2>3. QED
    BY <1>1, <1>2, <2>1, <2>2 DEF Chain, Room
<1>7. QED
  BY <1>2, <1>3, <1>4, <1>5, <1>6 DEF Chain

LEMMA EnqueueChain == ASSUME IInv, Sizes, Chain, Enqueue PROVE Chain'
<1>1. /\ UNCHANGED <<setup, playing, heard, job, at, consumerFree>> /\ pc = "enqueue"
      /\ pc' = "account"
  BY DEF Enqueue
<1>2. /\ at \in Consumers /\ Consumers \subseteq Nat /\ Limit \in Nat /\ job \in Packets
      /\ job \in Nat
      /\ Consumers' = Consumers /\ Limit' = Limit /\ Consumers = 1 .. setup.consumers
      /\ at \in Nat
  <2>1. job \in 1 .. sent /\ sent <= MaxPackets /\ sent \in Nat /\ MaxPackets \in Nat
    BY <1>1, ProcessFacts, PipelineAssumption DEF IInv, Types, Sizes
  <2>2. QED
    BY <1>1, <2>1, ProcessFacts, LimitFacts DEF Consumers, Limit, Packets
<1>3. /\ \A c \in Consumers : YetToEnqueue(c) <=> at <= c
      /\ \A c \in Consumers : YetToEnqueue(c)' <=> at < c
  BY <1>1 DEF YetToEnqueue
<1>4. /\ queue[at] \in Seq(Nat) /\ queue \in [Consumers -> Seq(Nat)] /\ Len(queue[at]) < Limit
      /\ job \notin Range(queue[at]) /\ Len(queue[at]) \in Nat
  <2>1. YetToEnqueue(at)
    BY <1>2, <1>3
  <2>2. QED
    BY <1>1, <1>2, <2>1, QueuedFacts, NotYetQueued DEF Chain, Room, IInv, ConsumerTypes
<1>5. /\ queue' = [queue EXCEPT ![at] = Append(@, job)]
      /\ copies' = [copies EXCEPT ![job] = @ + 1]
  BY <1>4 DEF Enqueue
<1>6. /\ queue'[at] = Append(queue[at], job)
      /\ Range(queue'[at]) = Range(queue[at]) \cup {job}
      /\ Len(queue'[at]) = Len(queue[at]) + 1
      /\ \A c \in Consumers : c # at => queue'[c] = queue[c]
  BY <1>2, <1>4, <1>5, RangeAppend
<1>7. \A c \in Consumers : /\ Range(queue[c]) \subseteq Range(queue'[c])
                           /\ Range(queue'[c]) \subseteq Range(queue[c]) \cup {job}
  BY <1>6
<1>8. PICK j : j = job /\ j = job'
  BY <1>1
<1>9. Copies'
  <2>1. \A x : InQueues(x)' = {d \in Consumers : x \in Range(queue'[d])}
    BY <1>2 DEF InQueues
  <2>2. \A x, d : x # j /\ d \in Consumers => (x \in Range(queue'[d]) <=> x \in Range(queue[d]))
    BY <1>7, <1>8
  <2>3. \A d \in Consumers : j \in Range(queue'[d]) <=> d = at \/ j \in Range(queue[d])
    BY <1>6, <1>8
  <2>4. \A x : x # j => InQueues(x)' = InQueues(x)
    BY <2>1, <2>2 DEF InQueues
  <2>5. InQueues(j)' = InQueues(j) \cup {at}
    BY <1>2, <2>1, <2>3 DEF InQueues
  <2>6. at \notin InQueues(j) /\ IsFiniteSet(InQueues(j)) /\ Cardinality(InQueues(j)) \in Nat
    BY <1>4, <1>8, QueuedFacts DEF InQueues
  <2>7. Cardinality(InQueues(j)') = Cardinality(InQueues(j)) + 1
    BY <2>5, <2>6, FS_AddElement
  <2>8. /\ copies \in [Packets -> Nat] /\ copies[j] = Cardinality(InQueues(j)) /\ j \in Packets
    BY <1>2, <1>8 DEF Chain, Copies
  <2>9. /\ copies' \in [Packets -> Nat] /\ copies'[j] = Cardinality(InQueues(j)')
        /\ \A x \in Packets : x # j => copies'[x] = copies[x]
    BY <1>5, <1>8, <2>6, <2>7, <2>8
  <2>10. ASSUME NEW x \in Packets PROVE copies'[x] = Cardinality(InQueues(x)')
    <3>1. CASE x = j
      BY <2>9, <3>1
    <3>2. CASE x # j
      <4>1. InQueues(x)' = InQueues(x) /\ copies'[x] = copies[x]
        BY <2>4, <2>9, <3>2
      <4>2. copies[x] = Cardinality(InQueues(x))
        BY DEF Chain, Copies
      <4>3. Cardinality(InQueues(x)') = Cardinality(InQueues(x))
        BY <4>1, Zenon
      <4>4. QED
        BY <4>1, <4>2, <4>3
    <3>3. QED
      BY <3>1, <3>2
  <2>11. QED
    BY <2>9, <2>10 DEF Copies
<1>10. QueuedPackets' = QueuedPackets \cup {job}
  <2>1. \A x : x \in QueuedPackets' <=> \E c \in Consumers : x \in Range(queue'[c])
    BY <1>2 DEF QueuedPackets
  <2>2. \A x : x \in QueuedPackets <=> \E c \in Consumers : x \in Range(queue[c])
    BY DEF QueuedPackets
  <2>3. job \in QueuedPackets'
    BY <1>2, <1>6, <2>1
  <2>4. \A x : x \in QueuedPackets' => x \in QueuedPackets \/ x = job
    BY <1>7, <2>1, <2>2
  <2>5. \A x : x \in QueuedPackets => x \in QueuedPackets'
    BY <1>7, <2>1, <2>2
  <2>6. QED
    BY <2>3, <2>4, <2>5
<1>11. ASSUME NEW c \in Consumers, c < at
       PROVE  job \in Range(queue[c])
  <2>1. c \in Nat /\ c >= 1 /\ at <= setup.consumers /\ setup.consumers \in Nat /\ ~(at <= c)
    BY <1>2, <1>11, ProcessFacts
  <2>2. ~YetToEnqueue(c)
    BY <1>3, <2>1
  <2>3. setup.consumers > 1
    BY <1>2, <1>11, <2>1
  <2>4. QED
    BY <1>1, <2>2, <2>3 DEF Chain, Newest
<1>12. ConsumerPool'
  <2>1. IsFiniteSet(QueuedPackets) /\ Cardinality(QueuedPackets) \in Nat
    BY QueuedFacts
  <2>2. Cardinality(QueuedPackets') = Cardinality(QueuedPackets) + Holds(at = 1)
    <3>1. CASE at = 1
      <4>1. \A c \in Consumers : at <= c
        BY <1>2, <3>1
      <4>2. job \notin QueuedPackets
        BY <1>3, <4>1, NotYetQueued DEF QueuedPackets
      <4>3. Cardinality(QueuedPackets \cup {job}) = Cardinality(QueuedPackets) + 1
        BY <2>1, <4>2, FS_AddElement
      <4>4. QED
        BY <1>10, <3>1, <4>3 DEF Holds
    <3>2. CASE at # 1
      <4>1. 1 \in Consumers /\ 1 < at
        <5>1. 1 \in Consumers
          BY ProcessFacts
        <5>2. at >= 1
          BY <1>2
        <5>3. QED
          BY <1>2, <3>2, <5>1, <5>2
      <4>2. job \in QueuedPackets
        BY <1>11, <4>1 DEF QueuedPackets
      <4>3. QueuedPackets' = QueuedPackets
        BY <1>10, <4>2
      <4>4. Cardinality(QueuedPackets') = Cardinality(QueuedPackets)
        BY <4>3, Zenon
      <4>5. QED
        BY <2>1, <3>2, <4>4 DEF Holds
    <3>3. QED
      BY <3>1, <3>2
  <2>3. /\ Holds(pc = "enqueue" /\ at = 1) = Holds(at = 1) /\ Holds(at = 1) \in Nat
        /\ Holds(pc' = "enqueue" /\ at' = 1) = 0 /\ Holds(playing # NoPacket) \in Nat
        /\ Holds(playing' # NoPacket) = Holds(playing # NoPacket)
        /\ ConsumerNodes(setup') = ConsumerNodes(setup) /\ consumerFree \in Nat
    BY <1>1 DEF Holds, Chain, ConsumerPool
  <2>4. consumerFree' + Holds(playing' # NoPacket) + Cardinality(QueuedPackets')
          + Holds(pc' = "enqueue" /\ at' = 1) = ConsumerNodes(setup')
    BY <1>1, <2>1, <2>2, <2>3 DEF Chain, ConsumerPool
  <2>5. QED
    BY <1>1, <2>4 DEF Chain, ConsumerPool
<1>13. \A c \in Consumers : \A p \in Range(queue'[c]) : p <= job
  <2>1. \A c \in Consumers : \A p \in Range(queue[c]) : p <= job
    BY <1>1 DEF Chain, Newest
  <2>2. QED
    BY <1>2, <1>7, <2>1
<1>14. \A c \in Consumers : YetToEnqueue(c)' \/ job \in Range(queue'[c])
  <2>1. \A c \in Consumers : c < at \/ c = at \/ at < c
    BY <1>2
  <2>2. QED
    BY <1>3, <1>6, <1>7, <1>11, <2>1
<1>15. Nested'
  <2>1. ASSUME NEW a \in Consumers, NEW d \in Consumers,
               NEW p \in Range(queue'[a]), NEW r \in Range(queue'[d]), p <= r
        PROVE  r \in Range(queue'[a]) \/ (r = job /\ YetToEnqueue(a)')
    <3>1. CASE r = job
      BY <1>14, <3>1
    <3>2. CASE r # job
      <4>1. r \in Range(queue[d]) /\ r \in Nat /\ r <= job
        BY <1>7, <1>13, <3>2, QueuedFacts, RangeFacts, ZenonT(30)
      <4>2. p # job
        BY <1>2, <2>1, <3>2, <4>1
      <4>3. p \in Range(queue[a])
        BY <1>7, <4>2
      <4>4. QED
        BY <1>7, <2>1, <3>2, <4>1, <4>3 DEF Chain, Nested
    <3>3. QED
      BY <3>1, <3>2
  <2>2. QED
    BY <1>1, <1>2, <2>1 DEF Nested
<1>16. Newest'
  BY <1>1, <1>2, <1>13, <1>14 DEF Newest
<1>17. Room'
  <2>1. \A c \in Consumers : Len(queue'[c]) <= Limit
    BY <1>2, <1>4, <1>6 DEF Chain, Room
  <2>2. \A c \in Consumers : YetToEnqueue(c)' => Len(queue'[c]) < Limit
    <3>1. \A c \in Consumers : at < c => c # at /\ at <= c
      BY <1>2
    <3>2. QED
      BY <1>1, <1>3, <1>6, <3>1 DEF Chain, Room
  <2>3. QED
    BY <1>1, <1>2, <2>1, <2>2 DEF Room
<1>18. QED
  BY <1>9, <1>12, <1>15, <1>16, <1>17 DEF Chain

LEMMA ConsumeNowChain ==
    ASSUME ChainMode, IInv, Sizes, Chain, NEW c \in Consumers, ConsumeNow(c)
    PROVE  Chain'
<1>1. /\ UNCHANGED <<setup, pc, at, job, playing>> /\ ~setup.delayedConsumer
      /\ setup.preempts \/ pc = "idle"
      /\ queue[c] # <<>> /\ Dequeue(c) /\ consumerFree' = consumerFree + Home(Head(queue[c]))
  BY DEF ConsumeNow, processVars
<1>2. playing = NoPacket /\ consumerFree \in Nat
  BY <1>1 DEF Chain, ConsumerPool
<1>3. /\ consumerFree' \in Nat /\ playing' = NoPacket /\ playing' \in Nat
      /\ consumerFree' + Holds(playing' # NoPacket)
           = consumerFree + Holds(playing # NoPacket) + Home(Head(queue[c]))
  BY <1>1, <1>2 DEF Home, Holds, NoPacket
<1>4. pc \in {"enqueue", "account"} => setup.consumers = 1
  BY <1>1, LimitFacts
<1>5. QED
  BY <1>1, <1>3, <1>4, PlayedChain

LEMMA ConsumeDelayedChain ==
    ASSUME IInv, Sizes, Chain, ConsumeDelayed
    PROVE  Chain'
<1>1. /\ UNCHANGED <<setup, pc, at, job>> /\ setup.delayedConsumer
      /\ consumerFree' = consumerFree + PlayedNodes
  BY DEF ConsumeDelayed, processVars
<1>2. /\ consumerFree \in Nat /\ playing \in Nat /\ 1 \in Consumers /\ setup.consumers = 1
      /\ Consumers = 1 .. setup.consumers
  BY <1>1, ProcessFacts, LimitFacts DEF Chain, ConsumerPool
<1>3. \A c \in Consumers : c = 1
  BY <1>2
<1>4. playing # NoPacket => copies[playing] = 0
  <2>1. ASSUME playing # NoPacket PROVE copies[playing] = 0
    <3>1. playing = heard[1] /\ heard[1] <= sent /\ sent \in Nat /\ sent <= MaxPackets
          /\ MaxPackets \in Nat
      BY <1>2, <2>1, ProcessFacts, PipelineAssumption
         DEF Chain, ConsumerPool, IInv, ConsumerTypes, Sizes
    <3>2. playing \in Packets
      BY <1>2, <2>1, <3>1 DEF Packets, NoPacket
    <3>3. \A p \in Range(queue[1]) : heard[1] < p
      BY <1>2 DEF IInv, ConsumerOrder
    <3>4. playing \notin Range(queue[1])
      BY <1>2, <3>1, <3>3
    <3>5. InQueues(playing) = {}
      BY <1>3, <3>4 DEF InQueues
    <3>6. QED
      BY <3>2, <3>5, FS_EmptySet DEF Chain, Copies
  <2>2. QED
    BY <2>1
<1>5. PlayedNodes = Holds(playing # NoPacket)
  BY <1>4 DEF PlayedNodes, Holds
<1>6. CASE /\ queue[1] # <<>> /\ Dequeue(1) /\ playing' = Head(queue[1])
           /\ heard' = [heard EXCEPT ![1] = Head(queue[1])]
  <2>1. heard'[1] = playing' /\ playing' \in Nat /\ playing' # NoPacket
    <3>1. heard \in [Consumers -> Nat] /\ Range(queue[1]) \subseteq 1 .. sent
          /\ queue[1] \in Seq(Nat)
      BY <1>2 DEF IInv, ConsumerTypes
    <3>2. Head(queue[1]) \in Range(queue[1])
      BY <1>6, <3>1, RangeTail
    <3>3. QED
      BY <1>2, <1>6, <3>1, <3>2 DEF NoPacket
  <2>2. Home(Head(queue[1])) = 1
    <3>1. Head(queue[1]) \in Packets /\ Head(queue[1]) \in Range(queue[1])
      <4>1. queue[1] \in Seq(Nat) /\ Range(queue[1]) \subseteq Packets
        BY <1>2, QueuedFacts
      <4>2. QED
        BY <1>6, <4>1, RangeTail
    <3>2. InQueues(Head(queue[1])) = {1}
      BY <1>2, <1>3, <3>1 DEF InQueues
    <3>3. copies[Head(queue[1])] = 1
      BY <3>1, <3>2, FS_Singleton DEF Chain, Copies
    <3>4. QED
      BY <3>3 DEF Home
  <2>3. /\ consumerFree' \in Nat
        /\ consumerFree' + Holds(playing' # NoPacket)
             = consumerFree + Holds(playing # NoPacket) + Home(Head(queue[1]))
    BY <1>1, <1>2, <1>5, <2>1, <2>2 DEF Holds
  <2>4. QED
    BY <1>1, <1>2, <1>6, <2>1, <2>3, PlayedChain
<1>7. CASE UNCHANGED <<queue, copies, heard>> /\ playing' = NoPacket
  <2>1. Consumers' = Consumers /\ Limit' = Limit
        /\ \A c \in Consumers : YetToEnqueue(c)' = YetToEnqueue(c)
    BY <1>1 DEF Consumers, Limit, YetToEnqueue
  <2>2. Copies'
    <3>1. \A p : InQueues(p)' = InQueues(p)
      BY <1>7, <2>1 DEF InQueues
    <3>2. \A p \in Packets : Cardinality(InQueues(p)') = Cardinality(InQueues(p))
      BY <3>1, Zenon
    <3>3. QED
      BY <1>7, <3>2 DEF Chain, Copies
  <2>3. ConsumerPool'
    <3>1. QueuedPackets' = QueuedPackets
      BY <1>7, <2>1 DEF QueuedPackets
    <3>2. Cardinality(QueuedPackets') = Cardinality(QueuedPackets)
      BY <3>1, Zenon
    <3>3. consumerFree' = consumerFree + Holds(playing # NoPacket) /\ Holds(playing' # NoPacket) = 0
          /\ Holds(playing # NoPacket) \in Nat /\ NoPacket \in Nat
          /\ Holds(pc = "enqueue" /\ at = 1) \in Nat /\ Cardinality(QueuedPackets) \in Nat
      BY <1>1, <1>5, <1>7, QueuedFacts DEF Holds, NoPacket
    <3>4. consumerFree' \in Nat
          /\ consumerFree' + Holds(playing' # NoPacket) + Cardinality(QueuedPackets')
               + Holds(pc = "enqueue" /\ at = 1) = ConsumerNodes(setup)
      BY <1>2, <3>2, <3>3 DEF Chain, ConsumerPool
    <3>5. QED
      BY <1>1, <1>7, <3>3, <3>4 DEF ConsumerPool
  <2>4. Nested' /\ Newest' /\ Room'
    BY <1>1, <1>7, <2>1 DEF Chain, Nested, Newest, Room
  <2>5. QED
    BY <2>2, <2>3, <2>4 DEF Chain
<1>8. QED
  BY <1>6, <1>7 DEF ConsumeDelayed

LEMMA InitChain == ASSUME Init PROVE Sizes /\ Chain
<1>1. IInv /\ setup \in Setups
  BY InitInv DEF Init
<1>2. /\ Range(<<>>) = {} /\ Len(<<>>) = 0 /\ Limit \in Nat
      /\ ConsumerNodes(setup) \in Nat /\ 0 \in Nat
  BY <1>1, LimitFacts DEF Range, Holds
<1>3. Sizes
  <2>1. complete \in [Consumers -> BOOLEAN] /\ running \in [Consumers -> BOOLEAN]
        /\ producing \in BOOLEAN
    BY DEF Init
  <2>2. QED
    BY <2>1, PipelineAssumption DEF Init, Sizes, Holds, ProcessingNodes
<1>4. QueuedPackets = {} /\ \A p : InQueues(p) = {}
  BY <1>2 DEF Init, QueuedPackets, InQueues
<1>5. Copies
  BY <1>4, FS_EmptySet DEF Init, Copies
<1>6. ConsumerPool
  BY <1>2, <1>4, FS_EmptySet DEF Init, ConsumerPool, Holds, NoPacket
<1>7. Nested /\ Newest /\ Room
  BY <1>2 DEF Init, Nested, Newest, Room
<1>8. QED
  BY <1>3, <1>5, <1>6, <1>7 DEF Chain

LEMMA NextChain ==
    ASSUME ChainMode, IInv, Sizes, Chain, [Next]_vars
    PROVE  Chain'
<1>1. CASE Start \/ Stop \/ Produce \/ UNCHANGED vars
  <2>1. UNCHANGED <<setup, queue, copies, playing, heard, consumerFree, pc, at, job>>
    BY <1>1 DEF Start, Stop, Produce, ProduceDelayed, ProduceNow, vars, processVars, consumerVars
  <2>2. QED
    BY <2>1, Outside
<1>2. CASE Process
  BY <1>2, BeginChain, CopyChain, StageChain, CheckChain, DropChain, TakeChain, EnqueueChain,
     AccountChain, ReleaseChain DEF Process
<1>3. CASE Consume
  BY <1>3, ConsumeDelayedChain, ConsumeNowChain DEF Consume
<1>4. QED
  BY <1>1, <1>2, <1>3 DEF Next

(* Between two calls process has nothing in hand.                             *)
Idle == pc = "idle" => job = NoPacket

LEMMA IdleStep == ASSUME Idle, [Next]_vars PROVE Idle'
<1>1. CASE Start \/ Stop \/ Produce \/ Consume \/ UNCHANGED vars
  <2>1. pc' = pc /\ job' = job
    BY <1>1 DEF Start, Stop, Produce, ProduceDelayed, ProduceNow, Consume, ConsumeDelayed,
       ConsumeNow, vars, processVars
  <2>2. QED
    BY <2>1 DEF Idle
<1>2. CASE Process
  BY <1>2 DEF Idle, Process, Begin, Copy, Stage, StageDone, StageFails, CheckOverflow, Drop,
     TakeNode, Enqueue, Account, Release, NextConsumer
<1>3. QED
  BY <1>1, <1>2 DEF Next

(* Where a consumer overflowed its queue has lost no more packets since than    *)
(* consumer interrupts came.                                                *)
Interrupted == setup.delayedConsumer \/ setup.preempts
Dropping == pc = "drop" => Len(queue[at]) + (IF Interrupted THEN ticks ELSE 0) >= Limit

LEMMA Shorter ==
    ASSUME NEW n \in Nat, NEW m \in Nat, NEW t \in Nat, NEW u, NEW k \in Nat,
           n + t >= k, m + 1 >= n, u = t + 1
    PROVE  m + u >= k
  OBVIOUS

LEMMA DroppingStep ==
    ASSUME IInv, Sizes, Dropping, [Next]_vars
    PROVE  Dropping'
<1>1. /\ at \in Consumers /\ queue \in [Consumers -> Seq(Nat)] /\ Limit \in Nat
      /\ Len(queue[at]) \in Nat /\ ticks \in Nat /\ Interrupted \in BOOLEAN
      /\ 1 \in Consumers
  BY ProcessFacts, LimitFacts DEF IInv, ConsumerTypes, Sizes, Interrupted
<1>2. CASE Start \/ Stop \/ Produce \/ UNCHANGED vars
  <2>1. UNCHANGED <<setup, queue, pc, at, ticks>>
    BY <1>2 DEF Start, Stop, Produce, ProduceDelayed, ProduceNow, vars, processVars, consumerVars
  <2>2. QED
    BY <2>1 DEF Dropping, Interrupted, Limit
<1>3. CASE Process
  <2>1. CASE CheckOverflow
    <3>1. UNCHANGED <<setup, queue>> /\ ticks' = 0
      BY <2>1 DEF CheckOverflow, consumerVars
    <3>2. pc' = "drop" => at' = at /\ Len(queue[at]) = Limit
      BY <2>1 DEF CheckOverflow, IsOverflowing, NextConsumer
    <3>3. QED
      BY <1>1, <3>1, <3>2 DEF Dropping, Interrupted, Limit
  <2>2. CASE Begin \/ Copy \/ Stage \/ Drop \/ TakeNode \/ Enqueue \/ Account \/ Release
    <3>1. pc' # "drop"
      BY <2>2 DEF Begin, Copy, Stage, StageDone, StageFails, Drop, TakeNode, Enqueue, Account,
         Release, NextConsumer
    <3>2. QED
      BY <3>1 DEF Dropping
  <2>3. QED
    BY <1>3, <2>1, <2>2 DEF Process
<1>4. ASSUME NEW c \in Consumers, queue[c] # <<>>, Dequeue(c),
             UNCHANGED <<setup, pc, at>>, ticks' = ticks + 1, pc = "drop" => Interrupted
      PROVE  Dropping'
  <2>1. queue[c] \in Seq(Nat) /\ Len(Tail(queue[c])) = Len(queue[c]) - 1 /\ Len(queue[c]) \in Nat
    BY <1>1, <1>4, RangeTail
  <2>2. queue'[at] = IF c = at THEN Tail(queue[c]) ELSE queue[at]
    BY <1>1, <1>4 DEF Dequeue
  <2>3. Len(queue'[at]) \in Nat /\ Len(queue'[at]) + 1 >= Len(queue[at])
    BY <1>1, <2>1, <2>2
  <2>4. Limit' = Limit /\ Interrupted' = Interrupted
    BY <1>4 DEF Limit, Interrupted
  <2>5. pc = "drop" => Len(queue'[at]) + ticks' >= Limit
    <3>1. pc = "drop" => Len(queue[at]) + ticks >= Limit
      BY <1>4 DEF Dropping
    <3>2. /\ Len(queue[at]) \in Nat /\ ticks \in Nat /\ Limit \in Nat
          /\ Len(queue'[at]) \in Nat /\ Len(queue'[at]) + 1 >= Len(queue[at])
          /\ ticks' = ticks + 1
      BY <1>1, <1>4, <2>3
    <3>3. QED
      BY <3>1, <3>2, Shorter
  <2>6. QED
    BY <1>4, <2>4, <2>5 DEF Dropping
<1>5. CASE Consume
  <2>1. CASE ConsumeDelayed
    <3>1. Interrupted /\ UNCHANGED <<setup, pc, at>> /\ ticks' = ticks + 1
          /\ ((queue[1] # <<>> /\ Dequeue(1)) \/ queue' = queue)
      BY <2>1 DEF ConsumeDelayed, processVars, Interrupted
    <3>2. CASE queue[1] # <<>> /\ Dequeue(1)
      BY <1>1, <1>4, <3>1, <3>2
    <3>3. CASE queue' = queue
      <4>1. Limit' = Limit /\ (Interrupted' <=> Interrupted)
        BY <3>1 DEF Limit, Interrupted
      <4>2. QED
        BY <1>1, <3>1, <3>3, <4>1 DEF Dropping
    <3>4. QED
      BY <3>1, <3>2, <3>3
  <2>2. ASSUME NEW c \in Consumers, ConsumeNow(c) PROVE Dropping'
    BY <1>4, <2>2 DEF ConsumeNow, processVars, Interrupted
  <2>3. QED
    BY <1>5, <2>1, <2>2 DEF Consume
<1>6. QED
  BY <1>2, <1>3, <1>5 DEF Next

(* When every queue has room so has the pool: the queues hold no more packets   *)
(* than the one with the oldest of them.                                     *)
LEMMA SpareNode ==
    ASSUME IInv, Sizes, Chain, pc = "take"
    PROVE  consumerFree > 0
<1>1. /\ QueuedPackets \subseteq Nat /\ Cardinality(QueuedPackets) \in Nat
      /\ \A c \in Consumers : queue[c] \in Seq(Nat)
      /\ Limit \in Nat \ {0}
  BY QueuedFacts, LimitFacts
<1>2. Cardinality(QueuedPackets) < Limit
  <2>1. CASE QueuedPackets = {}
    BY <1>1, <2>1, FS_EmptySet
  <2>2. CASE QueuedPackets # {}
    <3>1. PICK m \in QueuedPackets : \A r \in QueuedPackets : ~(<<r, m>> \in OpToRel(<, Nat))
      BY <1>1, <2>2, NatLessThanWellFounded, WFMin
    <3>2. ASSUME NEW r \in QueuedPackets PROVE m <= r
      <4>1. <<r, m>> \in Nat \X Nat /\ ~(<<r, m>> \in OpToRel(<, Nat))
        BY <1>1, <3>1
      <4>2. ~(r < m)
        BY <4>1, Zenon DEF OpToRel
      <4>3. QED
        BY <1>1, <4>2
    <3>3. PICK c \in Consumers : m \in Range(queue[c])
      BY DEF QueuedPackets
    <3>4. ASSUME NEW r \in QueuedPackets PROVE r \in Range(queue[c])
      <4>1. PICK d \in Consumers : r \in Range(queue[d])
        BY DEF QueuedPackets
      <4>2. job \notin Range(queue[d])
        BY <4>1, NotYetQueued
      <4>3. QED
        BY <3>2, <3>3, <4>1, <4>2 DEF Chain, Nested
    <3>5. QueuedPackets = Range(queue[c])
      BY <3>4 DEF QueuedPackets
    <3>6. Cardinality(QueuedPackets) <= Len(queue[c]) /\ Len(queue[c]) \in Nat
      BY <1>1, <3>5, RangeSize
    <3>7. Len(queue[c]) < Limit
      BY DEF Chain, Room
    <3>8. QED
      BY <1>1, <3>6, <3>7
  <2>3. QED
    BY <2>1, <2>2
<1>3. /\ Holds(pc = "enqueue" /\ at = 1) = 0
      /\ Holds(playing # NoPacket) <= Holds(setup.delayedConsumer)
      /\ Holds(playing # NoPacket) \in Nat /\ Holds(setup.delayedConsumer) \in Nat
      /\ consumerFree \in Nat
  BY DEF Holds, Chain, ConsumerPool
<1>4. consumerFree + Holds(playing # NoPacket) + Cardinality(QueuedPackets)
        = Limit + Holds(setup.delayedConsumer)
  BY <1>1, <1>3, LimitFacts DEF Chain, ConsumerPool
<1>5. QED
  BY <1>1, <1>2, <1>3, <1>4

----------------------------------------------------------------------------
LEMMA PoolInvariance ==
    ASSUME ChainMode
    PROVE  Spec => [](IInv /\ Sizes /\ Chain /\ Idle)
<1>1. Init => IInv /\ Sizes /\ Chain /\ Idle
  BY InitInv, InitChain DEF Init, Idle
<1>2. IInv /\ Sizes /\ Chain /\ Idle /\ [Next]_vars => (IInv /\ Sizes /\ Chain /\ Idle)'
  BY NextInv, SizesStep, NextChain, IdleStep
<1>3. QED
  BY <1>1, <1>2, PTL DEF Spec

(* Every variable stays in its type and every queue within the length it is      *)
(* given, for any queue sizes (init_audio_queues, queue.c).                   *)
THEOREM TypeCorrect ==
    ASSUME ChainMode
    PROVE  Spec => []TypeOK
<1>1. IInv /\ Sizes /\ Chain /\ Idle => TypeOK
  <2> SUFFICES ASSUME IInv, Sizes, Chain, Idle PROVE TypeOK
    OBVIOUS
  <2>1. /\ sent \in 0 .. MaxPackets /\ filling \in 0 .. sent /\ sent \in Nat
        /\ job \in 0 .. sent
    BY PipelineAssumption, ProcessFacts DEF IInv, Types, Sizes, Idle, NoPacket
  <2>2. \A s \in Seq(Nat) : Range(s) \subseteq 1 .. sent => s \in Seq(1 .. sent)
    <3>1. ASSUME NEW s \in Seq(Nat), Range(s) \subseteq 1 .. sent
          PROVE  s \in Seq(1 .. sent)
      <4>1. \A i \in 1 .. Len(s) : s[i] \in 1 .. sent
        BY <3>1, RangeFacts
      <4>2. s \in [1 .. Len(s) -> 1 .. sent] /\ Len(s) \in Nat
        BY <4>1
      <4>3. s \in UNION {[1 .. n -> 1 .. sent] : n \in Nat}
        BY <4>2, Zenon
      <4>4. QED
        BY <4>3, SeqDef, Zenon
    <3>2. QED
      BY <3>1
  <2>3. /\ producerQueue \in Seq(1 .. sent) /\ Len(producerQueue) <= setup.producerQueue
        /\ queue \in [Consumers -> Seq(1 .. sent)]
        /\ heard \in [Consumers -> 0 .. sent]
    <3>1. producerQueue \in Seq(1 .. sent) /\ Len(producerQueue) <= setup.producerQueue
      BY <2>2 DEF IInv, Types, ProducerPool
    <3>2. queue \in [Consumers -> Seq(1 .. sent)]
      BY <2>2 DEF IInv, ConsumerTypes
    <3>3. heard \in [Consumers -> 0 .. sent]
      BY <2>1 DEF IInv, ConsumerTypes
    <3>4. QED
      BY <3>1, <3>2, <3>3
  <2>4. producerFree \in 0 .. ProducerNodes(setup)
    <3>1. Len(producerQueue) \in Nat /\ Holds(filling # NoPacket) \in Nat
          /\ Holds(pc = "copy") \in Nat
      BY DEF IInv, Types, Holds
    <3>2. QED
      BY <3>1, SetupFacts DEF IInv, Types, ProducerPool
  <2>5. processingFree \in 0 .. ProcessingNodes
    BY DEF Sizes, ProcessingNodes, Holds
  <2>6. copies \in [Packets -> 0 .. setup.consumers]
    <3>1. \A p \in Packets : copies[p] \in 0 .. setup.consumers
      BY QueuedFacts, ProcessFacts DEF Chain, Copies
    <3>2. QED
      BY <3>1 DEF Chain, Copies
  <2>7. playing \in 0 .. sent
    BY <2>1, ProcessFacts DEF Chain, ConsumerPool, IInv, ConsumerTypes, NoPacket
  <2>8. consumerFree \in 0 .. ConsumerNodes(setup)
    <3>1. /\ Holds(playing # NoPacket) \in Nat /\ Cardinality(QueuedPackets) \in Nat
          /\ Holds(pc = "enqueue" /\ at = 1) \in Nat /\ consumerFree \in Nat
      BY QueuedFacts DEF Holds, Chain, ConsumerPool
    <3>2. ConsumerNodes(setup) \in Nat
      BY LimitFacts DEF Holds
    <3>3. QED
      BY <3>1, <3>2 DEF Chain, ConsumerPool
  <2>9. \A c \in Consumers : Len(queue[c]) <= Limit
    BY DEF Chain, Room
  <2>10. setup \in Setups /\ pc \in Locations /\ at \in Consumers
    BY DEF IInv, Types
  <2>11. /\ starts \in 0 .. MaxStarts /\ producing \in BOOLEAN /\ threshold \in Nat
         /\ complete \in [Consumers -> BOOLEAN] /\ running \in [Consumers -> BOOLEAN]
         /\ buffered \in Int /\ ticks \in 0 .. MaxTicks
    BY DEF Sizes
  <2>12. QED
    BY <2>1, <2>3, <2>4, <2>5, <2>6, <2>7, <2>8, <2>9, <2>10, <2>11 DEF TypeOK
<1>2. QED
  BY <1>1, PoolInvariance, PTL

(* No node is lost or in two places, in the three pools, and copy_count is the    *)
(* number of queues that hold the node, for any queue sizes and number of          *)
(* consumers, wherever the interrupts cut into process (queue_free_node,          *)
(* sac_pipeline_process, sac_pipeline_consume).                               *)
THEOREM NoNodeLost ==
    ASSUME ChainMode
    PROVE  Spec => []NodesConserved
<1>1. IInv /\ Sizes /\ Chain => NodesConserved
  <2> SUFFICES ASSUME IInv, Sizes, Chain PROVE NodesConserved
    OBVIOUS
  <2>1. {p \in Packets : InQueues(p) # {}} = QueuedPackets
    BY QueuedFacts
  <2>2. consumerFree + Holds(playing # NoPacket)
         + Cardinality({p \in Packets : InQueues(p) # {}})
         + Holds(pc = "enqueue" /\ at = 1) = ConsumerNodes(setup)
    BY <2>1 DEF Chain, ConsumerPool
  <2>3. QED
    BY <2>2 DEF NodesConserved, Chain, Copies, Sizes, IInv, ProducerPool
<1>2. QED
  BY <1>1, PoolInvariance, PTL

(* process always finds a consumer node and room in every queue for the packet     *)
(* in hand: is_consumer_overflowing was asked for every consumer, and the          *)
(* consumers only play in between (move_audio_packet_to_consumer_queue).        *)
THEOREM PacketFindsNode ==
    ASSUME ChainMode
    PROVE  Spec => []NodeForEveryPacket
<1>1. IInv /\ Sizes /\ Chain => NodeForEveryPacket
  <2> SUFFICES ASSUME IInv, Sizes, Chain PROVE NodeForEveryPacket
    OBVIOUS
  <2>1. pc = "enqueue" => Len(queue[at]) < Limit
    <3>1. pc = "enqueue" => YetToEnqueue(at)
      BY ProcessFacts DEF YetToEnqueue
    <3>2. QED
      BY <3>1, ProcessFacts DEF Chain, Room
  <2>2. QED
    BY <2>1, SpareNode DEF NodeForEveryPacket
<1>2. QED
  BY <1>1, PoolInvariance, PTL

(* Fewer consumer interrupts than a queue has places come between the detection    *)
(* of an overflow and the drop.                                              *)
DropMode ==
    \A s \in Setups : s.delayedConsumer \/ s.preempts => MaxTicks < s.consumerQueue + s.extra

(* The queue found full still has a packet to drop (sac_pipeline_process).        *)
THEOREM SomethingToDrop ==
    ASSUME DropMode
    PROVE  Spec => []DropFindsPacket
<1>1. Init => IInv /\ Sizes /\ Dropping
  BY InitInv, InitChain DEF Init, Dropping
<1>2. IInv /\ Sizes /\ Dropping /\ [Next]_vars => (IInv /\ Sizes /\ Dropping)'
  BY NextInv, SizesStep, DroppingStep
<1>3. IInv /\ Sizes /\ Dropping => DropFindsPacket
  <2> SUFFICES ASSUME IInv, Sizes, Dropping, pc = "drop" PROVE queue[at] # <<>>
    BY DEF DropFindsPacket
  <2>1. /\ Limit \in Nat \ {0} /\ ticks \in Nat /\ ticks <= MaxTicks /\ MaxTicks \in Nat
        /\ queue[at] \in Seq(Nat) /\ Len(queue[at]) \in Nat
    BY LimitFacts, ProcessFacts, QueuedFacts, PipelineAssumption DEF Sizes
  <2>2. Interrupted => MaxTicks < Limit
    BY DEF DropMode, Interrupted, Limit, IInv, Types
  <2>3. Len(queue[at]) # 0
    <3>1. CASE Interrupted
      <4>1. Len(queue[at]) + ticks >= Limit /\ MaxTicks < Limit
        BY <2>2, <3>1 DEF Dropping
      <4>2. QED
        BY <2>1, <4>1
    <3>2. CASE ~Interrupted
      <4>1. Len(queue[at]) + 0 >= Limit
        BY <3>2 DEF Dropping
      <4>2. QED
        BY <2>1, <4>1
    <3>3. QED
      BY <3>1, <3>2
  <2>4. QED
    BY <2>3
<1>4. QED
  BY <1>1, <1>2, <1>3, PTL DEF Spec

(* The size counter is what the queues hold, but for the packet process has        *)
(* enqueued and not counted yet.                                             *)
Counted ==
    /\ buffered \in Int
    /\ IsFiniteSet(QueuePlaces)
    /\ buffered + Holds(pc = "account") = Cardinality(QueuePlaces)

LEMMA PlacesFacts ==
    ASSUME IInv
    PROVE  \A x : x \in QueuePlaces
                    <=> \E c \in Consumers : \E i \in 1 .. Len(queue[c]) : x = <<c, i>>
  BY DEF QueuePlaces

(* A queue that loses a packet holds one less.                                *)
LEMMA PlaceGiven ==
    ASSUME IInv, Counted, setup' = setup, NEW c \in Consumers, queue[c] # <<>>,
           queue' = [queue EXCEPT ![c] = Tail(@)]
    PROVE  /\ IsFiniteSet(QueuePlaces')
           /\ Cardinality(QueuePlaces') = Cardinality(QueuePlaces) - 1
<1>1. /\ queue \in [Consumers -> Seq(Nat)] /\ queue[c] \in Seq(Nat) /\ Consumers' = Consumers
      /\ Len(Tail(queue[c])) = Len(queue[c]) - 1
  BY RangeTail, SMTT(30) DEF IInv, ConsumerTypes, Consumers
<1>2. PICK n \in Nat \ {0} : n = Len(queue[c])
  BY <1>1, EmptySeq
<1>3. /\ Len(queue'[c]) = n - 1
      /\ \A d \in Consumers : d # c => queue'[d] = queue[d]
  BY <1>1, <1>2
<1>4. n \in 1 .. n /\ \A i : i \in 1 .. (n - 1) <=> i \in 1 .. n /\ i # n
  BY <1>2
<1>5. QueuePlaces' = QueuePlaces \ {<<c, n>>}
  <2>1. \A x : x \in QueuePlaces'
                 <=> \E d \in Consumers : \E i \in 1 .. Len(queue'[d]) : x = <<d, i>>
    BY <1>1 DEF QueuePlaces
  <2>2. \A d \in Consumers : \A i : i \in 1 .. Len(queue'[d])
                                  <=> i \in 1 .. Len(queue[d]) /\ <<d, i>> # <<c, n>>
    <3>1. ASSUME NEW d \in Consumers, NEW i
          PROVE  i \in 1 .. Len(queue'[d]) <=> i \in 1 .. Len(queue[d]) /\ <<d, i>> # <<c, n>>
      <4>1. CASE d = c
        BY <1>2, <1>3, <1>4, <4>1
      <4>2. CASE d # c
        BY <1>3, <4>2
      <4>3. QED
        BY <4>1, <4>2
    <3>2. QED
      BY <3>1
  <2>3. \A x : x \in QueuePlaces' <=> x \in QueuePlaces /\ x # <<c, n>>
    BY <2>1, <2>2, PlacesFacts
  <2>4. QED
    BY <2>3
<1>6. <<c, n>> \in QueuePlaces
  BY <1>2, <1>4, PlacesFacts
<1>7. IsFiniteSet(QueuePlaces)
  BY DEF Counted
<1>8. QED
  BY <1>5, <1>6, <1>7, FS_RemoveElement

LEMMA PlaceTaken ==
    ASSUME IInv, Counted, setup' = setup, NEW c \in Consumers, NEW p \in Nat,
           queue' = [queue EXCEPT ![c] = Append(@, p)]
    PROVE  /\ IsFiniteSet(QueuePlaces')
           /\ Cardinality(QueuePlaces') = Cardinality(QueuePlaces) + 1
<1>1. /\ queue \in [Consumers -> Seq(Nat)] /\ queue[c] \in Seq(Nat) /\ Consumers' = Consumers
      /\ Len(Append(queue[c], p)) = Len(queue[c]) + 1
  BY RangeAppend DEF IInv, ConsumerTypes, Consumers
<1>2. PICK n \in Nat : n = Len(queue[c])
  BY <1>1
<1>3. /\ Len(queue'[c]) = n + 1
      /\ \A d \in Consumers : d # c => queue'[d] = queue[d]
  BY <1>1, <1>2
<1>4. n + 1 \notin 1 .. n /\ \A i : i \in 1 .. (n + 1) <=> i \in 1 .. n \/ i = n + 1
  BY <1>2
<1>5. QueuePlaces' = QueuePlaces \cup {<<c, n + 1>>}
  <2>1. \A x : x \in QueuePlaces'
                 <=> \E d \in Consumers : \E i \in 1 .. Len(queue'[d]) : x = <<d, i>>
    BY <1>1 DEF QueuePlaces
  <2>2. \A d \in Consumers : \A i : i \in 1 .. Len(queue'[d])
                                  <=> i \in 1 .. Len(queue[d]) \/ <<d, i>> = <<c, n + 1>>
    <3>1. ASSUME NEW d \in Consumers, NEW i
          PROVE  i \in 1 .. Len(queue'[d]) <=> i \in 1 .. Len(queue[d]) \/ <<d, i>> = <<c, n + 1>>
      <4>1. CASE d = c
        BY <1>2, <1>3, <1>4, <4>1
      <4>2. CASE d # c
        BY <1>3, <4>2
      <4>3. QED
        BY <4>1, <4>2
    <3>2. QED
      BY <3>1
  <2>3. \A x : x \in QueuePlaces' <=> x \in QueuePlaces \/ x = <<c, n + 1>>
    BY <2>1, <2>2, PlacesFacts
  <2>4. QED
    BY <2>3
<1>6. <<c, n + 1>> \notin QueuePlaces
  BY <1>2, <1>4, PlacesFacts
<1>7. IsFiniteSet(QueuePlaces)
  BY DEF Counted
<1>8. QED
  BY <1>5, <1>6, <1>7, FS_AddElement, FS_CardinalityType

LEMMA CountedStep ==
    ASSUME IInv, Sizes, Chain, Counted, [Next]_vars
    PROVE  Counted'
<1> USE DEF Holds
<1>1. /\ at \in Consumers /\ 1 \in Consumers /\ job \in Nat /\ buffered \in Int
      /\ Cardinality(QueuePlaces) \in Nat
  BY ProcessFacts, FS_CardinalityType DEF Counted
<1>2. ASSUME UNCHANGED <<setup, queue>>,
             buffered' + Holds(pc' = "account") = buffered + Holds(pc = "account"),
             buffered' \in Int
      PROVE  Counted'
  <2>1. QueuePlaces' = QueuePlaces
    BY <1>2 DEF QueuePlaces, Consumers
  <2>2. Cardinality(QueuePlaces') = Cardinality(QueuePlaces) /\ IsFiniteSet(QueuePlaces')
    BY <2>1, Zenon DEF Counted
  <2>3. QED
    BY <1>2, <2>2 DEF Counted
<1>3. ASSUME setup' = setup, NEW c \in Consumers, queue[c] # <<>>,
             queue' = [queue EXCEPT ![c] = Tail(@)], buffered' = buffered - 1,
             pc' = "account" <=> pc = "account"
      PROVE  Counted'
  <2>1. IsFiniteSet(QueuePlaces') /\ Cardinality(QueuePlaces') = Cardinality(QueuePlaces) - 1
    BY <1>3, PlaceGiven
  <2>2. buffered' \in Int /\ buffered' + Holds(pc' = "account") = Cardinality(QueuePlaces')
    BY <1>1, <1>3, <2>1 DEF Counted
  <2>3. QED
    BY <2>1, <2>2 DEF Counted
<1>4. CASE Start \/ Stop \/ Produce \/ UNCHANGED vars
  <2>1. UNCHANGED <<setup, queue, buffered, pc>>
    BY <1>4 DEF Start, Stop, Produce, ProduceDelayed, ProduceNow, vars, processVars, consumerVars
  <2>2. QED
    BY <1>1, <1>2, <2>1
<1>5. CASE Begin \/ Copy \/ Stage \/ CheckOverflow \/ TakeNode \/ Release
  <2>1. UNCHANGED <<setup, queue, buffered>> /\ pc # "account" /\ pc' # "account"
    BY <1>5 DEF Begin, Copy, Stage, StageDone, StageFails, CheckOverflow, TakeNode, Release,
       NextConsumer, consumerVars
  <2>2. QED
    BY <1>1, <1>2, <2>1
<1>6. CASE Drop
  <2>1. /\ setup' = setup /\ queue[at] # <<>> /\ queue' = [queue EXCEPT ![at] = Tail(@)]
        /\ buffered' = buffered - 1 /\ pc # "account" /\ pc' # "account"
    BY <1>6 DEF Drop, Dequeue, NextConsumer
  <2>2. QED
    BY <1>1, <1>3, <2>1
<1>7. CASE Enqueue
  <2>1. Len(queue[at]) < Limit
    <3>1. YetToEnqueue(at) /\ pc = "enqueue"
      BY <1>7, ProcessFacts DEF Enqueue, YetToEnqueue
    <3>2. QED
      BY <1>1, <3>1 DEF Chain, Room
  <2>2. /\ setup' = setup /\ queue' = [queue EXCEPT ![at] = Append(@, job)]
        /\ buffered' = buffered /\ pc = "enqueue" /\ pc' = "account"
    BY <1>7, <2>1 DEF Enqueue
  <2>3. IsFiniteSet(QueuePlaces') /\ Cardinality(QueuePlaces') = Cardinality(QueuePlaces) + 1
    BY <1>1, <2>2, PlaceTaken
  <2>4. buffered' + Holds(pc' = "account") = Cardinality(QueuePlaces')
    BY <1>1, <2>2, <2>3 DEF Counted
  <2>5. QED
    BY <1>1, <2>2, <2>3, <2>4 DEF Counted
<1>8. CASE Account
  <2>1. /\ UNCHANGED <<setup, queue>> /\ buffered' = buffered + 1
        /\ pc = "account" /\ pc' # "account"
    BY <1>8 DEF Account, NextConsumer
  <2>2. QED
    BY <1>1, <1>2, <2>1
<1>9. CASE Consume
  <2>1. CASE ConsumeDelayed
    <3>1. /\ setup' = setup /\ pc' = pc
          /\ \/ /\ queue[1] # <<>> /\ queue' = [queue EXCEPT ![1] = Tail(@)]
                /\ buffered' = buffered - 1
             \/ queue' = queue /\ buffered' = buffered
      BY <2>1 DEF ConsumeDelayed, Dequeue, processVars
    <3>2. QED
      BY <1>1, <1>2, <1>3, <3>1
  <2>2. ASSUME NEW c \in Consumers, ConsumeNow(c) PROVE Counted'
    BY <1>3, <2>2 DEF ConsumeNow, Dequeue, processVars
  <2>3. QED
    BY <1>9, <2>1, <2>2 DEF Consume
<1>10. QED
  BY <1>4, <1>5, <1>6, <1>7, <1>8, <1>9 DEF Next, Process

(* samples_buffered_size is right whenever a processing stage may read it: what     *)
(* process counts late and the consumers count at once evens out                   *)
(* (move_audio_packet_to_consumer_queue, sac_pipeline_consume).                 *)
THEOREM SizeIsRight ==
    ASSUME ChainMode
    PROVE  Spec => []AccountedFor
<1>1. Init => Counted
  <2> SUFFICES ASSUME Init PROVE Counted
    OBVIOUS
  <2>1. \A c \in Consumers : 1 .. Len(queue[c]) = {}
    BY DEF Init
  <2>2. QueuePlaces = {}
    BY <2>1, InitInv, PlacesFacts
  <2>3. QED
    BY <2>2, FS_EmptySet DEF Init, Counted, Holds
<1>2. IInv /\ Sizes /\ Chain /\ Counted /\ [Next]_vars => Counted'
  BY CountedStep
<1>3. IInv /\ Sizes /\ Chain /\ Counted => AccountedFor
  BY DEF Counted, AccountedFor, Holds
<1>4. QED
  BY <1>1, <1>2, <1>3, PoolInvariance, PTL DEF Spec
=============================================================================
