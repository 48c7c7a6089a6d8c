----------------------------- MODULE EventBus -----------------------------
(***************************************************************************)
(* The events of lab6: a producer (producer.py) that declares the topology *)
(* and publishes its list of events over and over, the topic exchange and  *)
(* the queues of RabbitMQ, and one consumer (consumer.py) for each queue,  *)
(* which acknowledges a message after its handler has run.                 *)
(*                                                                         *)
(* Every published message gets an event_id of its own, here its number.   *)
(* Connections are lost, the broker and the processes restart; MaxFaults   *)
(* bounds how often. A lost connection of a consumer is noticed by the     *)
(* broker at once, or stays half-open there until its heartbeats are       *)
(* missed; the model has one such connection for each queue at a time.     *)
(***************************************************************************)
EXTENDS Naturals, Sequences, FiniteSets, SequencesExt

CONSTANTS
    Queues,     \* the queues in use, each with its consumer
    Events,     \* the routing keys of EVENTS, in order
    MaxIds,     \* bound on the messages published
    MaxFaults   \* bound on the failures

ASSUME EventBusAssumption ==
    /\ Queues \subseteq {"notifications", "analytics", "cache_invalidation"}
    /\ Events \in Seq(STRING) /\ Events # <<>>
    /\ MaxIds \in Nat /\ MaxFaults \in Nat

AnyKey == {Events[i] : i \in DOMAIN Events}

(* What setup_topology binds to each queue; "#" matches every key.         *)
Bindings(q) ==
    CASE q = "notifications"      -> {"user.registered", "order.created",
                                      "order.service_added", "order.status_changed"}
      [] q = "analytics"          -> AnyKey
      [] q = "cache_invalidation" -> {"service.created", "order.status_changed"}

(* Mutant: the entry of one event is forgotten.                            *)
HandlersShort(q) == Bindings(q) \ {"order.status_changed"}

(* HANDLERS: the events each consumer does something about.                *)
Handlers(q) ==
    CASE q = "notifications"      -> {"user.registered", "order.created",
                                      "order.service_added", "order.status_changed"}
      [] q = "analytics"          -> AnyKey
      [] q = "cache_invalidation" -> {"service.created", "order.status_changed"}

VARIABLES
    bound,      \* queues declared and bound to the exchange
    queue,      \* the ids of the messages in each queue, unacknowledged ones too
    fact,       \* for each message published, by id, its index in EVENTS
    producer,   \* "down", "setup" or "publish"
    next,       \* index in EVENTS of what the producer publishes next
    wire,       \* ids the producer has sent and the broker has not read
    consumer,   \* "down", "ready", "busy" or "done" with a message
    msg,        \* the id of that message, 0 for none
    linked,     \* does the consumer's connection work?
    half,       \* has the broker a half-open connection of the consumer?
    held,       \* the id unacknowledged there, 0 for none
    handled,    \* history: the ids each consumer's handler has run for
    strayed,    \* history: the ids each half-open connection has held
    routed,     \* history: the ids the broker has read
    faults      \* how many failures there were

consumerVars == <<consumer, msg, linked, handled>>
halfVars == <<half, held, strayed>>
producerVars == <<producer, next, fact>>
vars == <<bound, queue, producerVars, wire, consumerVars, halfVars, routed, faults>>

Ids == DOMAIN fact

Init ==
    /\ bound = {}
    /\ queue = [q \in Queues |-> <<>>]
    /\ fact = <<>>
    /\ producer = "down"
    /\ next = 1
    /\ wire = <<>>
    /\ consumer = [q \in Queues |-> "down"]
    /\ msg = [q \in Queues |-> 0]
    /\ linked = [q \in Queues |-> FALSE]
    /\ half = [q \in Queues |-> FALSE]
    /\ held = [q \in Queues |-> 0]
    /\ handled = [q \in Queues |-> <<>>]
    /\ strayed = [q \in Queues |-> {}]
    /\ routed = {}
    /\ faults = 0

-----------------------------------------------------------------------------
(* The producer.                                                           *)

(* connect() and the exchange.                                             *)
ProducerConnect ==
    /\ producer = "down"
    /\ producer' = "setup"
    /\ UNCHANGED <<bound, queue, fact, next, wire, consumerVars, halfVars, routed, faults>>

(* One turn of the loop of setup_topology: queue_declare, then the binds.  *)
SetupQueue(q) ==
    /\ producer = "setup"
    /\ q \notin bound
    /\ bound' = bound \cup {q}
    /\ UNCHANGED <<queue, producerVars, wire, consumerVars, halfVars, routed, faults>>

(* Mutant: an index of the list that starts from 0.                        *)
SetupFromZero ==
    /\ producer = "setup"
    /\ bound = Queues
    /\ producer' = "publish"
    /\ next' = 0
    /\ UNCHANGED <<bound, queue, fact, wire, consumerVars, halfVars, routed, faults>>

(* Mutant: the retry goes on with the list where it was.                   *)
SetupResumes ==
    /\ producer = "setup"
    /\ bound = Queues
    /\ producer' = "publish"
    /\ next' = IF next = Len(Events) + 1 THEN 1 ELSE next
    /\ UNCHANGED <<bound, queue, fact, wire, consumerVars, halfVars, routed, faults>>

SetupDone ==
    /\ producer = "setup"
    /\ bound = Queues
    /\ producer' = "publish"
    /\ next' = 1
    /\ UNCHANGED <<bound, queue, fact, wire, consumerVars, halfVars, routed, faults>>

(* publish_event: basic_publish without confirms.                          *)
Publish ==
    /\ producer = "publish"
    /\ next \in DOMAIN Events
    /\ Len(fact) < MaxIds
    /\ fact' = Append(fact, next)
    /\ wire' = Append(wire, Len(fact) + 1)
    /\ next' = next + 1
    /\ UNCHANGED <<bound, queue, producer, consumerVars, halfVars, routed, faults>>

(* Mutant: the process ends without closing the connection.                *)
CycleCut ==
    /\ producer = "publish"
    /\ next = Len(Events) + 1
    /\ producer' = "down"
    /\ wire' = <<>>
    /\ UNCHANGED <<bound, queue, fact, next, consumerVars, halfVars, routed, faults>>

(* Mutant: the last event of the list is left out.                         *)
CycleShort ==
    /\ producer = "publish"
    /\ next = Len(Events)
    /\ wire = <<>>
    /\ producer' = "down"
    /\ UNCHANGED <<bound, queue, fact, next, wire, consumerVars, halfVars, routed, faults>>

(* The 30 seconds are over: conn.close(), which flushes what was sent, and *)
(* main() begins again.                                                    *)
CycleDone ==
    /\ producer = "publish"
    /\ next = Len(Events) + 1
    /\ wire = <<>>
    /\ producer' = "down"
    /\ UNCHANGED <<bound, queue, fact, next, wire, consumerVars, halfVars, routed, faults>>

-----------------------------------------------------------------------------
(* The broker.                                                             *)

(* The broker reads a message, and the exchange puts it into every queue   *)
(* with a matching key, on disk too: what a crash of the broker catches    *)
(* before that counts as not read.                                         *)
Route ==
    /\ wire # <<>>
    /\ LET id == Head(wire)
       IN  /\ queue' = [q \in Queues |->
                          IF q \in bound /\ Events[fact[id]] \in Bindings(q)
                          THEN Append(queue[q], id) ELSE queue[q]]
           /\ routed' = routed \cup {id}
    /\ wire' = Tail(wire)
    /\ UNCHANGED <<bound, producerVars, consumerVars, halfVars, faults>>

(* The first message of a queue that no connection holds unacknowledged.   *)
FirstFree(q, id) ==
    LET taken == {held[q]} \cup (IF linked[q] THEN {msg[q]} ELSE {})
    IN  \E i \in DOMAIN queue[q] :
            /\ queue[q][i] = id /\ id \notin taken
            /\ \A j \in 1 .. i - 1 : queue[q][j] \in taken

(* Mutant: auto_ack, which acknowledges what is sent.                      *)
DeliverAutoAck(q) ==
    /\ consumer[q] = "ready" /\ linked[q]
    /\ consumer' = [consumer EXCEPT ![q] = "busy"]
    /\ \E i \in DOMAIN queue[q] :
          /\ FirstFree(q, queue[q][i])
          /\ msg' = [msg EXCEPT ![q] = queue[q][i]]
          /\ queue' = [queue EXCEPT ![q] = RemoveAt(@, i)]
    /\ UNCHANGED <<bound, producerVars, wire, linked, handled, halfVars, routed, faults>>

(* prefetch_count=1: the next message goes out when none is unacknowledged. *)
Deliver(q) ==
    /\ consumer[q] = "ready" /\ linked[q]
    /\ consumer' = [consumer EXCEPT ![q] = "busy"]
    /\ \E id \in Ids : FirstFree(q, id) /\ msg' = [msg EXCEPT ![q] = id]
    /\ UNCHANGED <<bound, queue, producerVars, wire, linked, handled, halfVars, routed, faults>>

(* A half-open connection is as good as any until it is found dead.        *)
DeliverToHalfOpen(q) ==
    /\ half[q] /\ held[q] = 0
    /\ \E id \in Ids :
          /\ FirstFree(q, id)
          /\ held' = [held EXCEPT ![q] = id]
          /\ strayed' = [strayed EXCEPT ![q] = @ \cup {id}]
    /\ UNCHANGED <<bound, queue, producerVars, wire, consumerVars, half, routed, faults>>

(* Its heartbeats are missed: its message is to be delivered again, at its *)
(* old place.                                                              *)
HeartbeatMissed(q) ==
    /\ half[q]
    /\ half' = [half EXCEPT ![q] = FALSE]
    /\ held' = [held EXCEPT ![q] = 0]
    /\ UNCHANGED <<bound, queue, producerVars, wire, consumerVars, strayed, routed, faults>>

-----------------------------------------------------------------------------
(* A consumer.                                                             *)

(* main: queue_declare, basic_qos, basic_consume.                          *)
ConsumerConnect(q) ==
    /\ consumer[q] = "down"
    /\ consumer' = [consumer EXCEPT ![q] = "ready"]
    /\ linked' = [linked EXCEPT ![q] = TRUE]
    /\ UNCHANGED <<bound, queue, producerVars, wire, msg, handled, halfVars, routed, faults>>

(* on_message up to the acknowledgement.                                   *)
HandleMessage(q) ==
    /\ consumer[q] = "busy"
    /\ handled' = IF Events[fact[msg[q]]] \in Handlers(q)
                  THEN [handled EXCEPT ![q] = Append(@, msg[q])] ELSE handled
    /\ consumer' = [consumer EXCEPT ![q] = "done"]
    /\ UNCHANGED <<bound, queue, producerVars, wire, msg, linked, halfVars, routed, faults>>

(* Mutant: basic_nack, which gives the message back to the queue.          *)
Nack(q) ==
    /\ consumer[q] = "done" /\ linked[q]
    /\ msg' = [msg EXCEPT ![q] = 0]
    /\ consumer' = [consumer EXCEPT ![q] = "ready"]
    /\ UNCHANGED <<bound, queue, producerVars, wire, linked, handled, halfVars, routed, faults>>

Ack(q) ==
    /\ consumer[q] = "done" /\ linked[q]
    /\ \E i \in DOMAIN queue[q] :
          queue[q][i] = msg[q] /\ queue' = [queue EXCEPT ![q] = RemoveAt(@, i)]
    /\ msg' = [msg EXCEPT ![q] = 0]
    /\ consumer' = [consumer EXCEPT ![q] = "ready"]
    /\ UNCHANGED <<bound, producerVars, wire, linked, handled, halfVars, routed, faults>>

(* The consumer finds its connection lost, when it acknowledges or waits   *)
(* for messages: AMQPConnectionError, and main() is tried again.           *)
ConsumerRetry(q) ==
    /\ consumer[q] \in {"ready", "done"} /\ ~linked[q]
    /\ consumer' = [consumer EXCEPT ![q] = "down"]
    /\ msg' = [msg EXCEPT ![q] = 0]
    /\ UNCHANGED <<bound, queue, producerVars, wire, linked, handled, halfVars, routed, faults>>

-----------------------------------------------------------------------------
(* Failures.                                                               *)

Fault == faults < MaxFaults /\ faults' = faults + 1

(* The broker notices that a connection is gone, so that its message will  *)
(* be delivered again at its old place, or it keeps the connection.        *)
Unlink(q) ==
    /\ linked' = [linked EXCEPT ![q] = FALSE]
    /\ \/ UNCHANGED halfVars
       \/ /\ linked[q] /\ ~half[q]
          /\ half' = [half EXCEPT ![q] = TRUE]
          /\ held' = [held EXCEPT ![q] = msg[q]]
          /\ strayed' = [strayed EXCEPT ![q] = @ \cup ({msg[q]} \ {0})]

(* Mutant: the message of a lost consumer goes to the end of the queue.    *)
ConsumerLinkLostRequeue(q) ==
    /\ Fault
    /\ linked[q]
    /\ Unlink(q)
    /\ queue' = [queue EXCEPT ![q] = SelectSeq(@, LAMBDA id : id # msg[q])
                                       \o SelectSeq(@, LAMBDA id : id = msg[q])]
    /\ UNCHANGED <<bound, producerVars, wire, consumer, msg, handled, routed>>

ConsumerLinkLost(q) ==
    /\ Fault
    /\ linked[q]
    /\ Unlink(q)
    /\ UNCHANGED <<bound, queue, producerVars, wire, consumer, msg, handled, routed>>

(* The consumer's process dies and docker-compose starts it again.         *)
ConsumerDies(q) ==
    /\ Fault
    /\ consumer[q] # "down"
    /\ Unlink(q)
    /\ consumer' = [consumer EXCEPT ![q] = "down"]
    /\ msg' = [msg EXCEPT ![q] = 0]
    /\ UNCHANGED <<bound, queue, producerVars, wire, handled, routed>>

(* The producer's connection is lost, or its process dies: what the broker *)
(* has not read is gone, and main() begins again.                          *)
ProducerLost ==
    /\ Fault
    /\ producer # "down"
    /\ producer' = "down"
    /\ wire' = <<>>
    /\ UNCHANGED <<bound, queue, fact, next, consumerVars, halfVars, routed>>

(* The broker restarts: every connection is lost, with what it has not     *)
(* read; the exchange, the queues (durable) and their messages             *)
(* (delivery_mode 2) are kept.                                             *)
BrokerRestart ==
    /\ Fault
    /\ linked' = [q \in Queues |-> FALSE]
    /\ half' = [q \in Queues |-> FALSE]
    /\ held' = [q \in Queues |-> 0]
    /\ producer' = "down"
    /\ wire' = <<>>
    /\ UNCHANGED <<bound, queue, fact, next, consumer, msg, handled, strayed, routed>>

-----------------------------------------------------------------------------

Consume(q) == Deliver(q) \/ ConsumerConnect(q) \/ HandleMessage(q) \/ Ack(q) \/ ConsumerRetry(q)

(* All is published that MaxIds allows, and consumed.                      *)
Done ==
    /\ Len(fact) = MaxIds /\ wire = <<>>
    /\ \A q \in Queues : queue[q] = <<>> /\ consumer[q] = "ready" /\ linked[q]
    /\ UNCHANGED vars

Next ==
    \/ ProducerConnect \/ SetupDone \/ Publish \/ CycleDone \/ Route
    \/ \E q \in Queues : \/ SetupQueue(q) \/ Consume(q)
                         \/ DeliverToHalfOpen(q) \/ HeartbeatMissed(q)
                         \/ ConsumerLinkLost(q) \/ ConsumerDies(q)
    \/ ProducerLost \/ BrokerRestart \/ Done

Spec == Init /\ [][Next]_vars

(* Processes and the broker go on; both scripts retry for ever, and the    *)
(* broker looks for missed heartbeats.                                     *)
FairSpec ==
    /\ Spec
    /\ WF_vars(Route)
    /\ \A q \in Queues : WF_vars(Consume(q)) /\ WF_vars(HeartbeatMissed(q))

-----------------------------------------------------------------------------
(* Properties.                                                             *)

TypeOK ==
    /\ bound \subseteq Queues
    /\ fact \in Seq(DOMAIN Events) /\ Len(fact) <= MaxIds
    /\ queue \in [Queues -> Seq(Ids)]
    /\ producer \in {"down", "setup", "publish"}
    /\ next \in 1 .. Len(Events) + 1
    /\ wire \in Seq(Ids)
    /\ consumer \in [Queues -> {"down", "ready", "busy", "done"}]
    /\ msg \in [Queues -> Ids \cup {0}]
    /\ linked \in [Queues -> BOOLEAN]
    /\ half \in [Queues -> BOOLEAN]
    /\ held \in [Queues -> Ids \cup {0}]
    /\ handled \in [Queues -> Seq(Ids)]
    /\ strayed \in [Queues -> SUBSET Ids]
    /\ routed \subseteq Ids
    /\ faults \in 0 .. MaxFaults

(* A message the broker has read is, for every queue it is meant for, in   *)
(* that queue or was handled, whatever connections and processes are lost  *)
(* (producer.py:79-94, consumer.py:12-62).                                 *)
RoutedIsKept ==
    \A id \in routed, q \in Queues :
        Events[fact[id]] \in Bindings(q) => id \in Range(queue[q]) \cup Range(handled[q])

(* Each handler takes messages in the order in which they were published,  *)
(* but for repeating the last one and for those a half-open connection     *)
(* held (consumer.py:68, event_driven_design.md:141).                      *)
HandledInOrder ==
    \A q \in Queues : \A i, j \in DOMAIN handled[q] :
        i < j /\ handled[q][i] > handled[q][j] => handled[q][j] \in strayed[q]

(* A handler runs again for a message it has handled only because a        *)
(* connection, a process or the broker failed: each failure costs a queue  *)
(* one repetition at most (consumer.py:45-62).                             *)
RepeatsNeedFaults ==
    \A q \in Queues : Len(handled[q]) <= Cardinality(Range(handled[q])) + faults

(* The cycle of the producer a message belongs to, named by the number of  *)
(* messages published before it.                                           *)
Cycle(id) == id - fact[id]

(* What the producer loses without knowing is the end of a cycle: of the   *)
(* messages of one connection the broker has read a beginning              *)
(* (producer.py:108).                                                      *)
LossIsTheEnd ==
    \A a \in Ids, b \in routed : a < b /\ Cycle(a) = Cycle(b) => a \in routed

LostCycles == {Cycle(id) : id \in Ids \ (routed \cup Range(wire))}

(* Each failure costs the messages of one cycle at most; the end of a      *)
(* cycle costs none (producer.py:132).                                     *)
LossNeedsAFault == Cardinality(LostCycles) <= faults

(* The facts of the list are published equally often but for the cycles    *)
(* that failed (producer.py:139-142) and the one that is on.               *)
Published(i) == Cardinality({id \in Ids : fact[id] = i})

RepublishedByFaults ==
    \A i, j \in DOMAIN Events :
        i < j => Published(i) - Published(j) \in 0 .. faults + (IF producer = "publish" THEN 1 ELSE 0)

(* Every message sent has reached the broker or is still under way: the    *)
(* delivery that a message is said to be certain of                        *)
(* (event_driven_design.md:185), for the broker confirms what it gets      *)
(* (event_driven_design.md:191).                                           *)
SentIsKept == Ids \subseteq routed \cup Range(wire)

(* From the broker on it is delivery at least once: whatever fails, each   *)
(* step of the bus is one that Delivery allows.  So what the broker has    *)
(* read is kept for each consumer that has an entry for it in HANDLERS     *)
(* until its handler has run, and no handler runs for what was             *)
(* acknowledged (consumer.py:45-62, producer.py:79-94).  Of what is sent   *)
(* and not read it promises nothing, unlike event_driven_design.md:185.    *)
Owed == [q \in Queues |-> Range(queue[q])]

Delivered == INSTANCE Delivery WITH
    Facts <- DOMAIN Events,
    Wanted <- {p \in Queues \X DOMAIN Events : Events[p[2]] \in Handlers(p[1])},
    accepted <- routed,
    owed <- Owed

ImplementsDelivery == Delivered!Spec

(* A message that is in a queue is handled in the end.                     *)
QueuedIsHandled ==
    \A q \in Queues : \A id \in 1 .. MaxIds :
        id \in Range(queue[q]) ~> id \in Range(handled[q])
=============================================================================
