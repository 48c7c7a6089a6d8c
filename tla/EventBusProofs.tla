-------------------------- MODULE EventBusProofs --------------------------
(***************************************************************************)
(* Proofs about EventBus, for any list of events, any number of messages   *)
(* and any number of failures.                                             *)
(***************************************************************************)
EXTENDS EventBus, FiniteSetTheorems, SequenceTheorems, TLAPS

(***************************************************************************)
(* Sequences of ids.                                                       *)
(***************************************************************************)
Increasing(s) == \A i, j \in DOMAIN s : i < j => s[i] < s[j]

(* Appending an element puts it into the range.                            *)
LEMMA AppendRange ==
    ASSUME NEW S, NEW s \in Seq(S), NEW x \in S
    PROVE  /\ Append(s, x) \in Seq(S)
           /\ Range(Append(s, x)) = Range(s) \cup {x}
           /\ Len(Append(s, x)) = Len(s) + 1
<1>1. /\ Append(s, x) \in Seq(S)
      /\ DOMAIN Append(s, x) = 1 .. Len(s) + 1
      /\ \A i \in 1 .. Len(s) : Append(s, x)[i] = s[i]
      /\ Append(s, x)[Len(s) + 1] = x
      /\ DOMAIN s = 1 .. Len(s) /\ Len(s) \in Nat
  OBVIOUS
<1>2. ASSUME NEW y \in Range(Append(s, x)) PROVE y \in Range(s) \cup {x}
  BY <1>1 DEF Range
<1>3. ASSUME NEW y \in Range(s) PROVE y \in Range(Append(s, x))
  BY <1>1 DEF Range
<1>4. x \in Range(Append(s, x))
  <2>1. Len(s) + 1 \in 1 .. Len(s) + 1
    BY <1>1
  <2>2. QED
    BY <1>1, <2>1 DEF Range
<1>5. QED
  BY <1>1, <1>2, <1>3, <1>4

(* The range of a sequence is finite.                                      *)
LEMMA RangeFinite ==
    ASSUME NEW S, NEW s \in Seq(S)
    PROVE  /\ IsFiniteSet(Range(s))
           /\ Range(s) \subseteq S
           /\ Cardinality(Range(s)) \in Nat
<1>1. DOMAIN s = 1 .. Len(s) /\ Len(s) \in Nat /\ \A i \in DOMAIN s : s[i] \in S
  OBVIOUS
<1>2. IsFiniteSet(DOMAIN s)
  BY <1>1, FS_Interval
<1>3. s \in Surjection(DOMAIN s, Range(s))
  BY <1>1 DEF Surjection, Range
<1>4. QED
  BY <1>1, <1>2, <1>3, FS_Surjection, FS_CardinalityType DEF Range

(* RemoveAt takes one element out of an increasing sequence.               *)
LEMMA RemoveAtRange ==
    ASSUME NEW s \in Seq(Nat), Increasing(s), NEW k \in DOMAIN s
    PROVE  /\ RemoveAt(s, k) \in Seq(Nat)
           /\ Increasing(RemoveAt(s, k))
           /\ Range(RemoveAt(s, k)) = Range(s) \ {s[k]}
<1> DEFINE r == RemoveAt(s, k)
<1>1. /\ DOMAIN s = 1 .. Len(s) /\ Len(s) \in Nat /\ k \in 1 .. Len(s)
      /\ \A i \in 1 .. Len(s) : s[i] \in Nat
  OBVIOUS
<1>2. /\ r \in Seq(Nat)
      /\ Len(r) = Len(s) - 1
      /\ \A i \in 1 .. Len(s) - 1 : r[i] = IF i < k THEN s[i] ELSE s[i + 1]
  <2> DEFINE a == SubSeq(s, 1, k - 1)
  <2> DEFINE b == SubSeq(s, k + 1, Len(s))
  <2>1. a \in Seq(Nat) /\ Len(a) = k - 1 /\ \A i \in 1 .. k - 1 : a[i] = s[i]
    BY <1>1
  <2>2. b \in Seq(Nat) /\ Len(b) = Len(s) - k /\ \A i \in 1 .. Len(s) - k : b[i] = s[i + k]
    <3>1. b \in Seq(Nat) /\ Len(b) = Len(s) - k
      BY <1>1
    <3>2. \A i \in 1 .. Len(s) - k : b[i] = s[k + 1 + i - 1]
      BY <1>1, SMTT(20)
    <3>3. \A i \in 1 .. Len(s) - k : k + 1 + i - 1 = i + k
      BY <1>1
    <3>4. QED
      BY <3>1, <3>2, <3>3
  <2>3. r = a \o b
    BY DEF RemoveAt
  <2> HIDE DEF r, a, b
  <2>4. /\ a \o b \in Seq(Nat)
        /\ Len(a \o b) = Len(s) - 1
        /\ \A i \in 1 .. Len(s) - 1 : (a \o b)[i] = IF i < k THEN a[i] ELSE b[i - k + 1]
    <3>0. /\ a \o b \in Seq(Nat)
          /\ Len(a \o b) = Len(a) + Len(b)
          /\ \A i \in 1 .. Len(a) + Len(b) :
                (a \o b)[i] = IF i <= Len(a) THEN a[i] ELSE b[i - Len(a)]
      BY <2>1, <2>2, ConcatProperties, Zenon
    <3>1. a \o b \in Seq(Nat) /\ Len(a \o b) = Len(s) - 1 /\ Len(a) + Len(b) = Len(s) - 1
      BY <1>1, <2>1, <2>2, <3>0
    <3>2. ASSUME NEW i \in 1 .. Len(s) - 1
          PROVE  (a \o b)[i] = IF i < k THEN a[i] ELSE b[i - k + 1]
      <4>1. (a \o b)[i] = IF i <= Len(a) THEN a[i] ELSE b[i - Len(a)]
        BY <3>0, <3>1
      <4>2. i - (k - 1) = i - k + 1 /\ (i <= k - 1 <=> i < k)
        BY <1>1
      <4>3. QED
        BY <2>1, <4>1, <4>2
    <3>3. QED
      BY <3>1, <3>2
  <2>5. ASSUME NEW i \in 1 .. Len(s) - 1
        PROVE  (a \o b)[i] = IF i < k THEN s[i] ELSE s[i + 1]
    <3>1. CASE i < k
      BY <1>1, <2>1, <2>4, <3>1
    <3>2. CASE ~(i < k)
      <4>1. i - k + 1 \in 1 .. Len(s) - k /\ (i - k + 1) + k = i + 1
        BY <1>1, <3>2
      <4>2. QED
        BY <1>1, <2>2, <2>4, <3>2, <4>1
    <3>3. QED
      BY <3>1, <3>2
  <2>6. QED
    BY <2>3, <2>4, <2>5
<1>3. DOMAIN r = 1 .. Len(s) - 1
  BY <1>1, <1>2
<1> HIDE DEF r
<1>4. Increasing(r)
  <2> SUFFICES ASSUME NEW i \in 1 .. Len(s) - 1, NEW j \in 1 .. Len(s) - 1, i < j
               PROVE  r[i] < r[j]
    BY <1>3 DEF Increasing
  <2>1. CASE j < k
    <3>1. i < k /\ i \in DOMAIN s /\ j \in DOMAIN s
      BY <1>1, <2>1
    <3>2. r[i] = s[i] /\ r[j] = s[j]
      BY <1>2, <2>1, <3>1
    <3>3. QED
      BY <3>1, <3>2 DEF Increasing
  <2>2. CASE i < k /\ ~(j < k)
    <3>1. r[i] = s[i] /\ r[j] = s[j + 1] /\ i \in DOMAIN s /\ j + 1 \in DOMAIN s /\ i < j + 1
      BY <1>1, <1>2, <2>2
    <3>2. QED
      BY <3>1 DEF Increasing
  <2>3. CASE ~(i < k)
    <3>1. r[i] = s[i + 1] /\ r[j] = s[j + 1]
      BY <1>1, <1>2, <2>3, SMTT(20)
    <3>2. i + 1 \in DOMAIN s /\ j + 1 \in DOMAIN s /\ i + 1 < j + 1
      BY <1>1, <2>3
    <3>3. QED
      BY <3>1, <3>2 DEF Increasing
  <2>4. QED
    BY <1>1, <2>1, <2>2, <2>3
<1>5. ASSUME NEW y \in Range(r) PROVE y \in Range(s) \ {s[k]}
  <2>1. PICK i \in 1 .. Len(s) - 1 : y = r[i]
    BY <1>3, <1>5 DEF Range
  <2>2. PICK j \in 1 .. Len(s) : y = s[j] /\ j # k
    BY <1>1, <1>2, <2>1, SMTT(20)
  <2>3. s[j] # s[k]
    BY <1>1, <2>2 DEF Increasing
  <2>4. QED
    BY <1>1, <2>2, <2>3 DEF Range
<1>6. ASSUME NEW y \in Range(s) \ {s[k]} PROVE y \in Range(r)
  <2>1. PICK j \in 1 .. Len(s) : y = s[j] /\ j # k
    BY <1>1, <1>6 DEF Range
  <2>2. PICK i \in 1 .. Len(s) - 1 : r[i] = s[j]
    <3>1. CASE j < k
      <4>1. j \in 1 .. Len(s) - 1
        BY <1>1, <3>1
      <4>2. r[j] = s[j]
        BY <1>2, <3>1, <4>1
      <4>3. QED
        BY <4>1, <4>2
    <3>2. CASE j > k
      <4>1. j - 1 \in 1 .. Len(s) - 1 /\ ~(j - 1 < k) /\ (j - 1) + 1 = j
        BY <1>1, <2>1, <3>2
      <4>2. QED
        BY <1>2, <4>1
    <3>3. QED
      BY <1>1, <2>1, <3>1, <3>2
  <2>3. QED
    BY <1>3, <2>1, <2>2 DEF Range
<1>7. QED
  BY <1>2, <1>4, <1>5, <1>6 DEF r

-----------------------------------------------------------------------------
(***************************************************************************)
(* Type correctness.                                                       *)
(***************************************************************************)
BusyHasMsg == \A q \in Queues : consumer[q] \in {"busy", "done"} <=> msg[q] # 0

ConsumerStep(q) ==
    \/ Consume(q)
    \/ DeliverToHalfOpen(q) \/ HeartbeatMissed(q)
    \/ ConsumerLinkLost(q) \/ ConsumerDies(q)

LEMMA EventsType == Len(Events) \in Nat \ {0} /\ DOMAIN Events = 1 .. Len(Events)
BY EventBusAssumption

(* Only Publish adds ids.                                                  *)
LEMMA PublishGrows ==
    ASSUME TypeOK, Publish
    PROVE  /\ fact' \in Seq(DOMAIN Events)
           /\ Len(fact') = Len(fact) + 1
           /\ Len(fact') <= MaxIds
           /\ Ids = 1 .. Len(fact) /\ Ids' = 1 .. Len(fact) + 1
           /\ \A id \in Ids : fact'[id] = fact[id]
           /\ fact'[Len(fact) + 1] = next
           /\ Seq(Ids) \subseteq Seq(Ids')
<1>1. fact \in Seq(DOMAIN Events) /\ next \in DOMAIN Events /\ fact' = Append(fact, next)
      /\ Len(fact) < MaxIds
  BY DEF TypeOK, Publish
<1>2. /\ fact' \in Seq(DOMAIN Events)
      /\ Len(fact') = Len(fact) + 1
      /\ DOMAIN fact = 1 .. Len(fact) /\ DOMAIN fact' = 1 .. Len(fact) + 1
      /\ \A id \in 1 .. Len(fact) : fact'[id] = fact[id]
      /\ fact'[Len(fact) + 1] = next
  BY <1>1
<1>3. Ids \subseteq Ids'
  BY <1>1, <1>2 DEF Ids
<1>4. QED
  BY <1>1, <1>2, <1>3, EventBusAssumption DEF Ids

LEMMA UnlinkType ==
    ASSUME TypeOK, NEW q \in Queues, Unlink(q), Fault
    PROVE  /\ linked' \in [Queues -> BOOLEAN]
           /\ half' \in [Queues -> BOOLEAN]
           /\ held' \in [Queues -> Ids \cup {0}]
           /\ strayed' \in [Queues -> SUBSET Ids]
           /\ faults' \in 0 .. MaxFaults
<1>1. faults' \in 0 .. MaxFaults
  BY EventBusAssumption DEF TypeOK, Fault
<1>2. linked' \in [Queues -> BOOLEAN]
  BY Zenon DEF TypeOK, Unlink
<1>3. half' \in [Queues -> BOOLEAN]
  BY Zenon DEF TypeOK, Unlink, halfVars
<1>4. held' \in [Queues -> Ids \cup {0}]
  BY DEF TypeOK, Unlink, halfVars
<1>5. strayed' \in [Queues -> SUBSET Ids]
  <2>1. msg[q] \in Ids \cup {0} /\ strayed[q] \subseteq Ids
    BY DEF TypeOK
  <2>2. strayed[q] \cup ({msg[q]} \ {0}) \in SUBSET Ids
    BY <2>1
  <2>3. strayed' \in {strayed, [strayed EXCEPT ![q] = strayed[q] \cup ({msg[q]} \ {0})]}
    BY DEF Unlink, halfVars
  <2>4. strayed \in [Queues -> SUBSET Ids]
    BY DEF TypeOK
  <2>5. QED
    BY <2>2, <2>3, <2>4
<1>6. QED
  BY <1>1, <1>2, <1>3, <1>4, <1>5

LEMMA ConsumerStepType ==
    ASSUME TypeOK, BusyHasMsg, NEW q \in Queues, ConsumerStep(q)
    PROVE  TypeOK' /\ BusyHasMsg'
<1> USE DEF consumerVars, halfVars, producerVars, Ids
<1>1. CASE Deliver(q)
  BY <1>1 DEF Deliver, TypeOK, BusyHasMsg
<1>2. CASE ConsumerConnect(q)
  BY <1>2 DEF ConsumerConnect, TypeOK, BusyHasMsg
<1>3. CASE HandleMessage(q)
  <2>1. msg[q] \in Ids
    BY <1>3 DEF HandleMessage, TypeOK, BusyHasMsg
  <2>2. Append(handled[q], msg[q]) \in Seq(Ids)
    BY <2>1, AppendProperties DEF TypeOK
  <2>3. QED
    BY <1>3, <2>2 DEF HandleMessage, TypeOK, BusyHasMsg
<1>4. CASE Ack(q)
  <2>1. ASSUME NEW i \in DOMAIN queue[q]
        PROVE  RemoveAt(queue[q], i) \in Seq(Ids)
    <3>1. queue[q] \in Seq(Ids) /\ i \in 1 .. Len(queue[q]) /\ Len(queue[q]) \in Nat
      BY DEF TypeOK
    <3>2. SubSeq(queue[q], 1, i - 1) \in Seq(Ids) /\ SubSeq(queue[q], i + 1, Len(queue[q])) \in Seq(Ids)
      BY <3>1
    <3>3. QED
      BY <3>2, ConcatProperties DEF RemoveAt
  <2>2. QED
    BY <1>4, <2>1 DEF Ack, TypeOK, BusyHasMsg
<1>5. CASE ConsumerRetry(q)
  BY <1>5 DEF ConsumerRetry, TypeOK, BusyHasMsg
<1>6. CASE DeliverToHalfOpen(q)
  BY <1>6 DEF DeliverToHalfOpen, TypeOK, BusyHasMsg
<1>7. CASE HeartbeatMissed(q)
  BY <1>7 DEF HeartbeatMissed, TypeOK, BusyHasMsg
<1>8. CASE ConsumerLinkLost(q)
  <2>1. Unlink(q) /\ Fault /\ BusyHasMsg'
    BY <1>8 DEF ConsumerLinkLost, BusyHasMsg
  <2>2. QED
    BY <1>8, <2>1, UnlinkType DEF ConsumerLinkLost, TypeOK
<1>9. CASE ConsumerDies(q)
  <2>1. Unlink(q) /\ Fault /\ BusyHasMsg'
    BY <1>9 DEF ConsumerDies, TypeOK, BusyHasMsg
  <2>2. QED
    BY <1>9, <2>1, UnlinkType DEF ConsumerDies, TypeOK
<1>10. QED
  BY <1>1, <1>2, <1>3, <1>4, <1>5, <1>6, <1>7, <1>8, <1>9 DEF ConsumerStep, Consume

THEOREM Typing == Spec => [](TypeOK /\ BusyHasMsg)
<1> USE DEF consumerVars, halfVars, producerVars
<1>1. Init => TypeOK /\ BusyHasMsg
  BY EventsType, EventBusAssumption DEF Init, TypeOK, BusyHasMsg, Ids
<1>2. TypeOK /\ BusyHasMsg /\ [Next]_vars => TypeOK' /\ BusyHasMsg'
  <2> SUFFICES ASSUME TypeOK, BusyHasMsg, [Next]_vars
               PROVE  TypeOK' /\ BusyHasMsg'
    OBVIOUS
  <2>1. CASE ProducerConnect
    BY <2>1 DEF ProducerConnect, TypeOK, BusyHasMsg, Ids
  <2>2. ASSUME NEW q \in Queues, SetupQueue(q)
        PROVE  TypeOK' /\ BusyHasMsg'
    BY <2>2 DEF SetupQueue, TypeOK, BusyHasMsg, Ids
  <2>3. CASE SetupDone
    BY <2>3, EventsType DEF SetupDone, TypeOK, BusyHasMsg, Ids
  <2>4. CASE Publish
    <3>1. wire' \in Seq(Ids')
      <4>1. wire \in Seq(Ids') /\ Len(fact) + 1 \in Ids'
        BY <2>4, PublishGrows DEF TypeOK
      <4>2. QED
        BY <2>4, <4>1, AppendProperties DEF Publish
    <3>2. next' \in 1 .. Len(Events) + 1
      BY <2>4, EventsType DEF Publish, TypeOK
    <3>3. Ids \subseteq Ids'
      BY <2>4, PublishGrows DEF TypeOK
    <3>4. BusyHasMsg'
      BY <2>4 DEF Publish, BusyHasMsg
    <3>5. /\ queue' \in [Queues -> Seq(Ids')]
          /\ handled' \in [Queues -> Seq(Ids')]
          /\ strayed' \in [Queues -> SUBSET Ids']
          /\ msg' \in [Queues -> Ids' \cup {0}]
          /\ held' \in [Queues -> Ids' \cup {0}]
          /\ routed' \subseteq Ids'
      BY <2>4, <3>3, PublishGrows DEF Publish, TypeOK
    <3>6. QED
      BY <2>4, <3>1, <3>2, <3>4, <3>5, PublishGrows DEF Publish, TypeOK
  <2>5. CASE CycleDone
    BY <2>5 DEF CycleDone, TypeOK, BusyHasMsg, Ids
  <2>6. CASE Route
    <3>1. Head(wire) \in Ids /\ Tail(wire) \in Seq(Ids)
      BY <2>6, HeadTailProperties DEF Route, TypeOK
    <3>2. \A q \in Queues : Append(queue[q], Head(wire)) \in Seq(Ids)
      BY <3>1, AppendProperties DEF TypeOK
    <3>3. Ids' = Ids
      BY <2>6 DEF Route, Ids
    <3>4. queue' \in [Queues -> Seq(Ids)]
      BY <2>6, <3>2 DEF Route, TypeOK
    <3>5. QED
      BY <2>6, <3>1, <3>3, <3>4 DEF Route, TypeOK, BusyHasMsg
  <2>7. ASSUME NEW q \in Queues, ConsumerStep(q)
        PROVE  TypeOK' /\ BusyHasMsg'
    BY <2>7, ConsumerStepType
  <2>8. CASE ProducerLost
    BY <2>8, EventBusAssumption DEF ProducerLost, Fault, TypeOK, BusyHasMsg, Ids
  <2>9. CASE BrokerRestart
    BY <2>9, EventBusAssumption DEF BrokerRestart, Fault, TypeOK, BusyHasMsg, Ids
  <2>10. CASE UNCHANGED vars
    BY <2>10 DEF vars, TypeOK, BusyHasMsg, Ids
  <2>11. QED
    BY <2>1, <2>2, <2>3, <2>4, <2>5, <2>6, <2>7, <2>8, <2>9, <2>10
    DEF Next, Done, ConsumerStep
<1>3. QED
  BY <1>1, <1>2, PTL DEF Spec

THEOREM TypeCorrect == Spec => []TypeOK
BY Typing, PTL

-----------------------------------------------------------------------------
(***************************************************************************)
(* The producer and the wire. Base is the number of messages published     *)
(* before the cycle that is on: its messages have the ids from Base + 1    *)
(* on, and their places in EVENTS follow from that. The last of them are   *)
(* on the wire, the others were read by the broker.                        *)
(***************************************************************************)
Base == Len(fact) + 1 - next

WireInv ==
    /\ Len(wire) <= Len(fact)
    /\ \A i \in DOMAIN wire : wire[i] = Len(fact) - Len(wire) + i
    /\ \A id \in routed : id <= Len(fact) - Len(wire)
    /\ producer # "publish" => wire = <<>>
    /\ producer = "publish" =>
          /\ bound = Queues
          /\ Len(wire) <= next - 1 /\ next - 1 <= Len(fact)
          /\ \A id \in Ids : id > Base => fact[id] = id - Base
          /\ \A id \in Ids : id > Base /\ id <= Len(fact) - Len(wire) => id \in routed

(* Consumers do not touch what the producer and the wire are about.        *)
LEMMA ConsumerFrame ==
    ASSUME NEW q, ConsumerStep(q)
    PROVE  UNCHANGED <<bound, fact, producer, next, wire, routed>> /\ UNCHANGED Ids
BY DEF ConsumerStep, Consume, Deliver, ConsumerConnect, HandleMessage, Ack, ConsumerRetry,
       DeliverToHalfOpen, HeartbeatMissed, ConsumerLinkLost, ConsumerDies, producerVars, Ids

LEMMA RouteTakesTheFirst ==
    ASSUME TypeOK, WireInv, Route
    PROVE  /\ Head(wire) = Len(fact) - Len(wire) + 1
           /\ Len(wire) \in Nat \ {0}
           /\ wire' \in Seq(Ids)
           /\ Len(wire') = Len(wire) - 1
           /\ \A i \in DOMAIN wire' : i + 1 \in DOMAIN wire /\ wire'[i] = wire[i + 1]
           /\ routed' = routed \cup {Head(wire)}
           /\ Head(wire) \in Ids
           /\ producer = "publish" /\ bound = Queues
<1>1. wire \in Seq(Ids) /\ wire # <<>> /\ wire' = Tail(wire) /\ routed' = routed \cup {Head(wire)}
  BY DEF TypeOK, Route
<1>2. /\ Len(wire) \in Nat \ {0} /\ DOMAIN wire = 1 .. Len(wire)
      /\ Tail(wire) \in Seq(Ids) /\ Len(Tail(wire)) = Len(wire) - 1
      /\ \A i \in 1 .. Len(wire) - 1 : Tail(wire)[i] = wire[i + 1]
      /\ Head(wire) = wire[1] /\ Head(wire) \in Ids
  BY <1>1
<1>3. DOMAIN wire' = 1 .. Len(wire) - 1
  BY <1>1, <1>2
<1>4. Head(wire) = Len(fact) - Len(wire) + 1
  BY <1>2 DEF WireInv
<1>5. QED
  BY <1>1, <1>2, <1>3, <1>4 DEF WireInv

THEOREM WireInvariant == Spec => []WireInv
<1> USE DEF consumerVars, halfVars, producerVars
<1>1. Init => WireInv
  BY DEF Init, WireInv
<1>2. TypeOK /\ WireInv /\ [Next]_vars => WireInv'
  <2> SUFFICES ASSUME TypeOK, WireInv, [Next]_vars
               PROVE  WireInv'
    OBVIOUS
  <2>0. Len(fact) \in Nat /\ next \in Nat /\ Len(wire) \in Nat /\ Ids = 1 .. Len(fact) /\ routed \subseteq Ids
    BY EventsType DEF TypeOK, Ids
  <2>1. CASE ProducerConnect
    BY <2>1 DEF ProducerConnect, WireInv
  <2>2. ASSUME NEW q \in Queues, SetupQueue(q)
        PROVE  WireInv'
    BY <2>2 DEF SetupQueue, WireInv
  <2>3. CASE SetupDone
    <3>1. wire = <<>> /\ Len(wire) = 0
      BY <2>3 DEF SetupDone, WireInv
    <3>2. Base' = Len(fact) /\ Ids' = Ids
      BY <2>0, <2>3 DEF SetupDone, Base, Ids
    <3>3. QED
      BY <2>0, <2>3, <3>1, <3>2 DEF SetupDone, WireInv
  <2>4. CASE Publish
    <3>1. /\ wire' = Append(wire, Len(fact) + 1) /\ Len(wire') = Len(wire) + 1
          /\ DOMAIN wire' = 1 .. Len(wire) + 1 /\ DOMAIN wire = 1 .. Len(wire)
          /\ \A i \in 1 .. Len(wire) : wire'[i] = wire[i]
          /\ wire'[Len(wire) + 1] = Len(fact) + 1
      BY <2>4 DEF Publish, TypeOK
    <3>2. /\ next' = next + 1 /\ Base' = Base /\ Base \in Int
          /\ producer = "publish" /\ producer' = "publish"
          /\ Len(fact') - Len(wire') = Len(fact) - Len(wire)
          /\ UNCHANGED <<bound, routed>>
      BY <2>0, <2>4, <3>1, PublishGrows DEF Publish, Base
    <3>3. \A id \in Ids' : id > Base => fact'[id] = id - Base
      <4>1. next = Len(fact) + 1 - Base
        BY <2>0 DEF Base
      <4>2. ASSUME NEW id \in Ids, id > Base PROVE fact'[id] = id - Base
        BY <2>4, <3>2, <4>2, PublishGrows DEF WireInv
      <4>3. fact'[Len(fact) + 1] = Len(fact) + 1 - Base
        BY <2>0, <2>4, <3>2, <4>1, PublishGrows
      <4>4. Ids' = Ids \cup {Len(fact) + 1}
        BY <2>0, <2>4, PublishGrows
      <4>5. \A id \in Ids \cup {Len(fact) + 1} : id > Base => fact'[id] = id - Base
        BY <2>0, <3>2, <4>2, <4>3
      <4>6. QED
        BY <4>4, <4>5, Zenon
    <3>4. \A i \in DOMAIN wire' : wire'[i] = Len(fact') - Len(wire') + i
      BY <2>0, <3>1, <3>2 DEF WireInv
    <3>5. \A id \in Ids' : id > Base /\ id <= Len(fact) - Len(wire) => id \in routed
      <4>1. ASSUME NEW id \in Ids', id <= Len(fact) - Len(wire) PROVE id \in Ids
        BY <2>0, <2>4, <4>1, PublishGrows
      <4>2. QED
        BY <3>2, <4>1 DEF WireInv
    <3>6. QED
      BY <2>0, <2>4, <3>1, <3>2, <3>3, <3>4, <3>5, PublishGrows DEF WireInv
  <2>5. CASE CycleDone
    BY <2>5 DEF CycleDone, WireInv
  <2>6. CASE Route
    <3>1. UNCHANGED <<fact, next, producer, bound>> /\ Base' = Base /\ Ids' = Ids /\ Base \in Int
      BY <2>0, <2>6 DEF Route, Base, Ids
    <3>2. \A i \in DOMAIN wire' : wire'[i] = Len(fact) - Len(wire') + i
      <4> TAKE i \in DOMAIN wire'
      <4>1. i + 1 \in DOMAIN wire /\ wire'[i] = wire[i + 1] /\ Len(wire') = Len(wire) - 1 /\ i \in Nat
        BY <2>6, RouteTakesTheFirst
      <4>2. wire[i + 1] = Len(fact) - Len(wire) + (i + 1)
        BY <4>1 DEF WireInv
      <4>3. QED
        BY <2>0, <4>1, <4>2
    <3>3. \A id \in routed' : id <= Len(fact) - Len(wire')
      <4>1. /\ routed' = routed \cup {Len(fact) - Len(wire) + 1}
            /\ Len(fact) - Len(wire') = Len(fact) - Len(wire) + 1
        <5>1. routed' = routed \cup {Head(wire)} /\ Head(wire) = Len(fact) - Len(wire) + 1
          BY <2>6, RouteTakesTheFirst
        <5>2. Len(wire') = Len(wire) - 1
          BY <2>6, RouteTakesTheFirst
        <5>3. QED
          BY <2>0, <5>1, <5>2
      <4>2. \A id \in routed : id \in Nat /\ id <= Len(fact) - Len(wire)
        BY <2>0 DEF WireInv
      <4>3. QED
        BY <2>0, <4>1, <4>2
    <3>4. \A id \in Ids : id > Base /\ id <= Len(fact) - Len(wire') => id \in routed'
      <4>1. /\ routed' = routed \cup {Len(fact) - Len(wire) + 1}
            /\ Len(fact) - Len(wire') = Len(fact) - Len(wire) + 1
        <5>1. routed' = routed \cup {Head(wire)} /\ Head(wire) = Len(fact) - Len(wire) + 1
          BY <2>6, RouteTakesTheFirst
        <5>2. Len(wire') = Len(wire) - 1
          BY <2>6, RouteTakesTheFirst
        <5>3. QED
          BY <2>0, <5>1, <5>2
      <4>2. \A id \in Ids : id > Base /\ id <= Len(fact) - Len(wire) => id \in routed
        <5>1. wire # <<>>
          BY <2>6, RouteTakesTheFirst
        <5>2. QED
          BY <2>0, <5>1 DEF WireInv
      <4>3. QED
        BY <2>0, <4>1, <4>2 DEF Ids
    <3>5. QED
      BY <2>0, <2>6, <3>1, <3>2, <3>3, <3>4, RouteTakesTheFirst DEF WireInv
  <2>7. ASSUME NEW q \in Queues, ConsumerStep(q)
        PROVE  WireInv'
    BY <2>7, ConsumerFrame DEF WireInv, Base
  <2>8. CASE ProducerLost
    BY <2>0, <2>8 DEF ProducerLost, WireInv
  <2>9. CASE BrokerRestart
    BY <2>0, <2>9 DEF BrokerRestart, WireInv
  <2>10. CASE UNCHANGED vars
    BY <2>10 DEF vars, WireInv, Base, Ids
  <2>11. QED
    BY <2>1, <2>2, <2>3, <2>4, <2>5, <2>6, <2>7, <2>8, <2>9, <2>10
    DEF Next, Done, ConsumerStep
<1>3. QED
  BY <1>1, <1>2, TypeCorrect, PTL DEF Spec

-----------------------------------------------------------------------------
(***************************************************************************)
(* The queues hold, in order, ids the broker has read, for which there are *)
(* handlers; a message given to a consumer stays in its queue until it is  *)
(* acknowledged, which is after its handler has run. The messages in a     *)
(* queue come after all that were handled or are being handled, but for    *)
(* those a half-open connection held.                                      *)
(***************************************************************************)
QueueOK(q) ==
    /\ Increasing(queue[q])
    /\ \A id \in Range(queue[q]) : id \in routed /\ Events[fact[id]] \in Bindings(q)
    /\ Range(handled[q]) \subseteq routed
    /\ msg[q] # 0 => msg[q] \in Range(queue[q])
    /\ consumer[q] = "done" => msg[q] \in Range(handled[q])
    /\ held[q] # 0 => held[q] \in strayed[q]
    /\ \A id \in Range(queue[q]) \ strayed[q] :
          /\ \A h \in Range(handled[q]) : h <= id
          /\ msg[q] # 0 => msg[q] <= id
    /\ \A i, j \in DOMAIN handled[q] :
          i < j /\ handled[q][i] > handled[q][j] => handled[q][j] \in strayed[q]

QueueInv == RoutedIsKept /\ \A q \in Queues : QueueOK(q)

(* Every event bound to a queue has a handler there.                       *)
LEMMA BoundIsHandled == \A q \in Queues : Bindings(q) = Handlers(q)
BY EventBusAssumption DEF Bindings, Handlers

(* What a consumer is given has been passed over by nothing that is before *)
(* it in the queue, but for what a half-open connection holds.             *)
LEMMA FirstFreeIsLeast ==
    ASSUME TypeOK, NEW q \in Queues, QueueOK(q), NEW id \in Ids,
           FirstFree(q, id), msg[q] = 0
    PROVE  /\ id \in Range(queue[q])
           /\ \A x \in Range(queue[q]) \ strayed[q] : id <= x
<1>1. PICK i \in DOMAIN queue[q] :
          /\ queue[q][i] = id
          /\ \A j \in 1 .. i - 1 : queue[q][j] \in {held[q], 0}
  BY Zenon DEF FirstFree
<1>2. /\ queue[q] \in Seq(Ids) /\ DOMAIN queue[q] = 1 .. Len(queue[q]) /\ Len(queue[q]) \in Nat
      /\ Ids = 1 .. Len(fact) /\ Len(fact) \in Nat
  BY DEF TypeOK, Ids
<1>3. ASSUME NEW x \in Range(queue[q]) \ strayed[q] PROVE id <= x
  <2>1. PICK k \in DOMAIN queue[q] : x = queue[q][k]
    BY <1>3 DEF Range
  <2>2. x \in Ids /\ x # 0
    BY <1>2, <2>1
  <2>3. x # held[q]
    BY <2>2, <1>3 DEF QueueOK
  <2>4. ~(k \in 1 .. i - 1)
    BY <1>1, <2>1, <2>2, <2>3
  <2>5. k = i \/ i < k
    BY <1>2, <2>4
  <2>6. QED
    BY <1>1, <1>2, <2>1, <2>2, <2>5 DEF QueueOK, Increasing
<1>4. QED
  BY <1>1, <1>3 DEF Range

(* A step of one consumer leaves the queues of the others alone.           *)
LEMMA OtherQueues ==
    ASSUME TypeOK, NEW q \in Queues, ConsumerStep(q), NEW p \in Queues, p # q
    PROVE  /\ queue'[p] = queue[p] /\ consumer'[p] = consumer[p] /\ msg'[p] = msg[p]
           /\ linked'[p] = linked[p] /\ handled'[p] = handled[p]
           /\ held'[p] = held[p] /\ strayed'[p] = strayed[p]
<1> USE DEF TypeOK, halfVars, consumerVars
<1>1. CASE Deliver(q)
  BY <1>1 DEF Deliver
<1>2. CASE ConsumerConnect(q)
  BY <1>2 DEF ConsumerConnect
<1>3. CASE HandleMessage(q)
  BY <1>3 DEF HandleMessage
<1>4. CASE Ack(q)
  BY <1>4 DEF Ack
<1>5. CASE ConsumerRetry(q)
  BY <1>5 DEF ConsumerRetry
<1>6. CASE DeliverToHalfOpen(q)
  BY <1>6 DEF DeliverToHalfOpen
<1>7. CASE HeartbeatMissed(q)
  BY <1>7 DEF HeartbeatMissed
<1>8. Unlink(q) => linked'[p] = linked[p] /\ held'[p] = held[p] /\ strayed'[p] = strayed[p]
  BY DEF Unlink
<1>9. CASE ConsumerLinkLost(q)
  BY <1>8, <1>9 DEF ConsumerLinkLost
<1>10. CASE ConsumerDies(q)
  BY <1>8, <1>10 DEF ConsumerDies
<1>11. QED
  BY <1>1, <1>2, <1>3, <1>4, <1>5, <1>6, <1>7, <1>9, <1>10 DEF ConsumerStep, Consume

LEMMA UnlinkKeeps ==
    ASSUME TypeOK, BusyHasMsg, NEW q \in Queues, Unlink(q), held[q] # 0 => held[q] \in strayed[q]
    PROVE  /\ held'[q] # 0 => held'[q] \in strayed'[q]
           /\ strayed[q] \subseteq strayed'[q]
BY DEF TypeOK, Unlink, halfVars

LEMMA ConsumerStepKeepsQueue ==
    ASSUME TypeOK, TypeOK', BusyHasMsg, NEW q \in Queues, ConsumerStep(q), QueueOK(q)
    PROVE  /\ QueueOK(q)'
           /\ Range(queue[q]) \cup Range(handled[q]) \subseteq Range(queue'[q]) \cup Range(handled'[q])
<1> USE DEF halfVars
<1>0. UNCHANGED <<fact, routed>> /\ Ids = 1 .. Len(fact) /\ Len(fact) \in Nat
  BY ConsumerFrame DEF TypeOK, Ids
<1>1. CASE Deliver(q)
  <2>1. PICK id \in Ids : FirstFree(q, id) /\ msg' = [msg EXCEPT ![q] = id]
    BY <1>1 DEF Deliver
  <2>2. msg[q] = 0 /\ msg'[q] = id /\ consumer'[q] = "busy"
        /\ UNCHANGED <<queue, handled, held, strayed>>
    BY <1>1, <2>1 DEF Deliver, BusyHasMsg, TypeOK
  <2>3. QED
    BY <1>0, <2>1, <2>2, FirstFreeIsLeast DEF QueueOK
<1>2. CASE ConsumerConnect(q)
  <2>1. consumer'[q] = "ready" /\ UNCHANGED <<queue, handled, held, strayed, msg>>
    BY <1>2 DEF ConsumerConnect, TypeOK
  <2>2. QED
    BY <1>0, <2>1 DEF QueueOK
<1>3. CASE HandleMessage(q)
  <2>1. msg[q] \in Range(queue[q]) /\ msg[q] # 0
    BY <1>3 DEF HandleMessage, BusyHasMsg, QueueOK
  <2>2. /\ handled'[q] = Append(handled[q], msg[q])
        /\ UNCHANGED <<queue, held, strayed, msg>>
        /\ handled[q] \in Seq(Ids) /\ msg[q] \in Ids
    BY <1>3, <2>1, BoundIsHandled DEF HandleMessage, QueueOK, TypeOK
  <2>3. Range(handled'[q]) = Range(handled[q]) \cup {msg[q]}
    BY <2>2, AppendRange
  <2>4. ASSUME NEW i \in DOMAIN handled'[q], NEW j \in DOMAIN handled'[q],
               i < j, handled'[q][i] > handled'[q][j]
        PROVE  handled'[q][j] \in strayed[q]
    <3>1. /\ DOMAIN handled[q] = 1 .. Len(handled[q]) /\ Len(handled[q]) \in Nat
          /\ DOMAIN handled'[q] = 1 .. Len(handled[q]) + 1
          /\ \A k \in 1 .. Len(handled[q]) : handled'[q][k] = handled[q][k]
          /\ handled'[q][Len(handled[q]) + 1] = msg[q]
      BY <2>2
    <3>2. i \in DOMAIN handled[q] /\ handled'[q][i] = handled[q][i]
      BY <2>4, <3>1
    <3>3. CASE j \in DOMAIN handled[q]
      BY <2>4, <3>1, <3>2, <3>3 DEF QueueOK
    <3>4. CASE j = Len(handled[q]) + 1
      <4>1. handled[q][i] \in Range(handled[q]) /\ handled[q][i] > msg[q]
            /\ handled[q][i] \in Ids
        BY <2>2, <2>4, <3>1, <3>2, <3>4 DEF Range
      <4>2. msg[q] \in strayed[q]
        BY <1>0, <2>1, <2>2, <4>1 DEF QueueOK
      <4>3. QED
        BY <3>1, <3>4, <4>2
    <3>5. QED
      BY <2>4, <3>1, <3>3, <3>4
  <2>5. \A id \in Range(queue[q]) \ strayed[q] :
          /\ \A h \in Range(handled'[q]) : h <= id
          /\ msg[q] <= id
    BY <2>1, <2>3 DEF QueueOK
  <2>6. QED
    BY <1>0, <2>1, <2>2, <2>3, <2>4, <2>5 DEF QueueOK
<1>4. CASE Ack(q)
  <2>1. PICK i \in DOMAIN queue[q] : queue[q][i] = msg[q] /\ queue'[q] = RemoveAt(queue[q], i)
    BY <1>4 DEF Ack, TypeOK
  <2>2. /\ msg'[q] = 0 /\ consumer'[q] = "ready" /\ consumer[q] = "done"
        /\ UNCHANGED <<handled, held, strayed>>
    BY <1>4 DEF Ack, TypeOK
  <2>3. queue[q] \in Seq(Nat) /\ Increasing(queue[q])
    BY <1>0 DEF TypeOK, QueueOK
  <2>4. Increasing(queue'[q]) /\ Range(queue'[q]) = Range(queue[q]) \ {msg[q]}
    BY <2>1, <2>3, RemoveAtRange
  <2>5. QED
    BY <1>0, <2>2, <2>4 DEF QueueOK
<1>5. CASE ConsumerRetry(q)
  <2>1. consumer'[q] = "down" /\ msg'[q] = 0 /\ UNCHANGED <<queue, handled, held, strayed>>
    BY <1>5 DEF ConsumerRetry, TypeOK
  <2>2. QED
    BY <1>0, <2>1 DEF QueueOK
<1>6. CASE DeliverToHalfOpen(q)
  <2>1. /\ UNCHANGED <<queue, handled, consumer, msg>>
        /\ held'[q] \in strayed'[q] /\ strayed[q] \subseteq strayed'[q]
    BY <1>6 DEF DeliverToHalfOpen, TypeOK, consumerVars
  <2>2. QED
    BY <1>0, <2>1 DEF QueueOK
<1>7. CASE HeartbeatMissed(q)
  <2>1. UNCHANGED <<queue, handled, consumer, msg, strayed>> /\ held'[q] = 0
    BY <1>7 DEF HeartbeatMissed, TypeOK, consumerVars
  <2>2. QED
    BY <1>0, <2>1 DEF QueueOK
<1>8. CASE ConsumerLinkLost(q)
  <2>1. /\ UNCHANGED <<queue, handled, consumer, msg>>
        /\ held'[q] # 0 => held'[q] \in strayed'[q]
        /\ strayed[q] \subseteq strayed'[q]
    BY <1>8, UnlinkKeeps DEF ConsumerLinkLost, QueueOK
  <2>2. QED
    BY <1>0, <2>1 DEF QueueOK
<1>9. CASE ConsumerDies(q)
  <2>1. /\ UNCHANGED <<queue, handled>> /\ consumer'[q] = "down" /\ msg'[q] = 0
        /\ held'[q] # 0 => held'[q] \in strayed'[q]
        /\ strayed[q] \subseteq strayed'[q]
    BY <1>9, UnlinkKeeps DEF ConsumerDies, QueueOK, TypeOK
  <2>2. QED
    BY <1>0, <2>1 DEF QueueOK
<1>10. QED
  BY <1>1, <1>2, <1>3, <1>4, <1>5, <1>6, <1>7, <1>8, <1>9 DEF ConsumerStep, Consume

LEMMA RouteKeepsQueues ==
    ASSUME TypeOK, TypeOK', WireInv, QueueInv, Route
    PROVE  QueueInv'
<1> DEFINE new == Head(wire)
<1>1. /\ new = Len(fact) - Len(wire) + 1 /\ new \in Ids
      /\ routed' = routed \cup {new} /\ \A id \in routed : id < new
      /\ bound = Queues
  <2>1. \A id \in routed : id \in Nat /\ id <= Len(fact) - Len(wire)
    BY DEF TypeOK, WireInv, Ids
  <2>2. Len(fact) \in Nat /\ Len(wire) \in Nat
    BY DEF TypeOK
  <2>3. QED
    BY <2>1, <2>2, RouteTakesTheFirst
<1>2. /\ UNCHANGED <<fact, consumer, msg, handled, held, strayed>>
      /\ \A q \in Queues : queue'[q] = IF Events[fact[new]] \in Bindings(q)
                                        THEN Append(queue[q], new) ELSE queue[q]
  BY <1>1 DEF Route, producerVars, consumerVars, halfVars
<1> HIDE DEF new
<1>3. ASSUME NEW q \in Queues
      PROVE  /\ Range(queue[q]) \subseteq Range(queue'[q])
             /\ Range(queue'[q]) \subseteq Range(queue[q]) \cup {new}
             /\ Events[fact[new]] \in Bindings(q) <=> new \in Range(queue'[q])
             /\ Increasing(queue'[q])
  <2>1. queue[q] \in Seq(Ids) /\ new \notin Range(queue[q])
    <3>1. queue[q] \in Seq(Ids)
      BY DEF TypeOK, Ids
    <3>2. Range(queue[q]) \subseteq routed
      BY DEF QueueInv, QueueOK
    <3>3. QED
      BY <1>1, <3>1, <3>2
  <2>2. CASE Events[fact[new]] \in Bindings(q)
    <3>1. queue'[q] = Append(queue[q], new)
      BY <1>2, <2>2
    <3>2. Range(queue'[q]) = Range(queue[q]) \cup {new}
      BY <1>1, <2>1, <3>1, AppendRange
    <3>3. \A i \in DOMAIN queue[q] : queue[q][i] < new
      BY <1>1 DEF QueueInv, QueueOK, Range
    <3>4. /\ DOMAIN queue'[q] = 1 .. Len(queue[q]) + 1 /\ DOMAIN queue[q] = 1 .. Len(queue[q])
          /\ Len(queue[q]) \in Nat
          /\ \A i \in DOMAIN queue[q] : queue'[q][i] = queue[q][i]
          /\ queue'[q][Len(queue[q]) + 1] = new
      BY <1>1, <2>1, <3>1
    <3>5. Increasing(queue'[q])
      <4> SUFFICES ASSUME NEW i \in DOMAIN queue'[q], NEW j \in DOMAIN queue'[q], i < j
                   PROVE  queue'[q][i] < queue'[q][j]
        BY DEF Increasing
      <4>1. i \in DOMAIN queue[q]
        BY <3>4
      <4>2. CASE j \in DOMAIN queue[q]
        BY <3>4, <4>1, <4>2 DEF QueueInv, QueueOK, Increasing
      <4>3. CASE j = Len(queue[q]) + 1
        BY <3>3, <3>4, <4>1, <4>3
      <4>4. QED
        BY <3>4, <4>2, <4>3
    <3>6. QED
      BY <2>2, <3>2, <3>5
  <2>3. CASE Events[fact[new]] \notin Bindings(q)
    BY <1>2, <2>1, <2>3 DEF QueueInv, QueueOK
  <2>4. QED
    BY <2>2, <2>3
<1>4. ASSUME NEW q \in Queues PROVE QueueOK(q)'
  <2>1. \A h \in Range(handled[q]) : h < new
    BY <1>1 DEF QueueInv, QueueOK
  <2>2. msg[q] # 0 => msg[q] < new
    BY <1>1 DEF QueueInv, QueueOK
  <2>3. \A id \in Range(queue'[q]) \ strayed[q] :
          /\ \A h \in Range(handled[q]) : h <= id
          /\ msg[q] # 0 => msg[q] <= id
    <3> TAKE id \in Range(queue'[q]) \ strayed[q]
    <3>1. CASE id \in Range(queue[q])
      BY <3>1 DEF QueueInv, QueueOK
    <3>2. CASE id = new
      <4>1. new \in Nat /\ (\A h \in Range(handled[q]) : h \in Nat) /\ msg[q] \in Nat
        <5>1. Ids \subseteq Nat /\ handled[q] \in Seq(Ids) /\ msg[q] \in Ids \cup {0}
          BY DEF TypeOK, Ids
        <5>2. Range(handled[q]) \subseteq Ids
          BY <5>1, RangeFinite
        <5>3. QED
          BY <1>1, <5>1, <5>2
      <4>2. QED
        BY <2>1, <2>2, <3>2, <4>1
    <3>3. QED
      BY <1>3, <3>1, <3>2
  <2>4. QED
    BY <1>1, <1>2, <1>3, <2>3 DEF QueueInv, QueueOK
<1>5. RoutedIsKept'
  BY <1>1, <1>2, <1>3 DEF QueueInv, RoutedIsKept
<1>6. QED
  BY <1>4, <1>5 DEF QueueInv

THEOREM QueueInvariant == Spec => []QueueInv
<1> USE DEF consumerVars, halfVars, producerVars
<1>1. Init => QueueInv
  BY DEF Init, QueueInv, QueueOK, RoutedIsKept, Increasing, Range
<1>2. TypeOK /\ TypeOK' /\ BusyHasMsg /\ WireInv /\ QueueInv /\ [Next]_vars => QueueInv'
  <2> SUFFICES ASSUME TypeOK, TypeOK', BusyHasMsg, WireInv, QueueInv, [Next]_vars
               PROVE  QueueInv'
    OBVIOUS
  <2> DEFINE Same == UNCHANGED <<fact, queue, routed, consumer, msg, handled, strayed>>
  <2>0. ASSUME Same, \A q \in Queues : held'[q] = held[q] \/ held'[q] = 0
        PROVE  QueueInv'
    BY <2>0 DEF QueueInv, QueueOK, RoutedIsKept
  <2>1. CASE ProducerConnect \/ SetupDone \/ CycleDone \/ ProducerLost \/ UNCHANGED vars
    <3>1. Same /\ UNCHANGED held
      BY <2>1 DEF ProducerConnect, SetupDone, CycleDone, ProducerLost, vars
    <3>2. QED
      BY <2>0, <3>1
  <2>2. ASSUME NEW q \in Queues, SetupQueue(q)
        PROVE  QueueInv'
    <3>1. Same /\ UNCHANGED held
      BY <2>2 DEF SetupQueue
    <3>2. QED
      BY <2>0, <3>1
  <2>3. CASE Publish
    <3>1. UNCHANGED <<queue, routed, consumer, msg, handled, strayed, held>>
      BY <2>3 DEF Publish
    <3>2. \A id \in routed : fact'[id] = fact[id]
      BY <2>3, PublishGrows DEF TypeOK
    <3>3. QED
      BY <3>1, <3>2 DEF QueueInv, QueueOK, RoutedIsKept
  <2>4. CASE Route
    BY <2>4, RouteKeepsQueues
  <2>5. ASSUME NEW q \in Queues, ConsumerStep(q)
        PROVE  QueueInv'
    <3>1. ASSUME NEW p \in Queues
          PROVE  /\ QueueOK(p)'
                 /\ Range(queue[p]) \cup Range(handled[p]) \subseteq Range(queue'[p]) \cup Range(handled'[p])
      <4>1. CASE p = q
        BY <2>5, <4>1, ConsumerStepKeepsQueue DEF QueueInv
      <4>2. CASE p # q
        BY <2>5, <4>2, OtherQueues, ConsumerFrame DEF QueueInv, QueueOK
      <4>3. QED
        BY <4>1, <4>2
    <3>2. UNCHANGED <<fact, routed>>
      BY <2>5, ConsumerFrame
    <3>3. QED
      BY <3>1, <3>2 DEF QueueInv, RoutedIsKept
  <2>6. CASE BrokerRestart
    <3>1. Same /\ \A q \in Queues : held'[q] = 0
      BY <2>6 DEF BrokerRestart
    <3>2. QED
      BY <2>0, <3>1
  <2>7. QED
    BY <2>1, <2>2, <2>3, <2>4, <2>5, <2>6 DEF Next, Done, ConsumerStep
<1>3. QED
  BY <1>1, <1>2, Typing, WireInvariant, PTL DEF Spec

(***************************************************************************)
(* No message the broker has read is lost, for any number of failures.     *)
(***************************************************************************)
THEOREM NothingRoutedIsLost == Spec => []RoutedIsKept
<1>1. QueueInv => RoutedIsKept
  BY DEF QueueInv
<1>2. QED
  BY <1>1, QueueInvariant, PTL

(***************************************************************************)
(* Only half-open connections upset the order of handling.                 *)
(***************************************************************************)
THEOREM OrderIsKept == Spec => []HandledInOrder
<1>1. QueueInv => HandledInOrder
  BY DEF QueueInv, QueueOK, HandledInOrder
<1>2. QED
  BY <1>1, QueueInvariant, PTL

-----------------------------------------------------------------------------
(***************************************************************************)
(* What is lost on the way to the broker.                                  *)
(***************************************************************************)
LEMMA CycleType ==
    ASSUME TypeOK, NEW id \in Ids
    PROVE  Cycle(id) \in Int /\ Cycle(id) < id /\ id \in Nat
<1>1. fact[id] \in Nat \ {0} /\ id \in Nat
  BY EventsType DEF TypeOK, Ids
<1>2. QED
  BY <1>1 DEF Cycle

(* All ids of the cycle that is on come after Base, and only they do.      *)
LEMMA CycleIsBase ==
    ASSUME TypeOK, WireInv, producer = "publish", NEW id \in Ids, id > Base
    PROVE  Cycle(id) = Base
<1>1. fact[id] = id - Base /\ id \in Nat /\ Base \in Int
  BY DEF WireInv, TypeOK, Base, Ids
<1>2. QED
  BY <1>1 DEF Cycle

(* The wire holds the ids from some number on.                             *)
WireIds == Range(wire) = {id \in Ids : id > Len(fact) - Len(wire)}

LEMMA WireRange == TypeOK /\ WireInv => WireIds
<1> SUFFICES ASSUME TypeOK, WireInv PROVE WireIds
  OBVIOUS
<1>1. /\ wire \in Seq(Ids) /\ DOMAIN wire = 1 .. Len(wire) /\ Len(wire) \in Nat
      /\ Len(fact) \in Nat /\ Ids = 1 .. Len(fact) /\ Len(wire) <= Len(fact)
      /\ \A i \in 1 .. Len(wire) : wire[i] = Len(fact) - Len(wire) + i
  BY DEF TypeOK, WireInv, Ids
<1>2. ASSUME NEW id \in Range(wire) PROVE id \in Ids /\ id > Len(fact) - Len(wire)
  BY <1>1 DEF Range
<1>3. ASSUME NEW id \in Ids, id > Len(fact) - Len(wire) PROVE id \in Range(wire)
  <2> DEFINE i == id - (Len(fact) - Len(wire))
  <2>1. i \in 1 .. Len(wire) /\ Len(fact) - Len(wire) + i = id
    BY <1>1, <1>3
  <2>2. wire[i] = id
    BY <1>1, <2>1
  <2>3. QED
    BY <1>1, <2>1, <2>2 DEF Range
<1>4. QED
  BY <1>2, <1>3 DEF WireIds

(***************************************************************************)
(* The broker has read a beginning of every cycle.                         *)
(***************************************************************************)
THEOREM LossIsAtTheEnd == Spec => []LossIsTheEnd
<1>1. Init => LossIsTheEnd
  BY DEF Init, LossIsTheEnd
<1>2. TypeOK /\ WireInv /\ LossIsTheEnd /\ [Next]_vars => LossIsTheEnd'
  <2> SUFFICES ASSUME TypeOK, WireInv, LossIsTheEnd, [Next]_vars
               PROVE  LossIsTheEnd'
    OBVIOUS
  <2>1. CASE UNCHANGED <<fact, routed>>
    BY <2>1 DEF LossIsTheEnd, Cycle, Ids
  <2>2. CASE Publish
    <3> SUFFICES ASSUME NEW a \in Ids', NEW b \in routed', a < b, (Cycle(a) = Cycle(b))'
                 PROVE  a \in routed'
      BY DEF LossIsTheEnd
    <3>1. b \in Ids /\ routed' = routed /\ a \in Ids
      BY <2>2, PublishGrows DEF Publish, TypeOK
    <3>2. Cycle(a) = Cycle(b)
      BY <2>2, <3>1, PublishGrows DEF Cycle
    <3>3. QED
      BY <3>1, <3>2 DEF LossIsTheEnd
  <2>3. CASE Route
    <3> DEFINE new == Len(fact) - Len(wire) + 1
    <3>1. /\ routed' = routed \cup {new} /\ UNCHANGED fact
          /\ producer = "publish" /\ new \in Ids
      BY <2>3, RouteTakesTheFirst DEF Route, producerVars
    <3>2. ASSUME NEW a \in Ids, a < new, Cycle(a) = Cycle(new) PROVE a \in routed
      <4>1. /\ Len(fact) \in Nat /\ Len(wire) \in Nat /\ Base \in Int /\ a \in Nat
            /\ Len(wire) <= next - 1 /\ next \in Nat
        BY <3>1, EventsType, SMTT(20) DEF TypeOK, Base, Ids, WireInv
      <4>2. Base = Len(fact) - (next - 1)
        BY <4>1 DEF Base
      <4>3. new > Base
        BY <4>1, <4>2
      <4>4. Cycle(a) = Base
        BY <3>1, <3>2, <4>3, CycleIsBase
      <4>5. a > Base /\ a <= Len(fact) - Len(wire)
        BY <3>2, <4>1, <4>4, CycleType
      <4>6. QED
        BY <3>1, <4>5 DEF WireInv
    <3> HIDE DEF new
    <3>3. QED
      BY <3>1, <3>2 DEF LossIsTheEnd, Cycle, Ids
  <2>4. QED
    BY <2>1, <2>2, <2>3, ConsumerFrame
    DEF Next, Done, ConsumerStep, vars, ProducerConnect, SetupQueue, SetupDone, CycleDone,
        ProducerLost, BrokerRestart, producerVars
<1>3. QED
  BY <1>1, <1>2, TypeCorrect, WireInvariant, PTL DEF Spec

Lost == Ids \ (routed \cup Range(wire))

LossInv == IsFiniteSet(LostCycles) /\ LossNeedsAFault

(***************************************************************************)
(* Each failure costs the messages of one cycle at most.                   *)
(***************************************************************************)
THEOREM LossIsPaidFor == Spec => []LossNeedsAFault
<1>1. Init => LossInv
  <2> SUFFICES ASSUME Init PROVE LossInv
    OBVIOUS
  <2>1. LostCycles = {} /\ faults = 0
    BY DEF Init, LostCycles, Ids
  <2>2. QED
    BY <2>1, FS_EmptySet DEF LossInv, LossNeedsAFault
<1>2. TypeOK /\ TypeOK' /\ WireInv /\ WireIds /\ WireIds' /\ LossInv /\ [Next]_vars => LossInv'
  <2> SUFFICES ASSUME TypeOK, TypeOK', WireInv, WireIds, WireIds', LossInv, [Next]_vars
               PROVE  LossInv'
    OBVIOUS
  <2>0. faults \in Nat /\ faults' \in Nat /\ Cardinality(LostCycles) \in Nat
        /\ Cardinality(LostCycles) <= faults
    BY FS_CardinalityType DEF TypeOK, LossInv, LossNeedsAFault
  <2>1. ASSUME LostCycles' = LostCycles, faults' >= faults PROVE LossInv'
    BY <2>0, <2>1 DEF LossInv, LossNeedsAFault
  <2>2. CASE UNCHANGED <<fact, routed, wire>> /\ faults' >= faults
    <3>1. LostCycles' = LostCycles
      BY <2>2 DEF LostCycles, Cycle, Ids
    <3>2. QED
      BY <2>1, <2>2, <3>1
  <2>3. CASE Publish
    <3>1. /\ routed' = routed /\ faults' = faults /\ Len(wire') = Len(wire) + 1
          /\ Len(fact') = Len(fact) + 1 /\ Len(wire) \in Nat /\ Len(fact) \in Nat
          /\ Ids = 1 .. Len(fact) /\ Ids' = 1 .. Len(fact) + 1
      BY <2>3, PublishGrows DEF Publish, TypeOK
    <3>2. \A id : id \in Lost' <=> id \in Lost
      BY <3>1 DEF Lost, WireIds
    <3>3. \A id \in Lost : fact'[id] = fact[id]
      BY <2>3, PublishGrows DEF Lost
    <3>4. QED
      <4>1. LostCycles' = LostCycles
        BY <3>2, <3>3 DEF LostCycles, Lost, Cycle
      <4>2. QED
        BY <2>0, <2>1, <3>1, <4>1
  <2>4. CASE Route
    <3>1. routed' \cup Range(wire') = routed \cup Range(wire)
      <4>1. /\ routed' = routed \cup {Len(fact) - Len(wire) + 1} /\ fact' = fact
            /\ Len(fact) - Len(wire') = Len(fact) - Len(wire) + 1
            /\ Len(fact) \in Nat /\ Len(wire) \in Nat
            /\ Len(fact) - Len(wire) + 1 \in Ids
        <5>1. Len(fact) \in Nat /\ Len(wire) \in Nat /\ fact' = fact
          BY <2>4 DEF Route, producerVars, TypeOK
        <5>2. /\ Head(wire) = Len(fact) - Len(wire) + 1 /\ Head(wire) \in Ids
              /\ Len(wire') = Len(wire) - 1 /\ routed' = routed \cup {Head(wire)}
          BY <2>4, RouteTakesTheFirst
        <5>3. QED
          BY <5>1, <5>2
      <4>2. Range(wire') = {id \in Ids : id > Len(fact) - Len(wire')}
        BY <4>1 DEF WireIds, Ids
      <4>3. \A id \in Ids : id \in Nat
        BY DEF Ids, TypeOK
      <4>4. QED
        BY <4>1, <4>2, <4>3 DEF WireIds
    <3>2. QED
      <4>1. LostCycles' = LostCycles
        BY <2>4, <3>1 DEF LostCycles, Route, producerVars, Cycle, Ids
      <4>2. QED
        BY <2>0, <2>1, <2>4, <4>1 DEF Route
  <2>5. CASE ProducerLost \/ BrokerRestart
    <3>1. UNCHANGED <<fact, routed>> /\ wire' = <<>> /\ faults' = faults + 1 /\ Range(wire') = {}
      BY <2>5 DEF ProducerLost, BrokerRestart, Fault, Range
    <3>2. ASSUME NEW id \in Range(wire) PROVE Cycle(id) = Base
      <4>1. producer = "publish" /\ id \in Ids /\ id > Len(fact) - Len(wire) /\ Len(wire) <= next - 1
        BY <3>2 DEF WireIds, WireInv, Range
      <4>2. Len(fact) \in Nat /\ Len(wire) \in Nat /\ next \in Nat /\ id \in Nat
        <5>1. Len(fact) \in Nat /\ Len(wire) \in Nat /\ DOMAIN fact = 1 .. Len(fact)
          BY DEF TypeOK
        <5>2. next \in Nat
          BY EventsType DEF TypeOK
        <5>3. QED
          BY <4>1, <5>1, <5>2 DEF Ids
      <4>3. id > Base
        BY <4>1, <4>2 DEF Base
      <4>4. QED
        BY <4>1, <4>3, CycleIsBase
    <3>3. LostCycles' \subseteq LostCycles \cup {Base}
      BY <3>1, <3>2 DEF LostCycles, Cycle, Ids
    <3>4. /\ IsFiniteSet(LostCycles \cup {Base})
          /\ Cardinality(LostCycles \cup {Base}) <= Cardinality(LostCycles) + 1
      BY <2>0, FS_AddElement DEF LossInv
    <3>5. IsFiniteSet(LostCycles') /\ Cardinality(LostCycles') <= Cardinality(LostCycles \cup {Base})
      BY <3>3, <3>4, FS_Subset
    <3>6. Cardinality(LostCycles') \in Nat /\ Cardinality(LostCycles \cup {Base}) \in Nat
      BY <3>4, <3>5, FS_CardinalityType
    <3>7. Cardinality(LostCycles') <= faults'
      BY <2>0, <3>1, <3>4, <3>5, <3>6
    <3>8. QED
      BY <3>5, <3>7 DEF LossInv, LossNeedsAFault
  <2>6. ASSUME NEW q \in Queues, ConsumerStep(q) PROVE faults' >= faults
    BY <2>0, <2>6 DEF ConsumerStep, Consume, Deliver, ConsumerConnect, HandleMessage, Ack, ConsumerRetry,
       DeliverToHalfOpen, HeartbeatMissed, ConsumerLinkLost, ConsumerDies, Fault
  <2>7. ASSUME NEW q \in Queues, SetupQueue(q) PROVE LossInv'
    BY <2>0, <2>2, <2>7 DEF SetupQueue, producerVars
  <2>8. ASSUME NEW q \in Queues, ConsumerStep(q) PROVE LossInv'
    BY <2>2, <2>6, <2>8, ConsumerFrame
  <2>9. CASE ProducerConnect \/ SetupDone \/ CycleDone \/ UNCHANGED vars
    BY <2>0, <2>2, <2>9 DEF ProducerConnect, SetupDone, CycleDone, vars, producerVars
  <2>10. QED
    BY <2>3, <2>4, <2>5, <2>7, <2>8, <2>9 DEF Next, Done, ConsumerStep
<1>3. LossInv => LossNeedsAFault
  BY DEF LossInv
<1>4. QED
  BY <1>1, <1>2, <1>3, TypeCorrect, WireInvariant, WireRange, PTL DEF Spec

-----------------------------------------------------------------------------
(***************************************************************************)
(* Repetitions. A message that was handled and is still in its queue will  *)
(* be handled again, unless its acknowledgement is next; so will one that  *)
(* is being handled on a lost connection. Each of these was paid for by a  *)
(* failure.                                                                *)
(***************************************************************************)
Again(q) == Range(queue[q]) \cap Range(handled[q])

RepeatsOK(q) ==
    Len(handled[q]) + Cardinality(Again(q))
        + (IF consumer[q] = "busy" /\ ~linked[q] THEN 1 ELSE 0)
      <= Cardinality(Range(handled[q])) + faults
        + (IF consumer[q] = "done" /\ linked[q] THEN 1 ELSE 0)

RepeatsInv == \A q \in Queues : RepeatsOK(q)

LEMMA RepeatsType ==
    ASSUME TypeOK, NEW q \in Queues
    PROVE  /\ IsFiniteSet(Range(queue[q])) /\ IsFiniteSet(Range(handled[q])) /\ IsFiniteSet(Again(q))
           /\ Cardinality(Again(q)) \in Nat /\ Cardinality(Range(handled[q])) \in Nat
           /\ Len(handled[q]) \in Nat /\ faults \in Nat
<1>1. /\ queue[q] \in Seq(Ids) /\ handled[q] \in Seq(Ids) /\ faults \in Nat
      /\ Len(handled[q]) \in Nat
  BY DEF TypeOK
<1>2. IsFiniteSet(Range(queue[q])) /\ IsFiniteSet(Range(handled[q]))
      /\ Cardinality(Range(handled[q])) \in Nat
  BY <1>1, RangeFinite
<1>3. IsFiniteSet(Again(q))
  BY <1>2, FS_Subset DEF Again
<1>4. QED
  BY <1>1, <1>2, <1>3, FS_CardinalityType

(* A failure pays for one repetition, in each queue.                       *)
LEMMA FaultPays ==
    ASSUME TypeOK, TypeOK', NEW q \in Queues, RepeatsOK(q),
           UNCHANGED <<queue, handled>>, faults' = faults + 1,
           consumer'[q] \in {consumer[q], "down"}, linked'[q] = FALSE \/ linked'[q] = linked[q]
    PROVE  RepeatsOK(q)'
<1>1. Again(q)' = Again(q)
  BY DEF Again
<1> DEFINE busy == IF consumer[q] = "busy" /\ ~linked[q] THEN 1 ELSE 0
<1> DEFINE done == IF consumer[q] = "done" /\ linked[q] THEN 1 ELSE 0
<1> DEFINE n == Len(handled[q]) + Cardinality(Again(q))
<1> DEFINE c == Cardinality(Range(handled[q]))
<1>2. busy \in {0, 1} /\ busy' \in {0, 1} /\ done \in {0, 1} /\ done' \in {0, 1}
  OBVIOUS
<1>3. done = 1 => busy' = 0
  OBVIOUS
<1>4. done = 1 => busy = 0
  OBVIOUS
<1>5. n' = n /\ c' = c /\ n \in Nat /\ c \in Nat /\ faults \in Nat
  BY <1>1, RepeatsType
<1>6. n + busy <= c + faults + done
  BY DEF RepeatsOK
<1> HIDE DEF busy, done, n, c
<1>7. n' + busy' <= c' + faults' + done'
  BY <1>2, <1>3, <1>4, <1>5, <1>6
<1>8. QED
  BY <1>7 DEF RepeatsOK, busy, done, n, c

LEMMA ConsumerStepRepeats ==
    ASSUME TypeOK, TypeOK', BusyHasMsg, NEW q \in Queues, ConsumerStep(q), QueueOK(q), RepeatsOK(q)
    PROVE  RepeatsOK(q)'
<1>1. CASE Deliver(q) \/ ConsumerConnect(q) \/ ConsumerRetry(q)
  <2>1. /\ Again(q)' = Again(q) /\ UNCHANGED <<handled, faults>>
        /\ ~(consumer'[q] = "busy" /\ ~linked'[q]) /\ ~(consumer[q] = "done" /\ linked[q])
    BY <1>1 DEF Deliver, ConsumerConnect, ConsumerRetry, TypeOK, Again
  <2>2. QED
    BY <2>1, RepeatsType DEF RepeatsOK
<1>2. CASE DeliverToHalfOpen(q) \/ HeartbeatMissed(q)
  <2>1. UNCHANGED <<queue, handled, consumer, linked, faults>>
    BY <1>2 DEF DeliverToHalfOpen, HeartbeatMissed, consumerVars
  <2>2. QED
    BY <2>1 DEF RepeatsOK, Again
<1>3. CASE HandleMessage(q)
  <2> DEFINE m == msg[q]
  <2>1. m \in Range(queue[q]) /\ m \in Ids
    BY <1>3 DEF HandleMessage, BusyHasMsg, QueueOK, TypeOK
  <2>2. /\ handled'[q] = Append(handled[q], m) /\ UNCHANGED <<queue, linked, faults>>
        /\ consumer[q] = "busy" /\ consumer'[q] = "done" /\ handled[q] \in Seq(Ids)
    BY <1>3, <2>1, BoundIsHandled DEF HandleMessage, QueueOK, TypeOK
  <2>3. /\ Range(handled'[q]) = Range(handled[q]) \cup {m}
        /\ Len(handled'[q]) = Len(handled[q]) + 1
    BY <2>1, <2>2, AppendRange
  <2>4. Again(q)' = Again(q) \cup {m} /\ (m \in Again(q) <=> m \in Range(handled[q]))
    BY <2>1, <2>2, <2>3 DEF Again
  <2> HIDE DEF m
  <2>5. /\ Cardinality(Range(handled'[q])) =
              IF m \in Range(handled[q]) THEN Cardinality(Range(handled[q])) ELSE Cardinality(Range(handled[q])) + 1
        /\ Cardinality(Again(q)') =
              IF m \in Range(handled[q]) THEN Cardinality(Again(q)) ELSE Cardinality(Again(q)) + 1
    BY <2>3, <2>4, RepeatsType, FS_AddElement
  <2>6. QED
    BY <2>2, <2>3, <2>5, RepeatsType, SMTT(20) DEF RepeatsOK
<1>4. CASE Ack(q)
  <2>1. PICK i \in DOMAIN queue[q] : queue[q][i] = msg[q] /\ queue'[q] = RemoveAt(queue[q], i)
    BY <1>4 DEF Ack, TypeOK
  <2>2. /\ consumer'[q] = "ready" /\ consumer[q] = "done" /\ linked[q]
        /\ UNCHANGED <<handled, faults, linked>>
    BY <1>4 DEF Ack, TypeOK
  <2>3. queue[q] \in Seq(Nat) /\ Increasing(queue[q])
    BY DEF TypeOK, QueueOK, Ids
  <2>4. Range(queue'[q]) = Range(queue[q]) \ {msg[q]} /\ msg[q] \in Range(queue[q])
    <3>1. Range(queue'[q]) = Range(queue[q]) \ {msg[q]}
      BY <2>1, <2>3, RemoveAtRange
    <3>2. msg[q] \in Range(queue[q])
      BY <2>1 DEF Range
    <3>3. QED
      BY <3>1, <3>2
  <2>5. Again(q)' = Again(q) \ {msg[q]} /\ msg[q] \in Again(q)
    BY <2>2, <2>4 DEF Again, QueueOK
  <2>6. Cardinality(Again(q)') = Cardinality(Again(q)) - 1
    BY <2>5, RepeatsType, FS_RemoveElement
  <2>7. QED
    BY <2>2, <2>6, RepeatsType DEF RepeatsOK
<1>5. CASE ConsumerLinkLost(q)
  BY <1>5, FaultPays DEF ConsumerLinkLost, Unlink, Fault, TypeOK
<1>6. CASE ConsumerDies(q)
  BY <1>6, FaultPays DEF ConsumerDies, Unlink, Fault, TypeOK
<1>7. QED
  BY <1>1, <1>2, <1>3, <1>4, <1>5, <1>6 DEF ConsumerStep, Consume

(***************************************************************************)
(* Handlers run again only for failures.                                   *)
(***************************************************************************)
THEOREM RepeatsArePaidFor == Spec => []RepeatsNeedFaults
<1>1. Init => RepeatsInv
  <2> SUFFICES ASSUME Init, NEW q \in Queues PROVE RepeatsOK(q)
    BY DEF RepeatsInv
  <2>1. Range(handled[q]) = {} /\ Again(q) = {} /\ Len(handled[q]) = 0 /\ faults = 0
        /\ consumer[q] = "down"
    BY DEF Init, Range, Again
  <2>2. QED
    BY <2>1, FS_EmptySet DEF RepeatsOK
<1>2. TypeOK /\ TypeOK' /\ BusyHasMsg /\ WireInv /\ QueueInv /\ RepeatsInv /\ [Next]_vars => RepeatsInv'
  <2> SUFFICES ASSUME TypeOK, TypeOK', BusyHasMsg, WireInv, QueueInv, RepeatsInv, [Next]_vars,
                      NEW q \in Queues
               PROVE  RepeatsOK(q)'
    BY DEF RepeatsInv
  <2>0. RepeatsOK(q) /\ QueueOK(q)
    BY DEF RepeatsInv, QueueInv
  <2>1. CASE UNCHANGED <<queue, handled, consumer, linked, faults>>
    BY <2>0, <2>1 DEF RepeatsOK, Again
  <2>2. CASE ProducerConnect \/ SetupDone \/ Publish \/ CycleDone \/ UNCHANGED vars
    BY <2>1, <2>2 DEF ProducerConnect, SetupDone, Publish, CycleDone, vars, consumerVars
  <2>3. ASSUME NEW p \in Queues, SetupQueue(p) PROVE RepeatsOK(q)'
    BY <2>1, <2>3 DEF SetupQueue, consumerVars
  <2>4. CASE Route
    <3> DEFINE new == Head(wire)
    <3>1. /\ new = Len(fact) - Len(wire) + 1 /\ new \in Ids
          /\ queue'[q] \in {queue[q], Append(queue[q], new)}
          /\ UNCHANGED <<consumer, linked, handled, faults>>
      BY <2>4, RouteTakesTheFirst DEF Route, consumerVars
    <3>2. new \notin Range(handled[q])
      <4>1. \A id \in routed : id \in Nat /\ id <= Len(fact) - Len(wire)
        BY SMTT(20) DEF WireInv, TypeOK, Ids
      <4>2. Len(fact) \in Nat /\ Len(wire) \in Nat
        BY DEF TypeOK
      <4>3. QED
        BY <2>0, <3>1, <4>1, <4>2 DEF QueueOK
    <3>3. Range(queue'[q]) \in {Range(queue[q]), Range(queue[q]) \cup {new}}
      <4>1. queue[q] \in Seq(Ids)
        BY DEF TypeOK
      <4>2. Range(Append(queue[q], new)) = Range(queue[q]) \cup {new}
        BY <3>1, <4>1, AppendRange
      <4>3. QED
        BY <3>1, <4>2
    <3>4. Again(q)' = Again(q)
      BY <3>1, <3>2, <3>3 DEF Again
    <3>5. QED
      BY <2>0, <3>1, <3>4 DEF RepeatsOK
  <2>5. ASSUME NEW p \in Queues, ConsumerStep(p) PROVE RepeatsOK(q)'
    <3>1. CASE p = q
      BY <2>0, <2>5, <3>1, ConsumerStepRepeats
    <3>2. CASE p # q
      <4>1. /\ queue'[q] = queue[q] /\ handled'[q] = handled[q]
            /\ consumer'[q] = consumer[q] /\ linked'[q] = linked[q]
        BY <2>5, <3>2, OtherQueues
      <4>2. faults' \in {faults, faults + 1}
        BY <2>5 DEF ConsumerStep, Consume, Deliver, ConsumerConnect, HandleMessage, Ack, ConsumerRetry,
          DeliverToHalfOpen, HeartbeatMissed, ConsumerLinkLost, ConsumerDies, Fault
      <4>3. Again(q)' = Again(q)
        BY <4>1 DEF Again
      <4>4. QED
        BY <2>0, <4>1, <4>2, <4>3, RepeatsType, SMTT(20) DEF RepeatsOK
    <3>3. QED
      BY <3>1, <3>2
  <2>6. CASE ProducerLost
    BY <2>0, <2>6, FaultPays DEF ProducerLost, Fault, consumerVars
  <2>7. CASE BrokerRestart
    BY <2>0, <2>7, FaultPays DEF BrokerRestart, Fault
  <2>8. QED
    BY <2>2, <2>3, <2>4, <2>5, <2>6, <2>7 DEF Next, Done, ConsumerStep
<1>3. TypeOK /\ BusyHasMsg /\ RepeatsInv /\ QueueInv => RepeatsNeedFaults
  <2> SUFFICES ASSUME TypeOK, BusyHasMsg, RepeatsInv, QueueInv, NEW q \in Queues
               PROVE  Len(handled[q]) <= Cardinality(Range(handled[q])) + faults
    BY DEF RepeatsNeedFaults
  <2>1. RepeatsOK(q)
    BY DEF RepeatsInv
  <2>2. CASE consumer[q] = "done" /\ linked[q]
    <3>1. msg[q] \in Again(q)
      BY <2>2 DEF BusyHasMsg, QueueInv, QueueOK, Again
    <3>2. Again(q) # {}
      BY <3>1
    <3>3. Cardinality(Again(q)) # 0
      BY <3>2, RepeatsType, FS_EmptySet
    <3>4. QED
      BY <2>1, <2>2, <3>3, RepeatsType DEF RepeatsOK
  <2>3. CASE ~(consumer[q] = "done" /\ linked[q])
    BY <2>1, <2>3, RepeatsType DEF RepeatsOK
  <2>4. QED
    BY <2>2, <2>3
<1>4. QED
  BY <1>1, <1>2, <1>3, Typing, WireInvariant, QueueInvariant, PTL DEF Spec

-----------------------------------------------------------------------------
(***************************************************************************)
(* Republication. Between two events of the list the difference is the     *)
(* number of cycles that ended between them, which are failed ones, and    *)
(* one more while the cycle that is on is between them.                    *)
(***************************************************************************)
OfFact(i) == {id \in Ids : fact[id] = i}
Between(i, j) == producer = "publish" /\ i < next /\ next <= j

PublishedInv ==
    \A i, j \in DOMAIN Events : i < j =>
        Published(i) - Published(j) \in IF Between(i, j) THEN 1 .. faults + 1 ELSE 0 .. faults

LEMMA PublishedType ==
    ASSUME TypeOK, NEW i
    PROVE  /\ Published(i) \in Nat /\ IsFiniteSet(OfFact(i)) /\ Published(i) = Cardinality(OfFact(i))
           /\ faults \in Nat
<1>1. IsFiniteSet(Ids) /\ faults \in Nat
  BY FS_Interval DEF TypeOK, Ids
<1>2. IsFiniteSet(OfFact(i))
  BY <1>1, FS_Subset DEF OfFact
<1>3. QED
  BY <1>1, <1>2, FS_CardinalityType DEF Published, OfFact

LEMMA PublishAddsOne ==
    ASSUME TypeOK, Publish, NEW i \in DOMAIN Events
    PROVE  Published(i)' = IF i = next THEN Published(i) + 1 ELSE Published(i)
<1> DEFINE new == Len(fact) + 1
<1>1. /\ Ids' = Ids \cup {new} /\ new \notin Ids /\ fact'[new] = next
      /\ \A id \in Ids : fact'[id] = fact[id]
  BY PublishGrows DEF TypeOK
<1> HIDE DEF new
<1>2. Published(i)' = Cardinality(OfFact(i)')
  BY DEF Published, OfFact
<1>3. OfFact(i)' = IF i = next THEN OfFact(i) \cup {new} ELSE OfFact(i)
  BY <1>1 DEF OfFact
<1>4. new \notin OfFact(i)
  BY <1>1 DEF OfFact
<1>5. QED
  BY <1>2, <1>3, <1>4, PublishedType, FS_AddElement

THEOREM RepublicationIsPaidFor == Spec => []RepublishedByFaults
<1>1. Init => PublishedInv
  <2> SUFFICES ASSUME Init, NEW i \in DOMAIN Events, NEW j \in DOMAIN Events, i < j
               PROVE  Published(i) - Published(j) \in 0 .. faults /\ ~Between(i, j)
    BY DEF PublishedInv
  <2>1. Published(i) = 0 /\ Published(j) = 0 /\ faults = 0 /\ producer = "down"
    BY FS_EmptySet DEF Init, Published, Ids
  <2>2. QED
    BY <2>1 DEF Between
<1>2. TypeOK /\ TypeOK' /\ PublishedInv /\ [Next]_vars => PublishedInv'
  <2> SUFFICES ASSUME TypeOK, TypeOK', PublishedInv, [Next]_vars,
                      NEW i \in DOMAIN Events, NEW j \in DOMAIN Events, i < j
               PROVE  Published(i)' - Published(j)' \in IF Between(i, j)' THEN 1 .. faults' + 1 ELSE 0 .. faults'
    BY DEF PublishedInv
  <2> DEFINE d == Published(i) - Published(j)
  <2> DEFINE dd == Published(i)' - Published(j)'
  <2>0. /\ d \in IF Between(i, j) THEN 1 .. faults + 1 ELSE 0 .. faults
        /\ d \in Int /\ faults \in Nat /\ faults' \in Nat /\ i \in Nat /\ j \in Nat /\ next \in Nat
        /\ Published(i) \in Nat /\ Published(j) \in Nat
    BY PublishedType, EventsType, SMTT(20) DEF PublishedInv, TypeOK
  <2>1. ASSUME UNCHANGED fact PROVE dd = d
    BY <2>1 DEF Published, Ids
  <2>2. CASE UNCHANGED <<fact, producer, next>> /\ faults' \in {faults, faults + 1}
    <3>1. Between(i, j)' = Between(i, j) /\ dd = d
      BY <2>1, <2>2 DEF Between
    <3> HIDE DEF d, dd
    <3>2. QED
      BY <2>0, <2>2, <3>1 DEF d, dd
  <2>3. CASE Publish
    <3>1. /\ producer = "publish" /\ producer' = "publish" /\ next' = next + 1 /\ faults' = faults
      BY <2>3 DEF Publish
    <3>2. /\ Published(i)' = IF i = next THEN Published(i) + 1 ELSE Published(i)
          /\ Published(j)' = IF j = next THEN Published(j) + 1 ELSE Published(j)
      BY <2>3, PublishAddsOne
    <3>3. CASE i = next
      BY <2>0, <3>1, <3>2, <3>3 DEF Between
    <3>4. CASE j = next
      BY <2>0, <3>1, <3>2, <3>4 DEF Between
    <3>5. CASE i # next /\ j # next
      BY <2>0, <3>1, <3>2, <3>5 DEF Between
    <3>6. QED
      BY <3>3, <3>4, <3>5
  <2>4. CASE ProducerLost \/ BrokerRestart
    <3>1. ~Between(i, j)' /\ dd = d /\ faults' = faults + 1
      BY <2>1, <2>4 DEF ProducerLost, BrokerRestart, Fault, Between
    <3>2. QED
      BY <2>0, <3>1
  <2>5. CASE ProducerConnect \/ SetupDone \/ CycleDone
    <3>1. ~Between(i, j) /\ ~Between(i, j)' /\ dd = d /\ faults' = faults
      BY <2>0, <2>1, <2>5, EventsType DEF ProducerConnect, SetupDone, CycleDone, Between
    <3>2. QED
      BY <2>0, <3>1
  <2>6. ASSUME NEW q \in Queues, SetupQueue(q) PROVE UNCHANGED <<fact, producer, next, faults>>
    BY <2>6 DEF SetupQueue, producerVars
  <2>7. ASSUME NEW q \in Queues, ConsumerStep(q)
        PROVE  UNCHANGED <<fact, producer, next>> /\ faults' \in {faults, faults + 1}
    BY <2>7, ConsumerFrame DEF ConsumerStep, Consume, Deliver, ConsumerConnect, HandleMessage, Ack,
       ConsumerRetry, DeliverToHalfOpen, HeartbeatMissed, ConsumerLinkLost, ConsumerDies, Fault
  <2>8. CASE Route \/ UNCHANGED vars
    BY <2>2, <2>8 DEF Route, vars, producerVars
  <2>9. QED
    BY <2>2, <2>3, <2>4, <2>5, <2>6, <2>7, <2>8 DEF Next, Done, ConsumerStep
<1>3. TypeOK /\ PublishedInv => RepublishedByFaults
  <2> SUFFICES ASSUME TypeOK, PublishedInv, NEW i \in DOMAIN Events, NEW j \in DOMAIN Events, i < j
               PROVE  Published(i) - Published(j) \in 0 .. faults + (IF producer = "publish" THEN 1 ELSE 0)
    BY DEF RepublishedByFaults
  <2>1. Published(i) - Published(j) \in IF Between(i, j) THEN 1 .. faults + 1 ELSE 0 .. faults
    BY DEF PublishedInv
  <2>2. QED
    BY <2>1, PublishedType DEF Between
<1>4. QED
  BY <1>1, <1>2, <1>3, TypeCorrect, PTL DEF Spec

-----------------------------------------------------------------------------
(***************************************************************************)
(* Delivery at least once of what the broker has read. A queue is what is  *)
(* still owed; a handler runs for a message that is in its queue, and an   *)
(* acknowledgement is for one that was handled, both by QueueInv.          *)
(***************************************************************************)
LEMMA WantedIsHandled ==
    ASSUME NEW q \in Queues, NEW i \in DOMAIN Events
    PROVE  <<q, i>> \in {p \in Queues \X DOMAIN Events : Events[p[2]] \in Handlers(p[1])}
              <=> Events[i] \in Handlers(q)
OBVIOUS

(* The broker reads a message: it is accepted, for those who want it.      *)
LEMMA RouteAccepts ==
    ASSUME TypeOK, WireInv, Route
    PROVE  Delivered!Next
<1> DEFINE id == Head(wire)
<1>1. /\ id = Len(fact) - Len(wire) + 1 /\ id \in Ids /\ bound = Queues
      /\ routed' = routed \cup {id}
  BY RouteTakesTheFirst
<1>2. /\ \A q \in Queues : queue'[q] = IF Events[fact[id]] \in Bindings(q)
                                       THEN Append(queue[q], id) ELSE queue[q]
      /\ UNCHANGED <<fact, handled>>
  BY <1>1 DEF Route, producerVars, consumerVars
<1> HIDE DEF id
<1>3. \A a \in routed : a < id
  BY <1>1, SMTT(20) DEF WireInv, TypeOK, Ids
<1>4. fact[id] \in DOMAIN Events
  BY <1>1 DEF TypeOK, Ids
<1>5. ASSUME NEW q \in Queues
      PROVE  Owed'[q] = IF <<q, fact[id]>> \in {p \in Queues \X DOMAIN Events : Events[p[2]] \in Handlers(p[1])}
                        THEN Owed[q] \cup {id} ELSE Owed[q]
  <2>1. Events[fact[id]] \in Bindings(q)
          <=> <<q, fact[id]>> \in {p \in Queues \X DOMAIN Events : Events[p[2]] \in Handlers(p[1])}
    BY <1>4, WantedIsHandled, BoundIsHandled, Zenon
  <2>2. Range(Append(queue[q], id)) = Range(queue[q]) \cup {id}
    BY <1>1, AppendRange DEF TypeOK
  <2>3. Owed'[q] = Range(queue'[q]) /\ Owed[q] = Range(queue[q])
    BY DEF Owed
  <2>4. QED
    BY <1>2, <2>1, <2>2, <2>3
<1>6. Delivered!Accept(id)
  <2>1. Owed' = [q \in Queues |-> Owed'[q]]
    BY DEF Owed
  <2>2. QED
    BY <1>1, <1>2, <1>3, <1>5, <2>1 DEF Delivered!Accept
<1>7. QED
  BY <1>1, <1>6 DEF Delivered!Next, Ids

(* What a consumer does handles or discharges what its queue is owed, or   *)
(* is none of Delivery's business.                                         *)
LEMMA ConsumerStepDelivers ==
    ASSUME TypeOK, BusyHasMsg, NEW q \in Queues, QueueOK(q), ConsumerStep(q)
    PROVE  Delivered!Next \/ UNCHANGED Delivered!deliveryVars
<1>1. UNCHANGED <<fact, routed>>
  BY ConsumerFrame
<1>2. CASE HandleMessage(q)
  <2>1. msg[q] \in Range(queue[q]) /\ msg[q] \in Ids
    BY <1>2 DEF HandleMessage, BusyHasMsg, QueueOK, TypeOK
  <2>2. Events[fact[msg[q]]] \in Handlers(q)
    BY <2>1, BoundIsHandled DEF QueueOK
  <2>3. handled' = [handled EXCEPT ![q] = Append(handled[q], msg[q])] /\ Owed' = Owed
    BY <1>2, <2>2 DEF HandleMessage, Owed
  <2>4. Delivered!Handle(q, msg[q])
    BY <1>1, <2>1, <2>3 DEF Delivered!Handle, Owed
  <2>5. QED
    BY <2>1, <2>4 DEF Delivered!Next, Ids
<1>3. CASE Ack(q)
  <2>1. PICK i \in DOMAIN queue[q] :
            queue[q][i] = msg[q] /\ queue' = [queue EXCEPT ![q] = RemoveAt(queue[q], i)]
    BY <1>3 DEF Ack
  <2>2. queue[q] \in Seq(Nat) /\ Increasing(queue[q]) /\ msg[q] \in Ids
    BY <2>1 DEF TypeOK, QueueOK, Ids
  <2>3. Range(RemoveAt(queue[q], i)) = Range(queue[q]) \ {msg[q]}
    BY <2>1, <2>2, RemoveAtRange
  <2>4. msg[q] \in Range(queue[q])
    BY <2>1 DEF Range
  <2>5. Owed' = [Owed EXCEPT ![q] = Owed[q] \ {msg[q]}]
    BY <2>1, <2>3 DEF Owed, TypeOK
  <2>6. msg[q] \in Range(handled[q]) /\ handled' = handled
    BY <1>3 DEF Ack, QueueOK
  <2>7. Delivered!Discharge(q, msg[q])
    BY <1>1, <2>4, <2>5, <2>6 DEF Delivered!Discharge, Delivered!Range, Range, Owed
  <2>8. QED
    BY <2>2, <2>7 DEF Delivered!Next, Ids
<1>4. CASE ~HandleMessage(q) /\ ~Ack(q)
  <2>1. UNCHANGED <<queue, handled>>
    BY <1>4 DEF ConsumerStep, Consume, Deliver, ConsumerConnect, ConsumerRetry, DeliverToHalfOpen,
       HeartbeatMissed, ConsumerLinkLost, ConsumerDies, consumerVars
  <2>2. QED
    BY <1>1, <2>1 DEF Delivered!deliveryVars, Owed
<1>5. QED
  BY <1>2, <1>3, <1>4

(* The bus implements Delivery: whatever fails and however consumers,      *)
(* broker and producer interleave, what the broker has read is kept for    *)
(* each consumer that wants it until its handler has run, and no handler   *)
(* runs for what its consumer has acknowledged                             *)
(* (event_driven_design.md:185, consumer.py:45-62).                        *)
THEOREM DeliversAtLeastOnce == Spec => ImplementsDelivery
<1>1. Init => Delivered!Init
  BY DEF Init, Delivered!Init, Owed, Range
<1>2. TypeOK /\ BusyHasMsg /\ WireInv /\ QueueInv /\ [Next]_vars => [Delivered!Next]_(Delivered!deliveryVars)
  <2> SUFFICES ASSUME TypeOK, BusyHasMsg, WireInv, QueueInv, [Next]_vars
               PROVE  Delivered!Next \/ UNCHANGED Delivered!deliveryVars
    OBVIOUS
  <2>1. CASE Publish
    <3>1. next \in DOMAIN Events /\ fact' = Append(fact, next) /\ Owed' = Owed /\ UNCHANGED <<routed, handled>>
      BY <2>1 DEF Publish, consumerVars, Owed
    <3>2. QED
      BY <3>1 DEF Delivered!Next, Delivered!Send
  <2>2. CASE Route
    BY <2>2, RouteAccepts
  <2>3. ASSUME NEW q \in Queues, ConsumerStep(q)
        PROVE  Delivered!Next \/ UNCHANGED Delivered!deliveryVars
    BY <2>3, ConsumerStepDelivers DEF QueueInv
  <2>4. CASE \/ ProducerConnect \/ SetupDone \/ CycleDone \/ ProducerLost \/ BrokerRestart
             \/ UNCHANGED vars
    BY <2>4 DEF ProducerConnect, SetupDone, CycleDone, ProducerLost, BrokerRestart, vars,
       consumerVars, producerVars, Delivered!deliveryVars, Owed
  <2>5. ASSUME NEW q \in Queues, SetupQueue(q) PROVE UNCHANGED Delivered!deliveryVars
    BY <2>5 DEF SetupQueue, consumerVars, producerVars, Delivered!deliveryVars, Owed
  <2>6. QED
    BY <2>1, <2>2, <2>3, <2>4, <2>5 DEF Next, Done, ConsumerStep
<1>3. QED
  BY <1>1, <1>2, Typing, WireInvariant, QueueInvariant, PTL DEF Spec, ImplementsDelivery, Delivered!Spec

=============================================================================
